----------------------- MODULE ReminderService_proofs -----------------------
(***************************************************************************)
(* For every number of attempts, every delay and every bound of the        *)
(* environment: no reminder is announced twice; for a schedule that is not *)
(* edited, an acknowledge silences its chain and a recorded action is      *)
(* never lost; and no reminder is lost, unless power fails while the       *)
(* schedule is edited.  The second part is about the rules whose instances *)
(* carry these reminders (ScheduleRules): for every set of recurrences,    *)
(* dates and times, an occurrence gets one instance, and the chain of      *)
(* instances goes on.                                                      *)
(***************************************************************************)
EXTENDS ReminderService, ScheduleRulesInvariants, WellFoundedInduction, TLAPS

-----------------------------------------------------------------------------
(* The invariant.                                                          *)

\* A copy of a row names the same reminder as the row: chain and attempt never change.
Same(a, b) == a.chain = b.chain /\ a.attempt = b.attempt

Copies(snap) ==
    /\ DOMAIN snap \subseteq DOMAIN tasks
    /\ \A i \in DOMAIN snap : Same(snap[i], tasks[i])

Busy(t) == handler[t].pc # "idle"

\* The types of what the proof looks at.
BaseOK   == /\ now \in Nat /\ sched \in Schedule /\ chainSeq \in Nat
            /\ tasks \in Seq(Task) /\ armed \subseteq DOMAIN tasks
            /\ announced \in Seq(Nat)
Booting  == [pc : {"down", "restore", "insert", "register", "done", "up", "failed"},
             snap : Seq(Task), todo : SUBSET Nat, ok : BOOLEAN]
Handling == [pc : {"idle", "schedule", "update", "insert", "register", "announce"},
             id : Nat, copy : Task, stale : BOOLEAN]
Editing  == [pc : {"idle", "write", "load", "snapshot", "cancel", "insert", "register"},
             op : {"none", "update", "delete"}, copy : Schedule, snap : Seq(Task),
             todo : SUBSET Nat, ok : BOOLEAN]
Acting   == [pc : {"idle", "snapshot", "snooze", "cancel", "others", "load", "complete",
                   "store", "finish"},
             via : {"none", "voice", "im"}, id : Nat,
             kind : {"none", "acknowledge", "snooze"}, copy : Task, snap : Seq(Task),
             todo : SUBSET Nat, row : Schedule]

Typed == /\ BaseOK /\ boot \in Booting /\ handler \in [Handlers -> Handling]
         /\ edit \in Editing /\ action \in Acting

\* A chain has one row per attempt, the last chain's number is the counter, and only a
\* scheduled row is pending.
RowInv ==
    /\ \A i, j \in DOMAIN tasks : Same(tasks[i], tasks[j]) => i = j
    /\ \A i \in DOMAIN tasks : tasks[i].chain <= chainSeq
    /\ tasks # <<>> => \E i \in DOMAIN tasks : tasks[i].chain = chainSeq
    /\ \A i \in DOMAIN tasks : Pending(tasks[i]) => tasks[i].business = "scheduled"

\* What the threads have read are copies of rows.
BootInv == Copies(boot.snap) /\ boot.todo \subseteq DOMAIN boot.snap

EditInv == Copies(edit.snap) /\ (edit.pc = "cancel" => edit.todo \subseteq DOMAIN edit.snap)

ActionInv ==
    /\ Copies(action.snap)
    /\ action.pc \in {"cancel", "others"} => action.todo \subseteq DOMAIN action.snap
    /\ action.pc # "idle" => /\ action.id \in DOMAIN tasks
                             /\ Same(action.copy, tasks[action.id])
                             /\ ~Pending(action.copy)

\* Where a handler stands.
Stands(t) ==
    /\ Busy(t) => handler[t].id \in DOMAIN tasks
    /\ handler[t].pc \in {"schedule", "update", "insert"}
         => Same(handler[t].copy, tasks[handler[t].id])
    /\ handler[t].pc = "insert" => handler[t].copy.attempt < MaximumAttempts
    /\ handler[t].pc = "register" => /\ \E j \in DOMAIN tasks : Same(handler[t].copy, tasks[j])
                                     /\ handler[t].copy.attempt > 1
    /\ handler[t].pc \in {"insert", "register", "announce"} => ~Pending(tasks[handler[t].id])

HandlerInv == \A t \in Handlers : Stands(t)

\* A row is waiting for one thread at most: for the timing service, for Start, or for the
\* handler that has taken it.
Taken(i) == i \in armed \/ i \in boot.todo \/ \E t \in Handlers : Busy(t) /\ handler[t].id = i

OwnInv ==
    /\ armed \cap boot.todo = {}
    /\ \A t \in Handlers : Busy(t) => handler[t].id \notin armed \cup boot.todo
    /\ \A t, u \in Handlers : Busy(t) /\ Busy(u) /\ handler[t].id = handler[u].id => t = u
    /\ \A t \in Handlers, j \in DOMAIN tasks :
         handler[t].pc = "register" /\ Same(handler[t].copy, tasks[j]) => ~Taken(j)
    /\ \A t, u \in Handlers :
         handler[t].pc = "register" /\ handler[u].pc = "register"
           /\ Same(handler[t].copy, handler[u].copy) => t = u
    /\ edit.pc = "register" =>
         \E n \in DOMAIN tasks : /\ edit.todo = {n} /\ ~Taken(n)
                                 /\ tasks[n].chain = chainSeq /\ tasks[n].attempt = 1

\* What else can be under way in a phase of Start.
PhaseInv ==
    /\ boot.pc = "down" => armed = {} /\ \A t \in Handlers : ~Busy(t)
    /\ boot.pc # "up" => edit.pc = "idle" /\ action.pc = "idle"
    /\ boot.pc # "restore" => boot.todo = {}
    /\ boot.pc = "restore" /\ boot.snap = <<>> => tasks = <<>>
    /\ boot.pc = "insert" => tasks = <<>>
    /\ boot.pc = "register" => Len(tasks) = 1 /\ armed = {} /\ \A t \in Handlers : ~Busy(t)

\* A row is announced once, after it has ceased to be pending.
AnnouncedInv ==
    /\ \A p \in DOMAIN announced : /\ announced[p] \in DOMAIN tasks
                                   /\ ~Pending(tasks[announced[p]])
    /\ \A t \in Handlers, p \in DOMAIN announced : Busy(t) => announced[p] # handler[t].id
    /\ \A p, q \in DOMAIN announced : announced[p] = announced[q] => p = q

IInv == /\ Typed /\ RowInv /\ BootInv /\ EditInv /\ ActionInv /\ HandlerInv /\ OwnInv
        /\ PhaseInv /\ AnnouncedInv
-----------------------------------------------------------------------------
\* A set of row numbers that is not empty has a smallest one.
LEMMA SmallestIsIn ==
    ASSUME NEW S \in SUBSET Nat, S # {}
    PROVE  Smallest(S) \in S
<1> DEFINE R == OpToRel(<, Nat)
<1>1. R = {ss \in Nat \X Nat : ss[1] < ss[2]}
  BY Zenon DEF OpToRel
<1>2. \E x \in S : \A y \in S : ~(<<y, x>> \in R)
  BY NatLessThanWellFounded, WFMin, Zenon
<1> HIDE DEF R
<1>3. ASSUME NEW x \in Nat, NEW y \in Nat, y < x PROVE <<y, x>> \in R
  <2>1. <<y, x>> \in Nat \X Nat
    OBVIOUS
  <2>2. <<y, x>>[1] < <<y, x>>[2]
    BY <1>3
  <2> QED
    BY <1>1, <2>1, <2>2
<1>4. PICK x \in S : \A y \in S : ~(<<y, x>> \in R)
  BY <1>2
<1>5. \A y \in S : ~(y < x)
  BY <1>3, <1>4
<1>6. \E z \in S : \A y \in S : z <= y
  BY <1>5
<1> QED
  BY <1>6 DEF Smallest

\* The values threads are reset to.
LEMMA Defaults ==
    /\ Down \in Booting /\ Down.pc = "down" /\ Down.snap = <<>> /\ Down.todo = {}
    /\ Idle \in Handling /\ Idle.pc = "idle"
    /\ NoEdit \in Editing /\ NoEdit.pc = "idle" /\ NoEdit.snap = <<>>
    /\ NoAction \in Acting /\ NoAction.pc = "idle" /\ NoAction.snap = <<>>
<1>1. NoTask \in Task
  BY ReminderAssumption DEF NoTask, Task, Business, Timer
<1>2. [status |-> "active", start |-> 0] \in Schedule
  BY DEF Schedule
<1>3. <<>> \in Seq(Task) /\ {} \in SUBSET Nat
  OBVIOUS
<1>4. Down \in Booting
  BY <1>3 DEF Down, Booting
<1>5. Idle \in Handling
  BY <1>1 DEF Idle, Handling
<1>6. NoEdit \in Editing
  BY <1>2, <1>3 DEF NoEdit, Editing
<1>7. NoAction \in Acting
  BY <1>1, <1>2, <1>3 DEF NoAction, Acting
<1> QED
  BY <1>4, <1>5, <1>6, <1>7 DEF Down, Idle, NoEdit, NoAction

\* A row is written over.
LEMMA RowWritten ==
    ASSUME tasks \in Seq(Task), NEW i \in DOMAIN tasks, NEW r \in Task,
           tasks' = [tasks EXCEPT ![i] = r]
    PROVE  /\ tasks' \in Seq(Task) /\ DOMAIN tasks' = DOMAIN tasks /\ Len(tasks') = Len(tasks)
           /\ tasks'[i] = r
           /\ \A j \in DOMAIN tasks : j # i => tasks'[j] = tasks[j]
  OBVIOUS

\* A row is added.
LEMMA RowAdded ==
    ASSUME tasks \in Seq(Task), NEW r \in Task, tasks' = Append(tasks, r)
    PROVE  /\ tasks' \in Seq(Task) /\ DOMAIN tasks' = DOMAIN tasks \cup {Len(tasks) + 1}
           /\ Len(tasks) + 1 \notin DOMAIN tasks
           /\ tasks'[Len(tasks) + 1] = r
           /\ \A j \in DOMAIN tasks : tasks'[j] = tasks[j]
  OBVIOUS

\* What a step never does to the rows: it keeps them, with chain and attempt, and makes
\* none of them pending again.
Kept ==
    /\ tasks' \in Seq(Task) /\ DOMAIN tasks \subseteq DOMAIN tasks'
    /\ \A i \in DOMAIN tasks : /\ Same(tasks'[i], tasks[i])
                               /\ Pending(tasks'[i]) => tasks'[i] = tasks[i]

\* Rows that do not change are kept.
LEMMA KeptByStuttering ==
    ASSUME tasks \in Seq(Task), tasks' = tasks
    PROVE  Kept /\ DOMAIN tasks' = DOMAIN tasks
  BY DEF Kept, Same

\* Rows are kept when a copy of one that is not pending is written over it.
LEMMA KeptByWriting ==
    ASSUME tasks \in Seq(Task), NEW i \in DOMAIN tasks, NEW r \in Task,
           tasks' = [tasks EXCEPT ![i] = r], Same(r, tasks[i]), ~Pending(r)
    PROVE  Kept /\ DOMAIN tasks' = DOMAIN tasks
<1>1. /\ tasks' \in Seq(Task) /\ DOMAIN tasks' = DOMAIN tasks
      /\ tasks'[i] = r
      /\ \A j \in DOMAIN tasks : j # i => tasks'[j] = tasks[j]
  BY RowWritten
<1>2. ASSUME NEW j \in DOMAIN tasks
      PROVE  Same(tasks'[j], tasks[j]) /\ (Pending(tasks'[j]) => tasks'[j] = tasks[j])
  <2>1. CASE j = i
    BY <1>1, <2>1
  <2>2. CASE j # i
    <3>1. tasks'[j] = tasks[j]
      BY <1>1, <2>2
    <3> QED
      BY <3>1 DEF Same
  <2> QED
    BY <2>1, <2>2
<1> QED
  BY <1>1, <1>2 DEF Kept

\* Rows are kept when one is added.
LEMMA KeptByAdding ==
    ASSUME tasks \in Seq(Task), NEW r \in Task, tasks' = Append(tasks, r)
    PROVE  Kept
<1>1. /\ tasks' \in Seq(Task) /\ DOMAIN tasks \subseteq DOMAIN tasks'
      /\ \A j \in DOMAIN tasks : tasks'[j] = tasks[j]
  BY RowAdded
<1> QED
  BY <1>1 DEF Kept, Same

\* Copies of rows stay copies.
LEMMA CopiesStay ==
    ASSUME Kept, NEW snap, Copies(snap)
    PROVE  /\ DOMAIN snap \subseteq DOMAIN tasks'
           /\ \A i \in DOMAIN snap : Same(snap[i], tasks'[i])
  BY DEF Kept, Copies, Same

\* What Start has read stays a copy.
LEMMA BootStays ==
    ASSUME Kept, BootInv, boot'.snap = boot.snap, boot'.todo \subseteq boot.todo
    PROVE  BootInv'
<1>1. Copies(boot.snap)
  BY DEF BootInv
<1>2. Copies(boot.snap)'
  BY <1>1, CopiesStay DEF Copies
<1> QED
  BY <1>2 DEF BootInv

\* What the MCP worker has read stays a copy.
LEMMA EditStays ==
    ASSUME Kept, EditInv, edit'.snap = edit.snap,
           edit'.pc = "cancel" => edit'.todo \subseteq DOMAIN edit.snap
    PROVE  EditInv'
<1>1. Copies(edit.snap)
  BY DEF EditInv
<1>2. Copies(edit.snap)'
  BY <1>1, CopiesStay DEF Copies
<1> QED
  BY <1>2 DEF EditInv

\* What an action has read stays a copy.
LEMMA ActionStays ==
    ASSUME Kept, ActionInv, action'.snap = action.snap,
           action'.pc \in {"cancel", "others"} => action'.todo \subseteq DOMAIN action.snap,
           action'.pc # "idle" => /\ action.pc # "idle"
                                  /\ action'.id = action.id /\ action'.copy = action.copy
    PROVE  ActionInv'
<1>1. Copies(action.snap)
  BY DEF ActionInv
<1>2. Copies(action.snap)'
  BY <1>1, CopiesStay DEF Copies
<1>3. ASSUME action'.pc # "idle"
      PROVE  /\ action'.id \in DOMAIN tasks'
             /\ Same(action'.copy, tasks'[action'.id])
             /\ ~Pending(action'.copy)
  <2>1. /\ action.id \in DOMAIN tasks /\ Same(action.copy, tasks[action.id])
        /\ ~Pending(action.copy)
    BY <1>3 DEF ActionInv
  <2>2. action.id \in DOMAIN tasks' /\ Same(action.copy, tasks'[action.id])
    BY <2>1 DEF Kept, Same
  <2> QED
    BY <1>3, <2>1, <2>2
<1> QED
  BY <1>2, <1>3 DEF ActionInv

\* A handler that does not move stands where it stood.
LEMMA HandlerStays ==
    ASSUME Kept, NEW t \in Handlers, Stands(t), handler'[t] = handler[t]
    PROVE  Stands(t)'
<1> DEFINE h == handler[t]
<1>1. h.pc # "idle" => h.id \in DOMAIN tasks /\ h.id \in DOMAIN tasks'
  BY DEF Stands, Busy, Kept
<1>2. h.pc \in {"schedule", "update", "insert"} => Same(h.copy, tasks'[h.id])
  BY <1>1 DEF Stands, Kept, Same
<1>3. h.pc = "register" => /\ \E j \in DOMAIN tasks' : Same(h.copy, tasks'[j])
                           /\ h.copy.attempt > 1
  BY DEF Stands, Kept, Same
<1>4. h.pc \in {"insert", "register", "announce"} => ~Pending(tasks'[h.id])
  BY <1>1 DEF Stands, Kept
<1>5. h.pc = "insert" => h.copy.attempt < MaximumAttempts
  BY DEF Stands
<1> QED
  BY <1>1, <1>2, <1>3, <1>4, <1>5 DEF Stands, Busy

\* A step that takes no row and adds none.
Calm ==
    /\ Kept /\ DOMAIN tasks' = DOMAIN tasks /\ chainSeq' = chainSeq
    /\ armed' \subseteq armed /\ boot'.todo \subseteq boot.todo
    /\ \A t \in Handlers : handler'[t].pc # "idle" =>
         /\ Busy(t) /\ handler'[t].id = handler[t].id
         /\ handler'[t].pc = "register" => /\ handler[t].pc = "register"
                                           /\ handler'[t].copy = handler[t].copy
    /\ edit'.pc = "register" => edit.pc = "register" /\ edit'.todo = edit.todo

\* What is known of the rows stays true when none is added.
LEMMA RowsStay ==
    ASSUME Kept, RowInv, DOMAIN tasks' = DOMAIN tasks, chainSeq' = chainSeq, tasks \in Seq(Task)
    PROVE  RowInv'
<1>1. \A i \in DOMAIN tasks : /\ tasks'[i].chain = tasks[i].chain
                              /\ tasks'[i].attempt = tasks[i].attempt
                              /\ Pending(tasks'[i]) => tasks'[i] = tasks[i]
  BY DEF Kept, Same
<1>2. \A i, j \in DOMAIN tasks' : Same(tasks'[i], tasks'[j]) => i = j
  BY <1>1 DEF RowInv, Same
<1>3. \A i \in DOMAIN tasks' : tasks'[i].chain <= chainSeq'
  BY <1>1 DEF RowInv
<1>4. tasks' # <<>> => \E i \in DOMAIN tasks' : tasks'[i].chain = chainSeq'
  <2>1. tasks' # <<>> => tasks # <<>>
    BY DEF Kept
  <2> QED
    BY <1>1, <2>1 DEF RowInv
<1>5. \A i \in DOMAIN tasks' : Pending(tasks'[i]) => tasks'[i].business = "scheduled"
  BY <1>1 DEF RowInv
<1> QED
  BY <1>2, <1>3, <1>4, <1>5 DEF RowInv

\* Nobody waits for a row that somebody else waits for.
LEMMA OwnersStay ==
    ASSUME Calm, OwnInv
    PROVE  OwnInv'
<1>1. \A i \in DOMAIN tasks : /\ tasks'[i].chain = tasks[i].chain
                              /\ tasks'[i].attempt = tasks[i].attempt
  BY DEF Calm, Kept, Same
<1>2. /\ DOMAIN tasks' = DOMAIN tasks /\ chainSeq' = chainSeq
      /\ armed' \subseteq armed /\ boot'.todo \subseteq boot.todo
  BY DEF Calm
<1>3. \A t \in Handlers : Busy(t)' => Busy(t) /\ handler'[t].id = handler[t].id
  BY DEF Calm, Busy
<1>4. \A t \in Handlers : handler'[t].pc = "register" =>
        handler[t].pc = "register" /\ handler'[t].copy = handler[t].copy
  BY DEF Calm
<1>5. \A i : Taken(i)' => Taken(i)
  BY <1>2, <1>3 DEF Taken
<1>6. (armed \cap boot.todo = {})'
  BY <1>2 DEF OwnInv
<1>7. \A t \in Handlers : Busy(t)' => handler'[t].id \notin armed' \cup boot'.todo
  BY <1>2, <1>3 DEF OwnInv
<1>8. \A t, u \in Handlers : Busy(t)' /\ Busy(u)' /\ handler'[t].id = handler'[u].id => t = u
  BY <1>3 DEF OwnInv
<1>9. \A t \in Handlers, j \in DOMAIN tasks' :
        handler'[t].pc = "register" /\ Same(handler'[t].copy, tasks'[j]) => ~Taken(j)'
  BY <1>1, <1>2, <1>4, <1>5 DEF OwnInv, Same
<1>10. \A t, u \in Handlers :
         handler'[t].pc = "register" /\ handler'[u].pc = "register"
           /\ Same(handler'[t].copy, handler'[u].copy) => t = u
  BY <1>4 DEF OwnInv
<1>11. ASSUME edit'.pc = "register"
       PROVE  \E n \in DOMAIN tasks' : /\ edit'.todo = {n} /\ ~Taken(n)'
                                       /\ tasks'[n].chain = chainSeq' /\ tasks'[n].attempt = 1
  <2>1. edit.pc = "register" /\ edit'.todo = edit.todo
    BY <1>11 DEF Calm
  <2> QED
    BY <1>1, <1>2, <1>5, <2>1 DEF OwnInv
<1> QED
  BY <1>6, <1>7, <1>8, <1>9, <1>10, <1>11 DEF OwnInv

\* What was announced stays announced, and no handler has it.
LEMMA AnnouncedStay ==
    ASSUME Kept, AnnouncedInv, announced' = announced,
           \A t \in Handlers : Busy(t)' => Busy(t) /\ handler'[t].id = handler[t].id
    PROVE  AnnouncedInv'
<1>1. \A p \in DOMAIN announced : /\ announced[p] \in DOMAIN tasks'
                                  /\ ~Pending(tasks'[announced[p]])
  BY DEF AnnouncedInv, Kept
<1>2. \A t \in Handlers, p \in DOMAIN announced : Busy(t)' => announced[p] # handler'[t].id
  BY DEF AnnouncedInv
<1>3. \A p, q \in DOMAIN announced : announced[p] = announced[q] => p = q
  BY DEF AnnouncedInv
<1> QED
  BY <1>1, <1>2, <1>3 DEF AnnouncedInv

\* A step that takes no row, adds none and announces none.
LEMMA CalmStep ==
    ASSUME IInv, Calm, announced' = announced
    PROVE  RowInv' /\ OwnInv' /\ AnnouncedInv'
<1>1. RowInv'
  BY RowsStay DEF Calm, IInv, Typed, BaseOK
<1>2. OwnInv'
  BY OwnersStay DEF IInv
<1>3. \A t \in Handlers : Busy(t)' => Busy(t) /\ handler'[t].id = handler[t].id
  BY DEF Calm, Busy
<1>4. AnnouncedInv'
  BY <1>3, AnnouncedStay DEF IInv, Calm
<1> QED
  BY <1>1, <1>2, <1>4

\* A step of the MCP worker, of an action, of the timing service or of time: Start and the
\* handlers do not move, no row is armed, taken, added or announced.
LEMMA OutsideStep ==
    ASSUME IInv, Kept, DOMAIN tasks' = DOMAIN tasks,
           UNCHANGED <<handler, boot, announced, chainSeq>>, armed' \subseteq armed,
           now' \in Nat, sched' \in Schedule,
           edit' \in Editing, action' \in Acting, EditInv', ActionInv',
           edit'.pc = "register" => edit.pc = "register" /\ edit'.todo = edit.todo,
           boot.pc # "up" => edit'.pc = "idle" /\ action'.pc = "idle"
    PROVE  IInv'
<1>1. Typed /\ RowInv /\ BootInv /\ HandlerInv /\ PhaseInv
  BY DEF IInv
<1>2. BaseOK'
  BY <1>1 DEF Typed, BaseOK, Kept
<1>3. Typed'
  BY <1>1, <1>2 DEF Typed
<1>4. Calm
  BY DEF Calm, Busy
<1>5. RowInv' /\ OwnInv' /\ AnnouncedInv'
  BY <1>4, CalmStep
<1>6. BootInv'
  BY <1>1, BootStays
<1>7. HandlerInv'
  BY <1>1, HandlerStays DEF HandlerInv
<1>8. PhaseInv'
  <2>1. Len(tasks') = Len(tasks) /\ (tasks = <<>> => tasks' = <<>>)
    BY <1>1 DEF Typed, BaseOK, Kept
  <2>2. \A t \in Handlers : Busy(t)' = Busy(t)
    BY DEF Busy
  <2> QED
    BY <1>1, <2>1, <2>2 DEF PhaseInv
<1> QED
  BY <1>3, <1>5, <1>6, <1>7, <1>8 DEF IInv

\* The steps of the MCP worker that add no row.
LEMMA EditSteps ==
    ASSUME IInv, UpdateBegin \/ (\E s \in Starts : UpdateWrite(s)) \/ Delete \/ SyncLoad
                 \/ SyncSnapshot \/ SyncDone
    PROVE  IInv'
<1>1. /\ now \in Nat /\ sched \in Schedule /\ tasks \in Seq(Task)
      /\ edit \in Editing /\ action \in Acting /\ EditInv /\ ActionInv /\ PhaseInv
  BY DEF IInv, Typed, BaseOK
<1>2. /\ UNCHANGED <<tasks, armed, now, handler, boot, announced, chainSeq, action>>
      /\ boot.pc = "up"
  BY <1>1 DEF UpdateBegin, UpdateWrite, Delete, SyncLoad, SyncSnapshot, SyncDone, storage,
              timing, ghosts, McpWorkerFree, PhaseInv
<1>3. Kept /\ DOMAIN tasks' = DOMAIN tasks
  BY <1>1, <1>2, KeptByStuttering
<1>4. ActionInv' /\ action' \in Acting
  <2>1. ActionInv'
    BY <1>1, <1>2, <1>3, ActionStays DEF ActionInv
  <2> QED
    BY <1>1, <1>2, <2>1
<1>5. ASSUME edit' \in Editing, edit'.pc \notin {"register", "cancel"},
             edit'.snap = <<>> \/ edit'.snap = edit.snap, sched' \in Schedule
      PROVE  IInv'
  <2>1. EditInv'
    <3>1. CASE edit'.snap = <<>>
      <4>1. Copies(edit.snap)'
        BY <3>1 DEF Copies
      <4> QED
        BY <1>5, <4>1 DEF EditInv
    <3>2. CASE edit'.snap = edit.snap
      BY <1>1, <1>3, <1>5, <3>2, EditStays
    <3> QED
      BY <1>5, <3>1, <3>2
  <2> QED
    BY <1>1, <1>2, <1>3, <1>4, <1>5, <2>1, OutsideStep
<1>6. CASE UpdateBegin
  <2>1. edit' = [NoEdit EXCEPT !.pc = "write", !.op = "update", !.copy = sched]
    BY <1>6 DEF UpdateBegin
  <2>2. edit' \in Editing /\ edit'.pc = "write" /\ edit'.snap = <<>>
    BY <1>1, <2>1, Defaults DEF Editing
  <2>3. sched' = sched
    BY <1>6 DEF UpdateBegin, storage
  <2> QED
    BY <1>1, <1>5, <2>2, <2>3
<1>7. ASSUME NEW s \in Starts, UpdateWrite(s) PROVE IInv'
  <2>1. edit' \in Editing /\ edit'.pc = "load" /\ edit'.snap = edit.snap
    BY <1>1, <1>7 DEF UpdateWrite, Editing
  <2>2. sched' \in Schedule
    BY <1>1, <1>7, ReminderAssumption DEF UpdateWrite, Editing, Schedule
  <2> QED
    BY <1>5, <2>1, <2>2
<1>8. CASE Delete
  <2>1. edit' = [NoEdit EXCEPT !.pc = "load", !.op = "delete"]
    BY <1>8 DEF Delete
  <2>2. edit' \in Editing /\ edit'.pc = "load" /\ edit'.snap = <<>>
    BY <1>1, <2>1, Defaults DEF Editing
  <2>3. sched' \in Schedule
    BY <1>1, <1>8 DEF Delete, Schedule
  <2> QED
    BY <1>5, <2>2, <2>3
<1>9. CASE SyncLoad
  <2>1. edit' \in Editing /\ edit'.pc = "snapshot" /\ edit'.snap = edit.snap
    BY <1>1, <1>9 DEF SyncLoad, Editing
  <2>2. sched' = sched
    BY <1>9 DEF SyncLoad, storage
  <2> QED
    BY <1>1, <1>5, <2>1, <2>2
<1>10. CASE SyncSnapshot
  <2>1. PendingIn(tasks) \in SUBSET Nat /\ PendingIn(tasks) \subseteq DOMAIN tasks
    BY <1>1 DEF PendingIn
  <2>2. edit' = [edit EXCEPT !.pc = "cancel", !.snap = tasks, !.todo = PendingIn(tasks)]
    BY <1>10 DEF SyncSnapshot
  <2>3. edit' \in Editing /\ edit'.pc = "cancel" /\ edit'.snap = tasks /\ edit'.todo = PendingIn(tasks)
    BY <1>1, <2>1, <2>2 DEF Editing
  <2>4. sched' = sched
    BY <1>10 DEF SyncSnapshot, storage
  <2>5. EditInv'
    <3>1. Copies(edit.snap)'
      BY <1>2, <2>3 DEF Copies, Same
    <3> QED
      BY <2>1, <2>3, <3>1 DEF EditInv
  <2> QED
    BY <1>1, <1>2, <1>3, <1>4, <2>3, <2>4, <2>5, OutsideStep
<1>11. CASE SyncDone
  <2>1. sched' = sched
    BY <1>11 DEF SyncDone, storage
  <2>2. CASE edit' = NoEdit
    BY <1>1, <1>5, <2>1, <2>2, Defaults
  <2>3. CASE edit' = [edit EXCEPT !.pc = "insert"]
    <3>1. edit' \in Editing /\ edit'.pc = "insert" /\ edit'.snap = edit.snap
      BY <1>1, <2>3 DEF Editing
    <3> QED
      BY <1>1, <1>5, <2>1, <3>1
  <2> QED
    BY <1>11, <2>2, <2>3 DEF SyncDone
<1> QED
  BY <1>6, <1>7, <1>8, <1>9, <1>10, <1>11

\* CancelPendingTask writes the copy it read, cancelled.
LEMMA CancelStep ==
    ASSUME IInv, CancelPendingTask
    PROVE  IInv'
<1>1. /\ now \in Nat /\ sched \in Schedule /\ tasks \in Seq(Task)
      /\ edit \in Editing /\ action \in Acting /\ EditInv /\ ActionInv /\ PhaseInv
  BY DEF IInv, Typed, BaseOK
<1>2. /\ UNCHANGED <<sched, armed, now, handler, boot, announced, chainSeq, action>>
      /\ boot.pc = "up" /\ edit.pc = "cancel" /\ edit.todo # {}
  BY <1>1 DEF CancelPendingTask, ghosts, PhaseInv
<1> DEFINE i == Smallest(edit.todo)
           r == [edit.snap[i] EXCEPT !.timer = "cancelled", !.business = "cancelled"]
<1>3. edit.todo \in SUBSET Nat /\ edit.snap \in Seq(Task) /\ edit.todo \subseteq DOMAIN edit.snap
      /\ Copies(edit.snap)
  BY <1>1, <1>2 DEF Editing, EditInv
<1>4. i \in edit.todo
  BY <1>2, <1>3, SmallestIsIn
<1>5. i \in DOMAIN tasks /\ edit.snap[i] \in Task /\ Same(edit.snap[i], tasks[i])
  BY <1>3, <1>4 DEF Copies
<1> HIDE DEF i
<1>6. r \in Task /\ Same(r, tasks[i]) /\ ~Pending(r)
  BY <1>5 DEF Task, Same, Pending, Business, Timer
<1>7. tasks' = [tasks EXCEPT ![i] = r] \/ tasks' = tasks
  BY DEF CancelPendingTask, i
<1> HIDE DEF r
<1>8. Kept /\ DOMAIN tasks' = DOMAIN tasks
  BY <1>1, <1>5, <1>6, <1>7, KeptByStuttering, KeptByWriting
<1>9. \/ edit' = [edit EXCEPT !.todo = @ \ {i}]
      \/ edit' = [edit EXCEPT !.todo = @ \ {i}, !.ok = FALSE]
  BY DEF CancelPendingTask, i
<1>10. /\ edit' \in Editing /\ edit'.pc = "cancel" /\ edit'.snap = edit.snap
       /\ edit'.todo \subseteq edit.todo
  BY <1>1, <1>2, <1>9 DEF Editing
<1>11. EditInv'
  BY <1>1, <1>3, <1>8, <1>10, EditStays
<1>12. ActionInv'
  BY <1>1, <1>2, <1>8, ActionStays DEF ActionInv
<1> QED
  BY <1>1, <1>2, <1>8, <1>10, <1>11, <1>12, OutsideStep

\* The steps of an action that write no row.
LEMMA ActionSteps ==
    ASSUME IInv,
           \/ \E i \in DOMAIN tasks, k \in {"acknowledge", "snooze"}, via \in {"voice", "im"} :
                ActionBegin(i, k, via)
           \/ ActionSnapshot \/ AcknowledgeCancel \/ AcknowledgeLoad \/ CompleteLoad
           \/ CompleteStore
    PROVE  IInv'
<1>1. /\ now \in Nat /\ sched \in Schedule /\ tasks \in Seq(Task)
      /\ edit \in Editing /\ action \in Acting /\ EditInv /\ ActionInv /\ PhaseInv /\ RowInv
  BY DEF IInv, Typed, BaseOK
<1>2. /\ UNCHANGED <<tasks, armed, now, handler, boot, announced, chainSeq, edit>>
      /\ boot.pc = "up"
  BY <1>1 DEF ActionBegin, ActionSnapshot, AcknowledgeCancel, AcknowledgeLoad, CompleteLoad,
              CompleteStore, storage, timing, ghosts, PhaseInv
<1>3. Kept /\ DOMAIN tasks' = DOMAIN tasks
  BY <1>1, <1>2, KeptByStuttering
<1>4. EditInv'
  BY <1>1, <1>2, <1>3, EditStays DEF EditInv
<1>5. ASSUME action' \in Acting, ActionInv', sched' \in Schedule
      PROVE  IInv'
  BY <1>1, <1>2, <1>3, <1>4, <1>5, OutsideStep
<1>6. action' = NoAction => action' \in Acting /\ ActionInv'
  BY Defaults DEF ActionInv, Copies
<1>7. ASSUME action' \in Acting, action'.pc # "idle", action.pc # "idle", sched' \in Schedule,
             action'.snap = action.snap, action'.id = action.id, action'.copy = action.copy,
             action'.pc \in {"cancel", "others"} => action'.todo \subseteq DOMAIN action.snap
      PROVE  IInv'
  <2>1. ActionInv'
    BY <1>1, <1>3, <1>7, ActionStays
  <2> QED
    BY <1>5, <1>7, <2>1
<1>8. ASSUME NEW i \in DOMAIN tasks, NEW k \in {"acknowledge", "snooze"},
             NEW via \in {"voice", "im"}, ActionBegin(i, k, via)
      PROVE  IInv'
  <2>1. /\ action' = [NoAction EXCEPT !.pc = "snapshot", !.via = via, !.id = i, !.kind = k,
                                      !.copy = tasks[i]]
        /\ tasks[i].business \in {"waiting", "exhausted"} /\ sched' = sched
    BY <1>8 DEF ActionBegin, storage
  <2>2. tasks[i] \in Task /\ i \in Nat
    BY <1>1
  <2>3. /\ action' \in Acting /\ action'.pc = "snapshot" /\ action'.id = i
        /\ action'.copy = tasks[i] /\ action'.snap = <<>>
    BY <2>1, <2>2, Defaults DEF Acting
  <2>4. ~Pending(tasks[i])
    BY <1>1, <2>1 DEF RowInv
  <2>5. ActionInv'
    BY <1>2, <2>3, <2>4 DEF ActionInv, Copies, Same
  <2> QED
    BY <1>1, <1>5, <2>1, <2>3, <2>5
<1>9. CASE ActionSnapshot
  <2>1. action.pc = "snapshot" /\ sched' = sched
    BY <1>9 DEF ActionSnapshot, storage
  <2> DEFINE todo == SameChain(tasks) \cap PendingIn(tasks)
  <2>2. todo \in SUBSET Nat /\ todo \subseteq DOMAIN tasks
    BY <1>1 DEF SameChain, PendingIn
  <2> HIDE DEF todo
  <2>3. CASE action' = [action EXCEPT !.pc = "cancel", !.snap = tasks, !.todo = todo]
    <3>1. /\ action' \in Acting /\ action'.pc = "cancel" /\ action'.snap = tasks
          /\ action'.todo = todo /\ action'.id = action.id /\ action'.copy = action.copy
      BY <1>1, <2>2, <2>3 DEF Acting
    <3>2. Copies(action.snap)'
      BY <1>2, <3>1 DEF Copies, Same
    <3>3. ActionInv'
      BY <1>1, <1>2, <2>1, <2>2, <3>1, <3>2 DEF ActionInv
    <3> QED
      BY <1>1, <1>5, <2>1, <3>1, <3>3
  <2>4. CASE action' = [action EXCEPT !.pc = "snooze"]
    <3>1. /\ action' \in Acting /\ action'.pc = "snooze" /\ action'.snap = action.snap
          /\ action'.id = action.id /\ action'.copy = action.copy
      BY <1>1, <2>4 DEF Acting
    <3> QED
      BY <1>1, <1>7, <2>1, <3>1
  <2>5. CASE action' = NoAction
    BY <1>1, <1>5, <1>6, <2>1, <2>5
  <2> QED
    BY <1>9, <2>3, <2>4, <2>5 DEF ActionSnapshot, todo
<1>10. CASE AcknowledgeCancel
  <2>1. action.pc = "cancel" /\ sched' = sched
    BY <1>10 DEF AcknowledgeCancel, storage
  <2>2. action.todo \in SUBSET Nat /\ action.todo \subseteq DOMAIN action.snap
        /\ action.snap \in Seq(Task)
    BY <1>1, <2>1 DEF ActionInv, Acting
  <2> DEFINE others == SameChain(action.snap) \ {action.id}
             i == Smallest(action.todo)
  <2>3. others \in SUBSET Nat /\ others \subseteq DOMAIN action.snap
    BY <2>2 DEF SameChain
  <2> HIDE DEF others, i
  <2>4. CASE action' = [action EXCEPT !.pc = "others", !.todo = others]
    <3>1. /\ action' \in Acting /\ action'.pc = "others" /\ action'.snap = action.snap
          /\ action'.id = action.id /\ action'.copy = action.copy /\ action'.todo = others
      BY <1>1, <2>3, <2>4 DEF Acting
    <3> QED
      BY <1>1, <1>7, <2>1, <2>3, <3>1
  <2>5. CASE action' = [action EXCEPT !.todo = @ \ {i}]
    <3>1. /\ action' \in Acting /\ action'.pc = "cancel" /\ action'.snap = action.snap
          /\ action'.id = action.id /\ action'.copy = action.copy
          /\ action'.todo \subseteq action.todo
      BY <1>1, <2>1, <2>2, <2>5 DEF Acting
    <3> QED
      BY <1>1, <1>7, <2>1, <2>2, <3>1
  <2>6. CASE action' = NoAction
    BY <1>1, <1>5, <1>6, <2>1, <2>6
  <2> QED
    BY <1>10, <2>4, <2>5, <2>6 DEF AcknowledgeCancel, others, i
<1>11. ASSUME NEW pc \in {"complete", "finish"}, action.pc # "idle",
              action' = [action EXCEPT !.pc = pc], sched' \in Schedule
       PROVE  IInv'
  <2>1. /\ action' \in Acting /\ action'.pc = pc /\ action'.snap = action.snap
        /\ action'.id = action.id /\ action'.copy = action.copy
    BY <1>1, <1>11 DEF Acting
  <2> QED
    BY <1>7, <1>11, <2>1
<1>12. CASE AcknowledgeLoad
  <2>1. action.pc = "load" /\ sched' = sched
    BY <1>12 DEF AcknowledgeLoad, storage
  <2>2. \/ action' = [action EXCEPT !.pc = "complete"]
        \/ action' = [action EXCEPT !.pc = "finish"]
        \/ action' = NoAction
    <3>1. sched.status \in {"active", "completed", "cancelled"}
      BY <1>1 DEF Schedule
    <3>2. CASE sched.status = "active"
      BY <1>12, <3>2 DEF AcknowledgeLoad
    <3>3. CASE sched.status = "completed"
      BY <1>12, <3>3 DEF AcknowledgeLoad
    <3>4. CASE sched.status = "cancelled"
      BY <1>12, <3>4 DEF AcknowledgeLoad
    <3> QED
      BY <3>1, <3>2, <3>3, <3>4
  <2>3. CASE action' = NoAction
    BY <1>1, <1>5, <1>6, <2>1, <2>3
  <2> QED
    BY <1>1, <1>11, <2>1, <2>2, <2>3
<1>13. CASE CompleteLoad
  <2>1. action.pc = "complete" /\ sched' = sched
    BY <1>13 DEF CompleteLoad, storage
  <2>2. CASE action' = NoAction
    BY <1>1, <1>5, <1>6, <2>1, <2>2
  <2>3. CASE action' = [action EXCEPT !.pc = "store", !.row = sched]
    <3>1. /\ action' \in Acting /\ action'.pc = "store" /\ action'.snap = action.snap
          /\ action'.id = action.id /\ action'.copy = action.copy
      BY <1>1, <2>3 DEF Acting
    <3> QED
      BY <1>1, <1>7, <2>1, <3>1
  <2> QED
    BY <1>13, <2>2, <2>3 DEF CompleteLoad
<1>14. CASE CompleteStore
  <2>1. action.pc = "store" /\ action' = [action EXCEPT !.pc = "finish"]
    BY <1>14 DEF CompleteStore
  <2>2. sched' \in Schedule
    BY <1>1, <1>14 DEF CompleteStore, Acting, Schedule
  <2> QED
    BY <1>11, <2>1, <2>2
<1> QED
  BY <1>8, <1>9, <1>10, <1>12, <1>13, <1>14

\* The steps of an action that write a row.
LEMMA ActionWrites ==
    ASSUME IInv, SnoozeWrite \/ AcknowledgeOthers \/ AcknowledgeFinish
    PROVE  IInv'
<1>1. /\ now \in Nat /\ sched \in Schedule /\ tasks \in Seq(Task)
      /\ edit \in Editing /\ action \in Acting /\ EditInv /\ ActionInv /\ PhaseInv
  BY DEF IInv, Typed, BaseOK
<1>2. /\ UNCHANGED <<sched, armed, now, handler, boot, announced, chainSeq, edit>>
      /\ boot.pc = "up"
  BY <1>1 DEF SnoozeWrite, AcknowledgeOthers, AcknowledgeFinish, timing, ghosts, PhaseInv
<1>3. ASSUME Kept, DOMAIN tasks' = DOMAIN tasks, action' \in Acting, ActionInv'
      PROVE  IInv'
  <2>1. EditInv'
    BY <1>1, <1>2, <1>3, EditStays DEF EditInv
  <2> QED
    BY <1>1, <1>2, <1>3, <2>1, OutsideStep
<1>4. action' = NoAction => action' \in Acting /\ ActionInv'
  BY Defaults DEF ActionInv, Copies
<1>5. ASSUME NEW r \in Task, action.pc # "idle", r.chain = action.copy.chain,
             r.attempt = action.copy.attempt, r.timer = action.copy.timer,
             tasks' = [tasks EXCEPT ![action.id] = r], action' = NoAction
      PROVE  IInv'
  <2>1. action.id \in DOMAIN tasks /\ Same(r, tasks[action.id]) /\ ~Pending(r)
    BY <1>1, <1>5 DEF ActionInv, Same, Pending
  <2>2. Kept /\ DOMAIN tasks' = DOMAIN tasks
    BY <1>1, <1>5, <2>1, KeptByWriting
  <2> QED
    BY <1>3, <1>4, <1>5, <2>2
<1>6. CASE SnoozeWrite
  <2> DEFINE r == [action.copy EXCEPT !.business = "snoozed", !.action = "snooze"]
  <2>1. /\ tasks' = [tasks EXCEPT ![action.id] = r] /\ action' = NoAction
        /\ action.pc = "snooze"
    BY <1>6 DEF SnoozeWrite
  <2>2. /\ r \in Task /\ r.chain = action.copy.chain
        /\ r.attempt = action.copy.attempt /\ r.timer = action.copy.timer
    BY <1>1 DEF Acting, Task, Business
  <2> HIDE DEF r
  <2> QED
    BY <1>5, <2>1, <2>2
<1>7. CASE AcknowledgeFinish
  <2> DEFINE r == [action.copy EXCEPT !.business = "acknowledged", !.action = "acknowledge"]
  <2>1. /\ tasks' = [tasks EXCEPT ![action.id] = r] /\ action' = NoAction
        /\ action.pc = "finish"
    BY <1>7 DEF AcknowledgeFinish
  <2>2. /\ r \in Task /\ r.chain = action.copy.chain
        /\ r.attempt = action.copy.attempt /\ r.timer = action.copy.timer
    BY <1>1 DEF Acting, Task, Business
  <2> HIDE DEF r
  <2> QED
    BY <1>5, <2>1, <2>2
<1>8. CASE AcknowledgeOthers
  <2>1. /\ action.pc = "others" /\ action.todo \in SUBSET Nat
        /\ action.todo \subseteq DOMAIN action.snap /\ action.snap \in Seq(Task)
        /\ Copies(action.snap)
    BY <1>1, <1>8 DEF AcknowledgeOthers, ActionInv, Acting
  <2>2. CASE tasks' = tasks /\ action' = [action EXCEPT !.pc = "load"]
    <3>1. /\ action' \in Acting /\ action'.pc = "load" /\ action'.snap = action.snap
          /\ action'.id = action.id /\ action'.copy = action.copy
      BY <1>1, <2>2 DEF Acting
    <3>2. Kept /\ DOMAIN tasks' = DOMAIN tasks
      BY <1>1, <2>2, KeptByStuttering
    <3>3. ActionInv'
      BY <1>1, <2>1, <3>1, <3>2, ActionStays
    <3> QED
      BY <1>3, <3>1, <3>2, <3>3
  <2> DEFINE i == Smallest(action.todo)
             r == Closed(action.snap[i])
  <2>3. CASE /\ action.todo # {} /\ tasks' = [tasks EXCEPT ![i] = r]
             /\ action' = [action EXCEPT !.todo = @ \ {i}]
    <3>1. i \in action.todo
      BY <2>1, <2>3, SmallestIsIn
    <3>2. i \in DOMAIN tasks /\ action.snap[i] \in Task /\ Same(action.snap[i], tasks[i])
      BY <2>1, <3>1 DEF Copies
    <3> HIDE DEF i
    <3>3. r \in Task /\ r.chain = action.snap[i].chain /\ r.attempt = action.snap[i].attempt
          /\ r.timer # "pending"
      BY <3>2 DEF Closed, Task, Pending, Business, Timer
    <3>4. Same(r, tasks[i]) /\ ~Pending(r)
      BY <3>2, <3>3 DEF Same, Pending
    <3> HIDE DEF r
    <3>5. Kept /\ DOMAIN tasks' = DOMAIN tasks
      BY <1>1, <2>3, <3>2, <3>3, <3>4, KeptByWriting
    <3>6. /\ action' \in Acting /\ action'.pc = "others" /\ action'.snap = action.snap
          /\ action'.id = action.id /\ action'.copy = action.copy
          /\ action'.todo \subseteq action.todo
      BY <1>1, <2>1, <2>3 DEF Acting
    <3>7. ActionInv'
      BY <1>1, <2>1, <3>5, <3>6, ActionStays
    <3> QED
      BY <1>3, <3>5, <3>6, <3>7
  <2> QED
    BY <1>8, <2>2, <2>3 DEF AcknowledgeOthers
<1> QED
  BY <1>6, <1>7, <1>8

\* A new row of a new chain, or the next attempt of a chain that has none.
LEMMA RowsGrow ==
    ASSUME RowInv, tasks \in Seq(Task), NEW r \in Task, tasks' = Append(tasks, r),
           ~HasAttempt(r.chain, r.attempt), r.business = "scheduled",
           chainSeq \in Nat, chainSeq' \in Nat,
           \/ chainSeq' = chainSeq /\ r.chain <= chainSeq /\ tasks # <<>>
           \/ chainSeq' = r.chain /\ chainSeq <= chainSeq'
    PROVE  RowInv'
<1> DEFINE n == Len(tasks) + 1
<1>1. /\ DOMAIN tasks' = DOMAIN tasks \cup {n} /\ n \notin DOMAIN tasks
      /\ tasks'[n] = r /\ \A j \in DOMAIN tasks : tasks'[j] = tasks[j]
  BY RowAdded
<1> HIDE DEF n
<1>2. \A i \in DOMAIN tasks : ~Same(tasks[i], r) /\ ~Same(r, tasks[i])
  BY DEF HasAttempt, Same
<1>3. \A i, j \in DOMAIN tasks' : Same(tasks'[i], tasks'[j]) => i = j
  BY <1>1, <1>2 DEF RowInv
<1>4. \A i \in DOMAIN tasks' : tasks'[i].chain <= chainSeq'
  <2>1. ASSUME NEW i \in DOMAIN tasks PROVE tasks[i].chain <= chainSeq'
    <3>1. tasks[i] \in Task
      OBVIOUS
    <3>2. tasks[i].chain \in Nat /\ tasks[i].chain <= chainSeq
      BY <3>1 DEF RowInv, Task
    <3> QED
      BY <3>2
  <2>2. r.chain <= chainSeq'
    BY DEF Task
  <2> QED
    BY <1>1, <2>1, <2>2
<1>5. \E i \in DOMAIN tasks' : tasks'[i].chain = chainSeq'
  BY <1>1 DEF RowInv
<1>6. \A i \in DOMAIN tasks' : Pending(tasks'[i]) => tasks'[i].business = "scheduled"
  BY <1>1 DEF RowInv
<1> QED
  BY <1>3, <1>4, <1>5, <1>6 DEF RowInv

\* SynchronizeSchedule adds the first row of a new chain.
LEMMA SyncInsertStep ==
    ASSUME IInv, SyncInsert
    PROVE  IInv'
<1>1. /\ now \in Nat /\ sched \in Schedule /\ tasks \in Seq(Task) /\ chainSeq \in Nat
      /\ armed \subseteq DOMAIN tasks /\ announced \in Seq(Nat) /\ boot \in Booting
      /\ handler \in [Handlers -> Handling]
      /\ edit \in Editing /\ action \in Acting
  BY DEF IInv, Typed, BaseOK
<1>2. RowInv /\ BootInv /\ EditInv /\ ActionInv /\ HandlerInv /\ OwnInv /\ PhaseInv
      /\ AnnouncedInv
  BY DEF IInv
<1> DEFINE r == NewTask(chainSeq + 1, 1, edit.copy.start)
           n == Len(tasks) + 1
<1>3. /\ UNCHANGED <<sched, armed, now, handler, boot, announced, action>>
      /\ boot.pc = "up" /\ boot.todo = {} /\ chainSeq' = chainSeq + 1 /\ tasks' = Append(tasks, r)
  BY <1>2 DEF SyncInsert, timing, ghosts, PhaseInv
<1>4. /\ r \in Task /\ r.chain = chainSeq + 1 /\ r.attempt = 1 /\ r.business = "scheduled"
  BY <1>1, ReminderAssumption DEF Editing, Schedule, NewTask, Task, Business, Timer
<1>5. edit' = [edit EXCEPT !.pc = "register", !.todo = {n}] /\ n \in Nat
  BY <1>1 DEF SyncInsert, NewId
<1> HIDE DEF r
<1>6. /\ DOMAIN tasks' = DOMAIN tasks \cup {n} /\ n \notin DOMAIN tasks
      /\ tasks'[n] = r /\ \A j \in DOMAIN tasks : tasks'[j] = tasks[j]
  BY <1>1, <1>3, <1>4, RowAdded
<1> HIDE DEF n
<1>7. Kept
  BY <1>1, <1>3, <1>4, KeptByAdding
<1>8. edit' \in Editing /\ edit'.pc = "register" /\ edit'.todo = {n} /\ edit'.snap = edit.snap
  BY <1>1, <1>5 DEF Editing
<1>9. Typed'
  <2>1. BaseOK'
    BY <1>1, <1>3, <1>6, <1>7 DEF BaseOK, Kept
  <2> QED
    BY <1>1, <1>3, <1>8, <2>1 DEF Typed
<1>10. RowInv'
  <2>1. ~HasAttempt(r.chain, r.attempt)
    <3>1. ASSUME NEW i \in DOMAIN tasks PROVE tasks[i].chain \in Nat /\ tasks[i].chain <= chainSeq
      <4>1. tasks[i] \in Task
        BY <1>1
      <4> QED
        BY <1>2, <4>1 DEF RowInv, Task
    <3>2. \A i \in DOMAIN tasks : tasks[i].chain # chainSeq + 1
      BY <1>1, <3>1
    <3> QED
      BY <1>4, <3>2 DEF HasAttempt
  <2> QED
    BY <1>1, <1>2, <1>3, <1>4, <2>1, RowsGrow
<1>11. BootInv' /\ EditInv' /\ ActionInv' /\ HandlerInv'
  <2>1. BootInv'
    BY <1>2, <1>3, <1>7, BootStays
  <2>2. EditInv'
    BY <1>2, <1>7, <1>8, EditStays
  <2>3. ActionInv'
    BY <1>2, <1>3, <1>7, ActionStays DEF ActionInv
  <2>4. HandlerInv'
    BY <1>2, <1>3, <1>7, HandlerStays DEF HandlerInv
  <2> QED
    BY <2>1, <2>2, <2>3, <2>4
<1>12. OwnInv'
  <2>1. \A t \in Handlers : Busy(t) => handler[t].id \in DOMAIN tasks
    BY <1>2 DEF HandlerInv, Stands
  <2>2. \A i : Taken(i)' = Taken(i)
    BY <1>3 DEF Taken, Busy
  <2>3. ~Taken(n)
    BY <1>1, <1>3, <1>6, <2>1 DEF Taken
  <2>4. \A t \in Handlers : handler[t].pc = "register" => ~Same(handler[t].copy, tasks'[n])
    BY <1>2, <1>4, <1>6 DEF HandlerInv, Stands, Same
  <2>5. \A t \in Handlers, j \in DOMAIN tasks' :
          handler'[t].pc = "register" /\ Same(handler'[t].copy, tasks'[j]) => ~Taken(j)'
    <3>1. SUFFICES ASSUME NEW t \in Handlers, NEW j \in DOMAIN tasks',
                          handler[t].pc = "register", Same(handler[t].copy, tasks'[j])
                   PROVE  ~Taken(j)
      BY <1>3, <2>2
    <3>2. j # n
      BY <2>4, <3>1
    <3>3. j \in DOMAIN tasks /\ tasks'[j] = tasks[j]
      BY <1>6, <3>2
    <3> QED
      BY <1>2, <3>1, <3>3 DEF OwnInv
  <2>6. \E m \in DOMAIN tasks' : /\ edit'.todo = {m} /\ ~Taken(m)'
                                 /\ tasks'[m].chain = chainSeq' /\ tasks'[m].attempt = 1
    BY <1>3, <1>4, <1>6, <1>8, <2>2, <2>3
  <2>7. /\ (armed \cap boot.todo = {})'
        /\ \A t \in Handlers : Busy(t)' => handler'[t].id \notin armed' \cup boot'.todo
        /\ \A t, u \in Handlers :
             Busy(t)' /\ Busy(u)' /\ handler'[t].id = handler'[u].id => t = u
        /\ \A t, u \in Handlers :
             handler'[t].pc = "register" /\ handler'[u].pc = "register"
               /\ Same(handler'[t].copy, handler'[u].copy) => t = u
    BY <1>2, <1>3 DEF OwnInv, Busy
  <2> QED
    BY <2>5, <2>6, <2>7 DEF OwnInv
<1>13. PhaseInv'
  BY <1>3 DEF PhaseInv
<1>14. AnnouncedInv'
  BY <1>2, <1>3, <1>7, AnnouncedStay DEF Busy
<1> QED
  BY <1>9, <1>10, <1>11, <1>12, <1>13, <1>14 DEF IInv

\* Start adds the first row of all.
LEMMA BootInsertStep ==
    ASSUME IInv, BootInsert
    PROVE  IInv'
<1>1. /\ now \in Nat /\ sched \in Schedule /\ tasks \in Seq(Task) /\ chainSeq \in Nat
      /\ armed \subseteq DOMAIN tasks /\ announced \in Seq(Nat) /\ boot \in Booting
      /\ handler \in [Handlers -> Handling]
      /\ edit \in Editing /\ action \in Acting
  BY DEF IInv, Typed, BaseOK
<1>2. RowInv /\ BootInv /\ EditInv /\ ActionInv /\ HandlerInv /\ OwnInv /\ PhaseInv
      /\ AnnouncedInv
  BY DEF IInv
<1> DEFINE r == NewTask(chainSeq + 1, 1, sched.start)
<1>3. /\ UNCHANGED <<sched, armed, now, handler, announced, edit, action>>
      /\ chainSeq' = chainSeq + 1 /\ tasks' = Append(tasks, r)
      /\ boot' = [boot EXCEPT !.pc = "register"] /\ boot.pc = "insert"
  BY DEF BootInsert, timing, ghosts
<1>4. /\ r \in Task /\ r.chain = chainSeq + 1 /\ r.attempt = 1 /\ r.business = "scheduled"
  BY <1>1, ReminderAssumption DEF Schedule, NewTask, Task, Business, Timer
<1> HIDE DEF r
<1>5. /\ tasks = <<>> /\ DOMAIN tasks = {} /\ armed = {} /\ boot.todo = {}
      /\ edit.pc = "idle" /\ action.pc = "idle"
  BY <1>1, <1>2, <1>3 DEF PhaseInv
<1>6. \A t \in Handlers : ~Busy(t) /\ ~Busy(t)' /\ handler[t].pc = "idle"
  BY <1>2, <1>3, <1>5 DEF HandlerInv, Stands, Busy
<1>7. Kept
  BY <1>1, <1>3, <1>4, KeptByAdding
<1>8. boot' \in Booting /\ boot'.pc = "register" /\ boot'.todo = boot.todo /\ boot'.snap = boot.snap
  BY <1>1, <1>3 DEF Booting
<1>9. Len(tasks') = 1
  BY <1>3, <1>5
<1>10. Typed'
  <2>1. BaseOK'
    BY <1>1, <1>3, <1>5, <1>7 DEF BaseOK, Kept
  <2> QED
    BY <1>1, <1>3, <1>8, <2>1 DEF Typed
<1>11. RowInv'
  <2>1. ~HasAttempt(r.chain, r.attempt)
    BY <1>5 DEF HasAttempt
  <2> QED
    BY <1>1, <1>2, <1>3, <1>4, <2>1, RowsGrow
<1>12. BootInv' /\ EditInv' /\ ActionInv' /\ HandlerInv'
  <2>1. BootInv'
    BY <1>2, <1>7, <1>8, BootStays
  <2>2. EditInv'
    BY <1>2, <1>3, <1>7, EditStays DEF EditInv
  <2>3. ActionInv'
    BY <1>2, <1>3, <1>7, ActionStays DEF ActionInv
  <2>4. HandlerInv'
    BY <1>2, <1>3, <1>7, HandlerStays DEF HandlerInv
  <2> QED
    BY <2>1, <2>2, <2>3, <2>4
<1>13. OwnInv'
  BY <1>3, <1>5, <1>6, <1>8 DEF OwnInv
<1>14. PhaseInv'
  BY <1>3, <1>5, <1>6, <1>8, <1>9 DEF PhaseInv
<1>15. AnnouncedInv'
  BY <1>2, <1>3, <1>6, <1>7, AnnouncedStay
<1> QED
  BY <1>10, <1>11, <1>12, <1>13, <1>14, <1>15 DEF IInv

\* A step of a handler or of Start: the MCP worker and the action do not move.
LEMMA InsideStep ==
    ASSUME IInv, Kept, UNCHANGED <<now, sched, edit, action>>, chainSeq' \in Nat,
           armed' \subseteq DOMAIN tasks', announced' \in Seq(Nat), boot' \in Booting,
           handler' \in [Handlers -> Handling],
           RowInv', BootInv', HandlerInv', OwnInv', PhaseInv', AnnouncedInv'
    PROVE  IInv'
<1>1. Typed /\ EditInv /\ ActionInv
  BY DEF IInv
<1>2. BaseOK'
  BY <1>1 DEF Typed, BaseOK, Kept
<1>3. Typed'
  BY <1>1, <1>2 DEF Typed
<1>4. EditInv'
  BY <1>1, EditStays DEF EditInv
<1>5. ActionInv'
  BY <1>1, ActionStays DEF ActionInv
<1> QED
  BY <1>3, <1>4, <1>5 DEF IInv

\* A handler goes on with the row it has taken, or gives it up.
LEMMA HandlerMoves ==
    ASSUME IInv, NEW t \in Handlers, NEW x \in Handling, Kept, DOMAIN tasks' = DOMAIN tasks,
           UNCHANGED <<now, sched, edit, action, armed, boot, chainSeq>>,
           handler' = [handler EXCEPT ![t] = x],
           x.pc # "idle" => Busy(t) /\ x.id = handler[t].id,
           x.pc # "register", Stands(t)', announced' \in Seq(Nat), AnnouncedInv'
    PROVE  IInv'
<1>1. /\ handler \in [Handlers -> Handling] /\ tasks \in Seq(Task) /\ chainSeq \in Nat
      /\ boot \in Booting /\ armed \subseteq DOMAIN tasks
      /\ RowInv /\ BootInv /\ HandlerInv /\ OwnInv /\ PhaseInv
  BY DEF IInv, Typed, BaseOK
<1>2. /\ handler' \in [Handlers -> Handling] /\ handler'[t] = x
      /\ \A u \in Handlers : u # t => handler'[u] = handler[u]
  BY <1>1
<1>3. \A u \in Handlers : handler'[u].pc # "idle" =>
         /\ Busy(u) /\ handler'[u].id = handler[u].id
         /\ handler'[u].pc = "register" => /\ handler[u].pc = "register"
                                           /\ handler'[u].copy = handler[u].copy
  BY <1>2 DEF Busy
<1>4. Calm
  BY <1>3 DEF Calm
<1>5. RowInv'
  BY <1>1, RowsStay
<1>6. OwnInv'
  BY <1>1, <1>4, OwnersStay
<1>7. BootInv'
  BY <1>1, BootStays
<1>8. HandlerInv'
  <2>1. ASSUME NEW u \in Handlers, u # t PROVE Stands(u)'
    BY <1>1, <1>2, <2>1, HandlerStays DEF HandlerInv
  <2> QED
    BY <2>1 DEF HandlerInv
<1>9. PhaseInv'
  <2>1. Len(tasks') = Len(tasks) /\ (tasks = <<>> => tasks' = <<>>)
    BY <1>1 DEF Kept
  <2>2. \A u \in Handlers : Busy(u)' => Busy(u)
    BY <1>3 DEF Busy
  <2> QED
    BY <1>1, <2>1, <2>2 DEF PhaseInv
<1> QED
  BY <1>1, <1>2, <1>5, <1>6, <1>7, <1>8, <1>9, InsideStep

\* The handler reads the schedule.
LEMMA HandleLoadStep ==
    ASSUME IInv, NEW t \in Handlers, HandleLoadSchedule(t)
    PROVE  IInv'
<1>1. /\ handler \in [Handlers -> Handling] /\ tasks \in Seq(Task) /\ announced \in Seq(Nat)
      /\ HandlerInv /\ AnnouncedInv
  BY DEF IInv, Typed, BaseOK
<1> DEFINE h == handler[t]
           x == IF sched.status = "active" THEN [h EXCEPT !.pc = "update"] ELSE Idle
<1>2. /\ UNCHANGED <<now, sched, edit, action, armed, boot, chainSeq, tasks, announced>>
      /\ handler' = [handler EXCEPT ![t] = x] /\ h.pc = "schedule"
  BY <1>1 DEF HandleLoadSchedule, storage, timing, ghosts
<1>3. Kept /\ DOMAIN tasks' = DOMAIN tasks
  BY <1>1, <1>2, KeptByStuttering
<1>4. h \in Handling /\ Stands(t) /\ Busy(t)
  BY <1>1, <1>2 DEF HandlerInv, Busy
<1>5. /\ x \in Handling /\ x.pc \in {"update", "idle"}
      /\ x.pc # "idle" => x.id = h.id /\ x.copy = h.copy
  <2>1. CASE sched.status = "active"
    BY <1>4, <2>1 DEF Handling
  <2>2. CASE sched.status # "active"
    BY <2>2, Defaults
  <2> QED
    BY <2>1, <2>2
<1> HIDE DEF x
<1>6. /\ handler'[t] = x /\ \A u \in Handlers : u # t => handler'[u] = handler[u]
  BY <1>1, <1>2
<1>7. Stands(t)'
  BY <1>2, <1>4, <1>5, <1>6 DEF Stands, Busy
<1>8. \A u \in Handlers : Busy(u)' => Busy(u) /\ handler'[u].id = handler[u].id
  BY <1>4, <1>5, <1>6 DEF Busy
<1>9. AnnouncedInv'
  BY <1>1, <1>2, <1>3, <1>8, AnnouncedStay
<1> QED
  BY <1>1, <1>2, <1>3, <1>4, <1>5, <1>7, <1>9, HandlerMoves

\* The handler writes its copy of the row, Triggered: the row is not pending from now on.
LEMMA HandleUpdateStep ==
    ASSUME IInv, NEW t \in Handlers, HandleUpdate(t)
    PROVE  IInv'
<1>1. /\ handler \in [Handlers -> Handling] /\ tasks \in Seq(Task) /\ announced \in Seq(Nat)
      /\ HandlerInv /\ AnnouncedInv
  BY DEF IInv, Typed, BaseOK
<1> DEFINE h == handler[t]
           x == [h EXCEPT !.pc = IF h.copy.attempt < MaximumAttempts
                                 THEN "insert" ELSE "announce"]
           r == Triggered(h.copy)
<1>2. /\ UNCHANGED <<now, sched, edit, action, armed, boot, chainSeq, announced>>
      /\ handler' = [handler EXCEPT ![t] = x] /\ h.pc = "update"
      /\ tasks' = [tasks EXCEPT ![h.id] = r]
  BY <1>1 DEF HandleUpdate, timing, ghosts
<1>3. h \in Handling /\ Stands(t) /\ Busy(t)
  BY <1>1, <1>2 DEF HandlerInv, Busy
<1>4. h.id \in DOMAIN tasks /\ Same(h.copy, tasks[h.id]) /\ h.copy \in Task
  BY <1>2, <1>3 DEF Stands, Handling
<1>5. r \in Task /\ r.chain = h.copy.chain /\ r.attempt = h.copy.attempt /\ r.timer = "triggered"
  BY <1>4 DEF Triggered, Task, Business, Timer
<1>6. Same(r, tasks[h.id]) /\ ~Pending(r)
  BY <1>4, <1>5 DEF Same, Pending
<1> HIDE DEF r
<1>7. /\ Kept /\ DOMAIN tasks' = DOMAIN tasks
      /\ tasks'[h.id] = r
  BY <1>1, <1>2, <1>4, <1>5, <1>6, KeptByWriting, RowWritten
<1>8. /\ x \in Handling /\ x.pc \in {"insert", "announce"} /\ x.id = h.id /\ x.copy = h.copy
      /\ x.pc = "insert" => h.copy.attempt < MaximumAttempts
  BY <1>3 DEF Handling
<1> HIDE DEF x
<1>9. /\ handler'[t] = x /\ \A u \in Handlers : u # t => handler'[u] = handler[u]
  BY <1>1, <1>2
<1>10. Stands(t)'
  <2>1. Same(x.copy, tasks'[x.id]) /\ ~Pending(tasks'[x.id]) /\ x.id \in DOMAIN tasks'
    BY <1>4, <1>5, <1>6, <1>7, <1>8 DEF Same
  <2> QED
    BY <1>8, <1>9, <2>1 DEF Stands
<1>11. \A u \in Handlers : Busy(u)' => Busy(u) /\ handler'[u].id = handler[u].id
  BY <1>3, <1>8, <1>9 DEF Busy
<1>12. AnnouncedInv'
  BY <1>1, <1>2, <1>7, <1>11, AnnouncedStay
<1> QED
  BY <1>1, <1>2, <1>3, <1>7, <1>8, <1>10, <1>12, HandlerMoves

\* The handler speaks, and is done.
LEMMA HandleAnnounceStep ==
    ASSUME IInv, NEW t \in Handlers, HandleAnnounce(t)
    PROVE  IInv'
<1>1. /\ handler \in [Handlers -> Handling] /\ tasks \in Seq(Task) /\ announced \in Seq(Nat)
      /\ HandlerInv /\ AnnouncedInv /\ OwnInv
  BY DEF IInv, Typed, BaseOK
<1> DEFINE h == handler[t]
           n == Len(announced) + 1
<1>2. /\ UNCHANGED <<now, sched, edit, action, armed, boot, chainSeq, tasks>>
      /\ handler' = [handler EXCEPT ![t] = Idle] /\ h.pc = "announce"
      /\ announced' = Append(announced, h.id)
  BY <1>1 DEF HandleAnnounce, storage, timing
<1>3. Kept /\ DOMAIN tasks' = DOMAIN tasks
  BY <1>1, <1>2, KeptByStuttering
<1>4. /\ h \in Handling /\ Busy(t) /\ h.id \in DOMAIN tasks /\ ~Pending(tasks[h.id])
  BY <1>1, <1>2 DEF HandlerInv, Busy, Stands
<1>5. /\ handler'[t] = Idle /\ \A u \in Handlers : u # t => handler'[u] = handler[u]
  BY <1>1, <1>2
<1>6. Stands(t)'
  BY <1>5, Defaults DEF Stands, Busy
<1>7. /\ announced' \in Seq(Nat) /\ DOMAIN announced' = DOMAIN announced \cup {n}
      /\ n \notin DOMAIN announced /\ announced'[n] = h.id
      /\ \A p \in DOMAIN announced : announced'[p] = announced[p]
  BY <1>1, <1>2, <1>4 DEF Handling
<1> HIDE DEF n
<1>8. AnnouncedInv'
  <2>1. \A p \in DOMAIN announced' : /\ announced'[p] \in DOMAIN tasks'
                                     /\ ~Pending(tasks'[announced'[p]])
    BY <1>1, <1>2, <1>4, <1>7 DEF AnnouncedInv
  <2>2. \A p \in DOMAIN announced : announced[p] # h.id
    BY <1>1, <1>4 DEF AnnouncedInv
  <2>3. ASSUME NEW u \in Handlers, Busy(u)' PROVE u # t /\ Busy(u) /\ handler'[u] = handler[u]
    BY <1>5, <2>3, Defaults DEF Busy
  <2>4. \A u \in Handlers, p \in DOMAIN announced' : Busy(u)' => announced'[p] # handler'[u].id
    <3>1. SUFFICES ASSUME NEW u \in Handlers, NEW p \in DOMAIN announced', Busy(u)'
                   PROVE  announced'[p] # handler[u].id
      BY <2>3
    <3>2. CASE p = n
      BY <1>1, <1>4, <1>7, <2>3, <3>1, <3>2 DEF OwnInv
    <3>3. CASE p # n
      BY <1>1, <1>7, <2>3, <3>1, <3>3 DEF AnnouncedInv
    <3> QED
      BY <3>2, <3>3
  <2>5. \A p, q \in DOMAIN announced' : announced'[p] = announced'[q] => p = q
    BY <1>1, <1>7, <2>2 DEF AnnouncedInv
  <2> QED
    BY <2>1, <2>4, <2>5 DEF AnnouncedInv
<1> QED
  BY <1>2, <1>3, <1>6, <1>7, <1>8, Defaults, HandlerMoves

\* The handler adds the follow-up, unless the chain has one for that attempt.
LEMMA HandleInsertStep ==
    ASSUME IInv, NEW t \in Handlers, HandleInsert(t)
    PROVE  IInv'
<1>1. /\ handler \in [Handlers -> Handling] /\ tasks \in Seq(Task) /\ announced \in Seq(Nat)
      /\ now \in Nat /\ chainSeq \in Nat /\ armed \subseteq DOMAIN tasks /\ boot \in Booting
  BY DEF IInv, Typed, BaseOK
<1>2. /\ HandlerInv /\ AnnouncedInv /\ OwnInv /\ RowInv /\ BootInv /\ PhaseInv
  BY DEF IInv
<1> DEFINE h == handler[t]
           r == NewTask(h.copy.chain, h.copy.attempt + 1, now + FollowUpDelay)
           n == Len(tasks) + 1
<1>3. /\ UNCHANGED <<now, sched, edit, action, armed, boot, chainSeq, announced>>
      /\ h.pc = "insert"
  BY <1>1 DEF HandleInsert, timing, ghosts
<1>4. h \in Handling /\ Stands(t) /\ Busy(t)
  BY <1>1, <1>2, <1>3 DEF HandlerInv, Busy
<1>5. /\ h.id \in DOMAIN tasks /\ Same(h.copy, tasks[h.id]) /\ ~Pending(tasks[h.id])
      /\ h.copy \in Task /\ h.copy.attempt < MaximumAttempts
  BY <1>3, <1>4 DEF Stands, Handling
<1>6. /\ r \in Task /\ r.chain = h.copy.chain /\ r.attempt = h.copy.attempt + 1
      /\ r.attempt > 1 /\ r.business = "scheduled"
  <2>1. /\ h.copy.chain \in Nat /\ h.copy.attempt \in 1 .. MaximumAttempts
        /\ MaximumAttempts \in Nat
    BY <1>5, ReminderAssumption DEF Task
  <2>2. h.copy.attempt + 1 \in 1 .. MaximumAttempts /\ h.copy.attempt + 1 > 1
    BY <1>5, <2>1
  <2>3. now + FollowUpDelay \in Nat
    BY <1>1, ReminderAssumption
  <2> QED
    BY <2>1, <2>2, <2>3 DEF NewTask, Task, Business, Timer
<1>7. ASSUME tasks' = tasks, handler' = [handler EXCEPT ![t].pc = "announce"]
      PROVE  IInv'
  <2> DEFINE x == [h EXCEPT !.pc = "announce"]
  <2>1. handler' = [handler EXCEPT ![t] = x]
    BY <1>7
  <2>2. x \in Handling /\ x.pc = "announce" /\ x.id = h.id
    BY <1>4 DEF Handling
  <2> HIDE DEF x
  <2>3. /\ handler'[t] = x /\ \A u \in Handlers : u # t => handler'[u] = handler[u]
    BY <1>1, <2>1
  <2>4. Kept /\ DOMAIN tasks' = DOMAIN tasks
    BY <1>1, <1>7, KeptByStuttering
  <2>5. Stands(t)'
    BY <1>5, <1>7, <2>2, <2>3 DEF Stands, Busy
  <2>6. \A u \in Handlers : Busy(u)' => Busy(u) /\ handler'[u].id = handler[u].id
    BY <1>4, <2>2, <2>3 DEF Busy
  <2>7. AnnouncedInv'
    BY <1>2, <1>3, <2>4, <2>6, AnnouncedStay
  <2> QED
    BY <1>1, <1>3, <1>4, <2>1, <2>2, <2>4, <2>5, <2>7, HandlerMoves
<1>8. ASSUME ~HasAttempt(r.chain, r.attempt), tasks' = Append(tasks, r),
             handler' = [handler EXCEPT ![t].pc = "register", ![t].copy = r]
      PROVE  IInv'
  <2> HIDE DEF r
  <2> DEFINE x == [h EXCEPT !.pc = "register", !.copy = r]
  <2>1. handler' = [handler EXCEPT ![t] = x]
    BY <1>8
  <2>2. x \in Handling /\ x.pc = "register" /\ x.id = h.id /\ x.copy = r
    BY <1>4, <1>6 DEF Handling
  <2> HIDE DEF x
  <2>3. /\ handler' \in [Handlers -> Handling] /\ handler'[t] = x
        /\ \A u \in Handlers : u # t => handler'[u] = handler[u]
    BY <1>1, <2>1, <2>2
  <2>4. Kept
    BY <1>1, <1>6, <1>8, KeptByAdding
  <2>5. /\ DOMAIN tasks' = DOMAIN tasks \cup {n} /\ n \notin DOMAIN tasks
        /\ tasks'[n] = r /\ \A j \in DOMAIN tasks : tasks'[j] = tasks[j]
    BY <1>1, <1>6, <1>8, RowAdded
  <2> HIDE DEF n
  <2>6. RowInv'
    <3>1. r.chain <= chainSeq /\ tasks # <<>>
      BY <1>2, <1>5, <1>6 DEF Same, RowInv
    <3> QED
      BY <1>1, <1>2, <1>3, <1>6, <1>8, <3>1, RowsGrow
  <2>7. BootInv'
    BY <1>2, <1>3, <2>4, BootStays
  <2>8. HandlerInv'
    <3>1. ASSUME NEW u \in Handlers, u # t PROVE Stands(u)'
      BY <1>2, <2>3, <2>4, <3>1, HandlerStays DEF HandlerInv
    <3>2. Stands(t)'
      <4>1. \E j \in DOMAIN tasks' : Same(x.copy, tasks'[j])
        BY <2>2, <2>5 DEF Same
      <4>2. x.id \in DOMAIN tasks' /\ ~Pending(tasks'[x.id]) /\ x.copy.attempt > 1
        BY <1>5, <1>6, <2>2, <2>5
      <4> QED
        BY <2>2, <2>3, <4>1, <4>2 DEF Stands
    <3> QED
      BY <3>1, <3>2 DEF HandlerInv
  <2>9. \A u \in Handlers : Busy(u)' = Busy(u) /\ handler'[u].id = handler[u].id
    BY <1>4, <2>2, <2>3 DEF Busy
  <2>10. OwnInv'
    <3>1. \A i : Taken(i)' = Taken(i)
      BY <1>3, <2>9 DEF Taken
    <3>2. ~Taken(n)
      <4>1. \A u \in Handlers : Busy(u) => handler[u].id \in DOMAIN tasks
        BY <1>2 DEF HandlerInv, Stands
      <4>2. boot.todo \subseteq DOMAIN tasks
        BY <1>2 DEF BootInv, Copies
      <4> QED
        BY <1>1, <2>5, <4>1, <4>2 DEF Taken
    <3>3. \A i \in DOMAIN tasks : ~Same(r, tasks[i])
      BY <1>8 DEF HasAttempt, Same
    <3>4. ASSUME NEW u \in Handlers, handler[u].pc = "register"
          PROVE  ~Same(handler[u].copy, r) /\ ~Same(r, handler[u].copy) /\ u # t
      <4>1. PICK k \in DOMAIN tasks : Same(handler[u].copy, tasks[k])
        BY <1>2, <3>4 DEF HandlerInv, Stands
      <4>2. ~Same(r, tasks[k])
        BY <3>3
      <4> QED
        BY <1>3, <3>4, <4>1, <4>2 DEF Same
    <3>5. \A u \in Handlers, j \in DOMAIN tasks' :
            handler'[u].pc = "register" /\ Same(handler'[u].copy, tasks'[j]) => ~Taken(j)'
      <4>1. SUFFICES ASSUME NEW u \in Handlers, NEW j \in DOMAIN tasks',
                            handler'[u].pc = "register", Same(handler'[u].copy, tasks'[j])
                     PROVE  ~Taken(j)
        BY <3>1
      <4>2. CASE j = n
        BY <3>2, <4>2
      <4>3. CASE j # n /\ u = t
        BY <2>2, <2>3, <2>5, <3>3, <4>1, <4>3
      <4>4. CASE j # n /\ u # t
        <5>1. handler'[u] = handler[u] /\ j \in DOMAIN tasks /\ tasks'[j] = tasks[j]
          BY <2>3, <2>5, <4>4
        <5> QED
          BY <1>2, <4>1, <5>1 DEF OwnInv
      <4> QED
        BY <4>2, <4>3, <4>4
    <3>6. \A u, v \in Handlers :
            handler'[u].pc = "register" /\ handler'[v].pc = "register"
              /\ Same(handler'[u].copy, handler'[v].copy) => u = v
      <4>1. SUFFICES ASSUME NEW u \in Handlers, NEW v \in Handlers,
                            handler'[u].pc = "register", handler'[v].pc = "register",
                            Same(handler'[u].copy, handler'[v].copy), u # v
                     PROVE  FALSE
        OBVIOUS
      <4>2. CASE u = t
        BY <2>2, <2>3, <3>4, <4>1, <4>2
      <4>3. CASE v = t
        BY <2>2, <2>3, <3>4, <4>1, <4>3
      <4>4. CASE u # t /\ v # t
        BY <1>2, <2>3, <4>1, <4>4 DEF OwnInv
      <4> QED
        BY <4>2, <4>3, <4>4
    <3>7. edit'.pc = "register" =>
            \E m \in DOMAIN tasks' : /\ edit'.todo = {m} /\ ~Taken(m)'
                                     /\ tasks'[m].chain = chainSeq' /\ tasks'[m].attempt = 1
      BY <1>2, <1>3, <2>5, <3>1 DEF OwnInv
    <3>8. /\ (armed \cap boot.todo = {})'
          /\ \A u \in Handlers : Busy(u)' => handler'[u].id \notin armed' \cup boot'.todo
          /\ \A u, v \in Handlers :
               Busy(u)' /\ Busy(v)' /\ handler'[u].id = handler'[v].id => u = v
      BY <1>2, <1>3, <2>9 DEF OwnInv
    <3> QED
      BY <3>5, <3>6, <3>7, <3>8 DEF OwnInv
  <2>11. PhaseInv'
    <3>1. tasks # <<>>
      BY <1>5
    <3>2. boot.pc \notin {"down", "register"}
      BY <1>2, <1>4 DEF PhaseInv
    <3> QED
      BY <1>2, <1>3, <3>1, <3>2 DEF PhaseInv
  <2>12. AnnouncedInv'
    BY <1>2, <1>3, <2>4, <2>9, AnnouncedStay
  <2>13. armed' \subseteq DOMAIN tasks'
    BY <1>1, <1>3, <2>5
  <2> QED
    BY <1>1, <1>3, <2>3, <2>4, <2>6, <2>7, <2>8, <2>10, <2>11, <2>12, <2>13, InsideStep
<1> QED
  BY <1>7, <1>8 DEF HandleInsert

\* A row that waits for nobody else is given to the timing service.
LEMMA RowArmed ==
    ASSUME OwnInv, NEW j \in DOMAIN tasks, tasks' = tasks, chainSeq' = chainSeq,
           armed' = armed \cup {j}, boot'.todo \subseteq boot.todo, j \notin boot'.todo,
           \A u \in Handlers : /\ Busy(u)' = Busy(u) /\ handler'[u].id = handler[u].id
                               /\ Busy(u) => handler[u].id # j,
           \A u \in Handlers : handler'[u].pc = "register" =>
              /\ handler[u].pc = "register" /\ handler'[u].copy = handler[u].copy
              /\ ~Same(handler[u].copy, tasks[j]),
           edit'.pc = "register" => /\ edit.pc = "register" /\ edit'.todo = edit.todo
                                    /\ j \notin edit.todo
    PROVE  OwnInv'
<1>1. \A i : Taken(i)' => Taken(i) \/ i = j
  BY DEF Taken
<1>2. (armed \cap boot.todo = {})'
  BY DEF OwnInv
<1>3. \A u \in Handlers : Busy(u)' => handler'[u].id \notin armed' \cup boot'.todo
  BY DEF OwnInv
<1>4. \A u, v \in Handlers : Busy(u)' /\ Busy(v)' /\ handler'[u].id = handler'[v].id => u = v
  BY DEF OwnInv
<1>5. \A u \in Handlers, i \in DOMAIN tasks' :
        handler'[u].pc = "register" /\ Same(handler'[u].copy, tasks'[i]) => ~Taken(i)'
  BY <1>1 DEF OwnInv
<1>6. \A u, v \in Handlers :
        handler'[u].pc = "register" /\ handler'[v].pc = "register"
          /\ Same(handler'[u].copy, handler'[v].copy) => u = v
  BY DEF OwnInv
<1>7. edit'.pc = "register" =>
        \E m \in DOMAIN tasks' : /\ edit'.todo = {m} /\ ~Taken(m)'
                                 /\ tasks'[m].chain = chainSeq' /\ tasks'[m].attempt = 1
  BY <1>1 DEF OwnInv
<1> QED
  BY <1>2, <1>3, <1>4, <1>5, <1>6, <1>7 DEF OwnInv

\* The handler registers the follow-up with the timing service, or marks it failed.
LEMMA HandleRegisterStep ==
    ASSUME IInv, NEW t \in Handlers, HandleRegister(t)
    PROVE  IInv'
<1>1. /\ handler \in [Handlers -> Handling] /\ tasks \in Seq(Task) /\ announced \in Seq(Nat)
      /\ now \in Nat /\ chainSeq \in Nat /\ armed \subseteq DOMAIN tasks /\ boot \in Booting
  BY DEF IInv, Typed, BaseOK
<1>2. /\ HandlerInv /\ AnnouncedInv /\ OwnInv /\ RowInv /\ BootInv /\ PhaseInv
  BY DEF IInv
<1> DEFINE h == handler[t]
           j == RowOf(h.copy)
           x == [h EXCEPT !.pc = "announce"]
<1>3. /\ UNCHANGED <<now, sched, edit, action, boot, chainSeq, announced>>
      /\ h.pc = "register" /\ handler' = [handler EXCEPT ![t] = x]
  BY <1>1 DEF HandleRegister, ghosts
<1>4. h \in Handling /\ Stands(t) /\ Busy(t)
  BY <1>1, <1>2, <1>3 DEF HandlerInv, Busy
<1>5. /\ h.id \in DOMAIN tasks /\ ~Pending(tasks[h.id]) /\ h.copy \in Task /\ h.copy.attempt > 1
      /\ \E k \in DOMAIN tasks : Same(h.copy, tasks[k])
  BY <1>3, <1>4 DEF Stands, Handling
<1>6. j \in DOMAIN tasks /\ Same(tasks[j], h.copy) /\ Same(h.copy, tasks[j])
  <2>1. \E k \in DOMAIN tasks : tasks[k].chain = h.copy.chain /\ tasks[k].attempt = h.copy.attempt
    BY <1>5 DEF Same
  <2>2. /\ j \in DOMAIN tasks
        /\ tasks[j].chain = h.copy.chain /\ tasks[j].attempt = h.copy.attempt
    BY <2>1 DEF RowOf
  <2> QED
    BY <2>2 DEF Same
<1>7. \/ armed' = armed \cup {j} /\ tasks' = tasks
      \/ tasks' = [tasks EXCEPT ![j] = [h.copy EXCEPT !.timer = "failed"]] /\ armed' = armed
  BY DEF HandleRegister
<1> HIDE DEF j
<1>8. ~Taken(j)
  BY <1>2, <1>3, <1>6 DEF OwnInv
<1>9. x \in Handling /\ x.pc = "announce" /\ x.id = h.id
  BY <1>4 DEF Handling
<1> HIDE DEF x
<1>10. /\ handler' \in [Handlers -> Handling] /\ handler'[t] = x
       /\ \A u \in Handlers : u # t => handler'[u] = handler[u]
  BY <1>1, <1>3, <1>9
<1>11. \A u \in Handlers : Busy(u)' = Busy(u) /\ handler'[u].id = handler[u].id
  BY <1>4, <1>9, <1>10 DEF Busy
<1>12. ASSUME Kept, DOMAIN tasks' = DOMAIN tasks PROVE Stands(t)' /\ AnnouncedInv'
  <2>1. x.id \in DOMAIN tasks' /\ ~Pending(tasks'[x.id])
    BY <1>5, <1>9, <1>12 DEF Kept
  <2>2. Stands(t)'
    BY <1>9, <1>10, <2>1 DEF Stands
  <2>3. AnnouncedInv'
    BY <1>2, <1>3, <1>11, <1>12, AnnouncedStay
  <2> QED
    BY <2>2, <2>3
<1>13. CASE armed' = armed \cup {j} /\ tasks' = tasks
  <2>1. Kept /\ DOMAIN tasks' = DOMAIN tasks
    BY <1>1, <1>13, KeptByStuttering
  <2>2. \A u \in Handlers : Busy(u) => handler[u].id # j
    BY <1>8 DEF Taken
  <2>3. j \notin boot'.todo
    BY <1>3, <1>8 DEF Taken
  <2>4. ASSUME NEW u \in Handlers, handler'[u].pc = "register"
        PROVE  /\ handler[u].pc = "register" /\ handler'[u].copy = handler[u].copy
               /\ ~Same(handler[u].copy, tasks[j])
    <3>1. u # t /\ handler'[u] = handler[u]
      BY <1>9, <1>10, <2>4
    <3>2. ~Same(handler[u].copy, h.copy)
      BY <1>2, <1>3, <2>4, <3>1 DEF OwnInv
    <3> QED
      BY <1>6, <2>4, <3>1, <3>2 DEF Same
  <2>5. edit'.pc = "register" => /\ edit.pc = "register" /\ edit'.todo = edit.todo
                                 /\ j \notin edit.todo
    <3>1. ASSUME edit.pc = "register" PROVE j \notin edit.todo
      <4>1. PICK m \in DOMAIN tasks : edit.todo = {m} /\ tasks[m].attempt = 1
        BY <1>2, <3>1 DEF OwnInv
      <4>2. tasks[j].attempt > 1
        BY <1>5, <1>6 DEF Same
      <4> QED
        BY <4>1, <4>2
    <3> QED
      BY <1>3, <3>1
  <2>6. OwnInv'
    BY <1>2, <1>3, <1>6, <1>11, <1>13, <2>2, <2>3, <2>4, <2>5, RowArmed
  <2>7. RowInv'
    BY <1>1, <1>2, <1>3, <2>1, RowsStay
  <2>8. BootInv'
    BY <1>2, <1>3, <2>1, BootStays
  <2>9. HandlerInv'
    <3>1. ASSUME NEW u \in Handlers, u # t PROVE Stands(u)'
      BY <1>2, <1>10, <2>1, <3>1, HandlerStays DEF HandlerInv
    <3> QED
      BY <1>12, <2>1, <3>1 DEF HandlerInv
  <2>10. PhaseInv'
    <3>1. boot.pc \notin {"down", "register"}
      BY <1>2, <1>4 DEF PhaseInv
    <3> QED
      BY <1>2, <1>3, <1>13, <3>1 DEF PhaseInv
  <2>11. armed' \subseteq DOMAIN tasks'
    BY <1>1, <1>6, <1>13
  <2> QED
    BY <1>1, <1>3, <1>10, <1>12, <2>1, <2>6, <2>7, <2>8, <2>9, <2>10, <2>11, InsideStep
<1> DEFINE r == [h.copy EXCEPT !.timer = "failed"]
<1>14. CASE tasks' = [tasks EXCEPT ![j] = r] /\ armed' = armed
  <2>1. r \in Task /\ r.chain = h.copy.chain /\ r.attempt = h.copy.attempt /\ r.timer = "failed"
    BY <1>5 DEF Task, Timer
  <2>2. Same(r, tasks[j]) /\ ~Pending(r)
    BY <1>6, <2>1 DEF Same, Pending
  <2> HIDE DEF r
  <2>3. Kept /\ DOMAIN tasks' = DOMAIN tasks
    BY <1>1, <1>6, <1>14, <2>1, <2>2, KeptByWriting
  <2> QED
    BY <1>1, <1>3, <1>4, <1>9, <1>12, <1>14, <2>3, HandlerMoves
<1> QED
  BY <1>7, <1>13, <1>14

\* SynchronizeSchedule registers the row it added, or marks it failed.
LEMMA SyncRegisterStep ==
    ASSUME IInv, SyncRegister
    PROVE  IInv'
<1>1. /\ handler \in [Handlers -> Handling] /\ tasks \in Seq(Task) /\ announced \in Seq(Nat)
      /\ now \in Nat /\ chainSeq \in Nat /\ armed \subseteq DOMAIN tasks /\ boot \in Booting
      /\ sched \in Schedule /\ edit \in Editing /\ action \in Acting
  BY DEF IInv, Typed, BaseOK
<1>2. /\ HandlerInv /\ AnnouncedInv /\ OwnInv /\ RowInv /\ BootInv /\ PhaseInv /\ EditInv
      /\ ActionInv
  BY DEF IInv
<1>3. /\ UNCHANGED <<now, sched, action, boot, chainSeq, announced, handler>>
      /\ edit.pc = "register" /\ edit' = NoEdit
  BY DEF SyncRegister, ghosts
<1>4. boot.pc = "up"
  BY <1>2, <1>3 DEF PhaseInv
<1>5. PICK n \in DOMAIN tasks : /\ edit.todo = {n} /\ ~Taken(n)
                                /\ tasks[n].chain = chainSeq /\ tasks[n].attempt = 1
  BY <1>2, <1>3 DEF OwnInv
<1>6. edit' \in Editing /\ edit'.pc = "idle" /\ EditInv'
  BY <1>3, Defaults DEF EditInv, Copies
<1>7. CASE armed' = armed \cup edit.todo /\ tasks' = tasks
  <2>1. Kept /\ DOMAIN tasks' = DOMAIN tasks
    BY <1>1, <1>7, KeptByStuttering
  <2>2. \A u \in Handlers : Busy(u)' = Busy(u) /\ handler'[u].id = handler[u].id
                            /\ (Busy(u) => handler[u].id # n)
    BY <1>3, <1>5 DEF Taken, Busy
  <2>3. \A u \in Handlers : handler'[u].pc = "register" =>
           /\ handler[u].pc = "register" /\ handler'[u].copy = handler[u].copy
           /\ ~Same(handler[u].copy, tasks[n])
    BY <1>2, <1>3, <1>5 DEF HandlerInv, Stands, Same
  <2>4. n \notin boot'.todo /\ armed' = armed \cup {n}
    BY <1>3, <1>5, <1>7 DEF Taken
  <2>5. OwnInv'
    BY <1>2, <1>3, <1>5, <1>6, <1>7, <2>2, <2>3, <2>4, RowArmed
  <2>6. RowInv'
    BY <1>1, <1>2, <1>3, <2>1, RowsStay
  <2>7. BootInv'
    BY <1>2, <1>3, <2>1, BootStays
  <2>8. HandlerInv'
    BY <1>2, <1>3, <2>1, HandlerStays DEF HandlerInv
  <2>9. ActionInv'
    BY <1>2, <1>3, <2>1, ActionStays DEF ActionInv
  <2>10. PhaseInv'
    BY <1>2, <1>3, <1>4 DEF PhaseInv
  <2>11. AnnouncedInv'
    BY <1>2, <1>3, <2>1, <2>2, AnnouncedStay
  <2>12. Typed'
    <3>1. BaseOK'
      BY <1>1, <1>3, <1>7, <2>4 DEF BaseOK
    <3> QED
      BY <1>1, <1>3, <1>6, <3>1 DEF Typed
  <2> QED
    BY <1>6, <2>5, <2>6, <2>7, <2>8, <2>9, <2>10, <2>11, <2>12 DEF IInv
<1> DEFINE r == [NewTask(chainSeq, 1, edit.copy.start) EXCEPT !.timer = "failed"]
<1>8. CASE /\ tasks' = [i \in DOMAIN tasks |-> IF i \in edit.todo THEN r ELSE tasks[i]]
           /\ armed' = armed
  <2>1. r \in Task /\ r.chain = chainSeq /\ r.attempt = 1 /\ r.timer = "failed"
    <3>1. edit.copy.start \in Nat /\ 1 \in 1 .. MaximumAttempts
      BY <1>1, ReminderAssumption DEF Editing, Schedule
    <3> DEFINE f == NewTask(chainSeq, 1, edit.copy.start)
    <3>2. f \in Task /\ f.chain = chainSeq /\ f.attempt = 1
      BY <1>1, <3>1 DEF NewTask, Task, Business, Timer
    <3> HIDE DEF f
    <3>3. r = [f EXCEPT !.timer = "failed"]
      BY DEF f
    <3> QED
      BY <3>2, <3>3 DEF Task, Timer
  <2>2. Same(r, tasks[n]) /\ ~Pending(r)
    BY <1>5, <2>1 DEF Same, Pending
  <2> HIDE DEF r
  <2>3. tasks' = [tasks EXCEPT ![n] = r]
    BY <1>1, <1>5, <1>8
  <2>4. Kept /\ DOMAIN tasks' = DOMAIN tasks
    BY <1>1, <1>5, <2>1, <2>2, <2>3, KeptByWriting
  <2>5. ActionInv'
    BY <1>2, <1>3, <2>4, ActionStays DEF ActionInv
  <2> QED
    BY <1>1, <1>3, <1>4, <1>6, <1>8, <2>4, <2>5, OutsideStep
<1> QED
  BY <1>7, <1>8 DEF SyncRegister

\* Start registers the first row, or marks it failed.
LEMMA BootRegisterStep ==
    ASSUME IInv, BootRegister
    PROVE  IInv'
<1>1. /\ handler \in [Handlers -> Handling] /\ tasks \in Seq(Task) /\ announced \in Seq(Nat)
      /\ now \in Nat /\ chainSeq \in Nat /\ armed \subseteq DOMAIN tasks /\ boot \in Booting
  BY DEF IInv, Typed, BaseOK
<1>2. /\ HandlerInv /\ AnnouncedInv /\ OwnInv /\ RowInv /\ BootInv /\ PhaseInv
  BY DEF IInv
<1> DEFINE n == Len(tasks)
<1>3. /\ UNCHANGED <<now, sched, action, edit, chainSeq, announced, handler>>
      /\ boot.pc = "register"
  BY DEF BootRegister, ghosts
<1>4. /\ n \in DOMAIN tasks /\ armed = {} /\ boot.todo = {} /\ edit.pc = "idle"
      /\ action.pc = "idle" /\ \A u \in Handlers : ~Busy(u)
  BY <1>1, <1>2, <1>3 DEF PhaseInv
<1>5. \/ /\ armed' = armed \cup {n} /\ tasks' = tasks
         /\ boot' = [boot EXCEPT !.pc = "done"]
      \/ /\ tasks' = [tasks EXCEPT ![n].timer = "failed"] /\ armed' = armed
         /\ boot' = [boot EXCEPT !.pc = "done", !.ok = FALSE]
  BY DEF BootRegister
<1> HIDE DEF n
<1>6. boot' \in Booting /\ boot'.pc = "done" /\ boot'.todo = boot.todo /\ boot'.snap = boot.snap
  BY <1>1, <1>5 DEF Booting
<1>7. \A u \in Handlers : ~Busy(u)' /\ handler'[u].pc = "idle" /\ handler[u].pc = "idle"
  BY <1>3, <1>4 DEF Busy
<1>8. ASSUME Kept, DOMAIN tasks' = DOMAIN tasks, armed' \subseteq armed \cup {n} PROVE IInv'
  <2>1. RowInv'
    BY <1>1, <1>2, <1>3, <1>8, RowsStay
  <2>2. BootInv'
    BY <1>2, <1>6, <1>8, BootStays
  <2>3. HandlerInv'
    BY <1>2, <1>3, <1>8, HandlerStays DEF HandlerInv
  <2>4. OwnInv'
    BY <1>3, <1>4, <1>6, <1>7 DEF OwnInv
  <2>5. PhaseInv'
    BY <1>3, <1>4, <1>6 DEF PhaseInv
  <2>6. AnnouncedInv'
    BY <1>2, <1>3, <1>7, <1>8, AnnouncedStay
  <2>7. armed' \subseteq DOMAIN tasks'
    BY <1>1, <1>4, <1>8
  <2> QED
    BY <1>1, <1>3, <1>6, <1>8, <2>1, <2>2, <2>3, <2>4, <2>5, <2>6, <2>7, InsideStep
<1>9. CASE armed' = armed \cup {n} /\ tasks' = tasks
  BY <1>1, <1>8, <1>9, KeptByStuttering
<1>10. CASE tasks' = [tasks EXCEPT ![n].timer = "failed"] /\ armed' = armed
  <2> DEFINE r == [tasks[n] EXCEPT !.timer = "failed"]
  <2>1. tasks[n] \in Task
    BY <1>1, <1>4
  <2>2. r \in Task /\ Same(r, tasks[n]) /\ ~Pending(r)
    BY <2>1 DEF Task, Timer, Same, Pending
  <2>3. tasks' = [tasks EXCEPT ![n] = r]
    BY <1>1, <1>4, <1>10
  <2> HIDE DEF r
  <2> QED
    BY <1>1, <1>4, <1>8, <1>10, <2>2, <2>3, KeptByWriting
<1> QED
  BY <1>5, <1>9, <1>10

\* A handler takes a row that waited for the timing service or for Start.
LEMMA RowTaken ==
    ASSUME IInv, NEW t \in Handlers, NEW i \in armed \cup boot.todo, ~Busy(t), Pending(tasks[i]),
           handler' = [handler EXCEPT ![t] = [pc |-> "schedule", id |-> i, copy |-> tasks[i],
                                              stale |-> tasks[i].chain \in acked]],
           UNCHANGED <<tasks, chainSeq, edit, announced>>,
           armed' \subseteq armed, boot'.todo \subseteq boot.todo, i \notin armed' \cup boot'.todo
    PROVE  handler' \in [Handlers -> Handling] /\ HandlerInv' /\ OwnInv' /\ AnnouncedInv'
<1>1. /\ handler \in [Handlers -> Handling] /\ tasks \in Seq(Task) /\ armed \subseteq DOMAIN tasks
      /\ HandlerInv /\ AnnouncedInv /\ OwnInv /\ BootInv
  BY DEF IInv, Typed, BaseOK
<1> DEFINE x == [pc |-> "schedule", id |-> i, copy |-> tasks[i],
                 stale |-> tasks[i].chain \in acked]
<1>2. i \in DOMAIN tasks /\ i \in Nat /\ tasks[i] \in Task
  BY <1>1 DEF BootInv, Copies
<1>3. x \in Handling /\ x.pc = "schedule" /\ x.id = i /\ x.copy = tasks[i]
  BY <1>2 DEF Handling
<1>4. handler' = [handler EXCEPT ![t] = x]
  OBVIOUS
<1> HIDE DEF x
<1>5. /\ handler' \in [Handlers -> Handling] /\ handler'[t] = x
      /\ \A u \in Handlers : u # t => handler'[u] = handler[u]
  BY <1>1, <1>3, <1>4
<1>6. Kept
  BY <1>1, KeptByStuttering
<1>7. HandlerInv'
  <2>1. ASSUME NEW u \in Handlers, u # t PROVE Stands(u)'
    BY <1>1, <1>5, <1>6, <2>1, HandlerStays DEF HandlerInv
  <2>2. Stands(t)'
    BY <1>2, <1>3, <1>5 DEF Stands, Same
  <2> QED
    BY <2>1, <2>2 DEF HandlerInv
<1>8. \A u \in Handlers : Busy(u)' => \/ u = t /\ handler'[u].id = i
                                      \/ u # t /\ Busy(u) /\ handler'[u].id = handler[u].id
  BY <1>3, <1>5 DEF Busy
<1>9. \A u \in Handlers : handler'[u].pc = "register" =>
        handler[u].pc = "register" /\ handler'[u].copy = handler[u].copy
  BY <1>3, <1>5
<1>10. \A k : Taken(k)' => Taken(k)
  BY <1>8 DEF Taken
<1>11. OwnInv'
  <2>1. (armed \cap boot.todo = {})'
    BY <1>1 DEF OwnInv
  <2>2. \A u \in Handlers : Busy(u)' => handler'[u].id \notin armed' \cup boot'.todo
    BY <1>1, <1>8 DEF OwnInv
  <2>3. \A u, v \in Handlers : Busy(u)' /\ Busy(v)' /\ handler'[u].id = handler'[v].id => u = v
    BY <1>1, <1>8 DEF OwnInv
  <2>4. \A u \in Handlers, j \in DOMAIN tasks' :
          handler'[u].pc = "register" /\ Same(handler'[u].copy, tasks'[j]) => ~Taken(j)'
    BY <1>1, <1>9, <1>10 DEF OwnInv
  <2>5. \A u, v \in Handlers :
          handler'[u].pc = "register" /\ handler'[v].pc = "register"
            /\ Same(handler'[u].copy, handler'[v].copy) => u = v
    BY <1>1, <1>9 DEF OwnInv
  <2>6. edit'.pc = "register" =>
          \E m \in DOMAIN tasks' : /\ edit'.todo = {m} /\ ~Taken(m)'
                                   /\ tasks'[m].chain = chainSeq' /\ tasks'[m].attempt = 1
    BY <1>1, <1>10 DEF OwnInv
  <2> QED
    BY <2>1, <2>2, <2>3, <2>4, <2>5, <2>6 DEF OwnInv
<1>12. AnnouncedInv'
  <2>1. \A p \in DOMAIN announced : announced[p] # i
    BY <1>1 DEF AnnouncedInv
  <2>2. \A u \in Handlers, p \in DOMAIN announced : Busy(u)' => announced[p] # handler'[u].id
    BY <1>1, <1>8, <2>1 DEF AnnouncedInv
  <2> QED
    BY <1>1, <2>2 DEF AnnouncedInv
<1> QED
  BY <1>5, <1>7, <1>11, <1>12

\* Fire: the timing service enters the handler.
LEMMA FireStep ==
    ASSUME IInv, NEW i \in DOMAIN tasks, Fire(i)
    PROVE  IInv'
<1>1. /\ handler \in [Handlers -> Handling] /\ tasks \in Seq(Task) /\ announced \in Seq(Nat)
      /\ now \in Nat /\ chainSeq \in Nat /\ armed \subseteq DOMAIN tasks /\ boot \in Booting
      /\ edit \in Editing /\ action \in Acting /\ sched \in Schedule
  BY DEF IInv, Typed, BaseOK
<1>2. /\ HandlerInv /\ AnnouncedInv /\ OwnInv /\ RowInv /\ BootInv /\ PhaseInv /\ EditInv
      /\ ActionInv
  BY DEF IInv
<1>3. /\ UNCHANGED <<now, sched, tasks, edit, action, boot, chainSeq, announced>>
      /\ i \in armed /\ armed' = armed \ {i} /\ handler["runner"].pc = "idle"
  BY DEF Fire, storage, ghosts
<1>4. Kept /\ DOMAIN tasks' = DOMAIN tasks
  BY <1>1, <1>3, KeptByStuttering
<1>5. CASE Pending(tasks[i])
  <2>1. handler' = [handler EXCEPT !["runner"] = [pc |-> "schedule", id |-> i, copy |-> tasks[i],
                                              stale |-> tasks[i].chain \in acked]]
    BY <1>5 DEF Fire, Enter
  <2>2. "runner" \in Handlers /\ ~Busy("runner") /\ i \in armed \cup boot.todo
    BY <1>3 DEF Handlers, Busy
  <2>3. i \notin armed' \cup boot'.todo /\ armed' \subseteq armed /\ boot'.todo \subseteq boot.todo
    BY <1>2, <1>3 DEF OwnInv
  <2>4. handler' \in [Handlers -> Handling] /\ HandlerInv' /\ OwnInv' /\ AnnouncedInv'
    BY <1>3, <1>5, <2>1, <2>2, <2>3, RowTaken
  <2>5. RowInv'
    BY <1>1, <1>2, <1>3, <1>4, RowsStay
  <2>6. BootInv'
    BY <1>2, <1>3, <1>4, BootStays
  <2>7. PhaseInv'
    <3>1. boot.pc \notin {"down", "register"}
      BY <1>2, <1>3 DEF PhaseInv
    <3> QED
      BY <1>2, <1>3, <3>1 DEF PhaseInv
  <2>8. armed' \subseteq DOMAIN tasks'
    BY <1>1, <1>3
  <2> QED
    BY <1>1, <1>3, <1>4, <2>4, <2>5, <2>6, <2>7, <2>8, InsideStep
<1>6. CASE ~Pending(tasks[i])
  <2>1. handler' = handler
    BY <1>6 DEF Fire, Enter
  <2>2. EditInv'
    BY <1>2, <1>3, <1>4, EditStays DEF EditInv
  <2>3. ActionInv'
    BY <1>2, <1>3, <1>4, ActionStays DEF ActionInv
  <2> QED
    BY <1>1, <1>2, <1>3, <1>4, <2>1, <2>2, <2>3, OutsideStep DEF PhaseInv
<1> QED
  BY <1>5, <1>6

\* A step of Start that takes no row.
LEMMA BootMoves ==
    ASSUME IInv, Kept, DOMAIN tasks' = DOMAIN tasks,
           UNCHANGED <<now, sched, edit, action, handler, chainSeq, announced>>,
           armed' \subseteq armed, boot' \in Booting, boot'.todo \subseteq boot.todo,
           BootInv', PhaseInv'
    PROVE  IInv'
<1>1. /\ handler \in [Handlers -> Handling] /\ announced \in Seq(Nat) /\ chainSeq \in Nat
      /\ armed \subseteq DOMAIN tasks /\ HandlerInv
  BY DEF IInv, Typed, BaseOK
<1>2. Calm
  BY DEF Calm, Busy
<1>3. RowInv' /\ OwnInv' /\ AnnouncedInv'
  BY <1>2, CalmStep
<1>4. HandlerInv'
  BY <1>1, HandlerStays DEF HandlerInv
<1> QED
  BY <1>1, <1>3, <1>4, InsideStep

\* Start restores one pending row.
LEMMA BootRestoreStep ==
    ASSUME IInv, BootRestore
    PROVE  IInv'
<1>1. /\ handler \in [Handlers -> Handling] /\ tasks \in Seq(Task) /\ announced \in Seq(Nat)
      /\ now \in Nat /\ chainSeq \in Nat /\ armed \subseteq DOMAIN tasks /\ boot \in Booting
  BY DEF IInv, Typed, BaseOK
<1>2. /\ HandlerInv /\ AnnouncedInv /\ OwnInv /\ RowInv /\ BootInv /\ PhaseInv
  BY DEF IInv
<1> DEFINE i == Smallest(boot.todo)
           r == [boot.snap[i] EXCEPT !.timer = "cancelled", !.business = "cancelled"]
<1>3. /\ UNCHANGED <<now, sched, edit, action, chainSeq, announced>>
      /\ boot.pc = "restore" /\ boot.todo # {} /\ handler["main"].pc = "idle"
  BY DEF BootRestore, ghosts
<1>4. /\ boot.todo \in SUBSET Nat /\ boot.snap \in Seq(Task) /\ boot.todo \subseteq DOMAIN boot.snap
      /\ Copies(boot.snap)
  BY <1>1, <1>2 DEF Booting, BootInv
<1>5. i \in boot.todo
  BY <1>3, <1>4, SmallestIsIn
<1>6. i \in DOMAIN tasks /\ boot.snap[i] \in Task /\ Same(boot.snap[i], tasks[i])
      /\ boot.snap # <<>>
  BY <1>4, <1>5 DEF Copies
<1>7. \/ boot' = [boot EXCEPT !.todo = @ \ {i}]
      \/ boot' = [boot EXCEPT !.todo = @ \ {i}, !.ok = FALSE]
  BY DEF BootRestore
<1>8. \/ tasks' = [tasks EXCEPT ![i] = r] /\ armed' = armed /\ handler' = handler
      \/ tasks' = tasks /\ armed' = armed /\ Enter("main", i)
      \/ tasks' = tasks /\ armed' = armed \cup {i} /\ handler' = handler
      \/ tasks' = tasks /\ armed' = armed /\ handler' = handler
  BY DEF BootRestore
<1> HIDE DEF i
<1>9. /\ boot' \in Booting /\ boot'.pc = "restore" /\ boot'.snap = boot.snap
      /\ boot'.todo = boot.todo \ {i}
  BY <1>1, <1>3, <1>7 DEF Booting
<1>10. PhaseInv'
  BY <1>2, <1>3, <1>6, <1>9 DEF PhaseInv
<1>11. Kept => BootInv'
  BY <1>2, <1>9, BootStays
<1>12. ASSUME Kept, DOMAIN tasks' = DOMAIN tasks, armed' = armed, handler' = handler PROVE IInv'
  BY <1>3, <1>9, <1>10, <1>11, <1>12, BootMoves
<1>13. tasks' = tasks => Kept /\ DOMAIN tasks' = DOMAIN tasks
  BY <1>1, KeptByStuttering
<1>14. CASE tasks' = [tasks EXCEPT ![i] = r] /\ armed' = armed /\ handler' = handler
  <2>1. r \in Task /\ Same(r, tasks[i]) /\ ~Pending(r)
    BY <1>6 DEF Task, Same, Pending, Business, Timer
  <2> HIDE DEF r
  <2>2. Kept /\ DOMAIN tasks' = DOMAIN tasks
    BY <1>1, <1>6, <1>14, <2>1, KeptByWriting
  <2> QED
    BY <1>12, <1>14, <2>2
<1>15. CASE tasks' = tasks /\ armed' = armed /\ Enter("main", i)
  <2>1. CASE Pending(tasks[i])
    <3>1. handler' = [handler EXCEPT !["main"] = [pc |-> "schedule", id |-> i, copy |-> tasks[i],
                                                  stale |-> tasks[i].chain \in acked]]
      BY <1>15, <2>1 DEF Enter
    <3>2. "main" \in Handlers /\ ~Busy("main") /\ i \in armed \cup boot.todo
      BY <1>3, <1>5 DEF Handlers, Busy
    <3>3. i \notin armed' \cup boot'.todo /\ armed' \subseteq armed /\ boot'.todo \subseteq boot.todo
      BY <1>2, <1>5, <1>9, <1>15 DEF OwnInv
    <3>4. handler' \in [Handlers -> Handling] /\ HandlerInv' /\ OwnInv' /\ AnnouncedInv'
      BY <1>3, <1>15, <2>1, <3>1, <3>2, <3>3, RowTaken
    <3>5. RowInv'
      BY <1>1, <1>2, <1>3, <1>13, <1>15, RowsStay
    <3>6. armed' \subseteq DOMAIN tasks'
      BY <1>1, <1>15
    <3> QED
      BY <1>1, <1>3, <1>9, <1>10, <1>11, <1>13, <1>15, <3>4, <3>5, <3>6, InsideStep
  <2>2. CASE ~Pending(tasks[i])
    BY <1>12, <1>13, <1>15, <2>2 DEF Enter
  <2> QED
    BY <2>1, <2>2
<1>16. CASE tasks' = tasks /\ armed' = armed \cup {i} /\ handler' = handler
  <2>1. Taken(i) /\ edit.pc = "idle"
    BY <1>2, <1>3, <1>5 DEF Taken, PhaseInv
  <2>2. \A u \in Handlers : Busy(u)' = Busy(u) /\ handler'[u].id = handler[u].id
                            /\ (Busy(u) => handler[u].id # i)
    BY <1>2, <1>5, <1>16 DEF OwnInv, Busy
  <2>3. \A u \in Handlers : handler'[u].pc = "register" =>
           /\ handler[u].pc = "register" /\ handler'[u].copy = handler[u].copy
           /\ ~Same(handler[u].copy, tasks[i])
    BY <1>2, <1>6, <1>16, <2>1 DEF OwnInv
  <2>4. i \notin boot'.todo /\ boot'.todo \subseteq boot.todo
    BY <1>9
  <2>5. OwnInv'
    BY <1>2, <1>3, <1>6, <1>16, <2>1, <2>2, <2>3, <2>4, RowArmed
  <2>6. RowInv'
    BY <1>1, <1>2, <1>3, <1>13, <1>16, RowsStay
  <2>7. HandlerInv'
    BY <1>2, <1>13, <1>16, HandlerStays DEF HandlerInv
  <2>8. AnnouncedInv'
    BY <1>2, <1>3, <1>13, <1>16, <2>2, AnnouncedStay
  <2>9. armed' \subseteq DOMAIN tasks'
    BY <1>1, <1>6, <1>16
  <2> QED
    BY <1>1, <1>3, <1>9, <1>10, <1>11, <1>13, <1>16, <2>5, <2>6, <2>7, <2>8, <2>9, InsideStep
<1>17. CASE tasks' = tasks /\ armed' = armed /\ handler' = handler
  BY <1>12, <1>13, <1>17
<1> QED
  BY <1>8, <1>14, <1>15, <1>16, <1>17

\* Start reads the rows: what is pending is to be restored, the counter resumes at the last
\* chain.
LEMMA BootBeginStep ==
    ASSUME IInv, BootBegin
    PROVE  IInv'
<1>1. /\ handler \in [Handlers -> Handling] /\ tasks \in Seq(Task) /\ announced \in Seq(Nat)
      /\ now \in Nat /\ chainSeq \in Nat /\ armed \subseteq DOMAIN tasks /\ boot \in Booting
  BY DEF IInv, Typed, BaseOK
<1>2. /\ HandlerInv /\ AnnouncedInv /\ RowInv /\ PhaseInv
  BY DEF IInv
<1>3. /\ UNCHANGED <<now, sched, edit, action, handler, tasks, armed, announced>>
      /\ boot.pc = "down"
      /\ boot' = [pc |-> "restore", snap |-> tasks, todo |-> PendingIn(tasks), ok |-> TRUE]
      /\ chainSeq' = IF tasks = <<>> THEN 0 ELSE CHOOSE c \in Chains : \A d \in Chains : d <= c
  BY DEF BootBegin, storage, timing, ghosts
<1>4. /\ armed = {} /\ edit.pc = "idle" /\ action.pc = "idle"
      /\ \A u \in Handlers : ~Busy(u)
  BY <1>2, <1>3 DEF PhaseInv
<1>5. PendingIn(tasks) \in SUBSET Nat /\ PendingIn(tasks) \subseteq DOMAIN tasks
  BY <1>1 DEF PendingIn
<1>6. /\ boot' \in Booting /\ boot'.pc = "restore" /\ boot'.snap = tasks
      /\ boot'.todo = PendingIn(tasks)
  BY <1>1, <1>3, <1>5 DEF Booting
<1>7. IF tasks = <<>> THEN chainSeq' = 0 ELSE chainSeq' = chainSeq
  <2>1. ASSUME tasks # <<>> PROVE chainSeq' = chainSeq
    <3>1. chainSeq \in Chains
      BY <1>2, <2>1 DEF RowInv, Chains
    <3>2. \A d \in Chains : d \in Nat /\ d <= chainSeq
      <4>1. ASSUME NEW k \in DOMAIN tasks PROVE tasks[k].chain \in Nat /\ tasks[k].chain <= chainSeq
        <5>1. tasks[k] \in Task
          BY <1>1
        <5> QED
          BY <1>2, <5>1 DEF RowInv, Task
      <4> QED
        BY <4>1 DEF Chains
    <3>3. chainSeq' = CHOOSE c \in Chains : \A d \in Chains : d <= c
      BY <1>3, <2>1
    <3>4. chainSeq' \in Chains /\ \A d \in Chains : d <= chainSeq'
      BY <3>1, <3>2, <3>3
    <3> QED
      BY <3>1, <3>2, <3>4
  <2> QED
    BY <1>3, <2>1
<1>8. RowInv' /\ chainSeq' \in Nat
  <2>1. CASE tasks = <<>>
    BY <1>3, <1>7, <2>1 DEF RowInv
  <2>2. CASE tasks # <<>>
    BY <1>1, <1>2, <1>3, <1>7, <2>2 DEF RowInv
  <2> QED
    BY <2>1, <2>2
<1>9. Kept
  BY <1>1, <1>3, KeptByStuttering
<1>10. BootInv'
  <2>1. Copies(boot.snap)'
    BY <1>3, <1>6 DEF Copies, Same
  <2> QED
    BY <1>5, <1>6, <2>1 DEF BootInv
<1>11. HandlerInv'
  BY <1>2, <1>3, <1>9, HandlerStays DEF HandlerInv
<1>12. \A u \in Handlers : ~Busy(u)' /\ handler'[u].pc = "idle"
  BY <1>3, <1>4 DEF Busy
<1>13. OwnInv'
  BY <1>3, <1>4, <1>12 DEF OwnInv
<1>14. PhaseInv'
  BY <1>3, <1>4, <1>6 DEF PhaseInv
<1>15. AnnouncedInv'
  BY <1>2, <1>3, <1>9, <1>12, AnnouncedStay
<1> QED
  BY <1>1, <1>3, <1>6, <1>8, <1>9, <1>10, <1>11, <1>13, <1>14, <1>15, InsideStep

\* Start goes on and ends.
LEMMA BootEndSteps ==
    ASSUME IInv, BootSchedule \/ BootDone
    PROVE  IInv'
<1>1. /\ tasks \in Seq(Task) /\ boot \in Booting /\ BootInv /\ PhaseInv
  BY DEF IInv, Typed, BaseOK
<1>2. UNCHANGED <<now, sched, tasks, edit, action, handler, chainSeq, announced>>
  BY DEF BootSchedule, BootDone, storage, ghosts
<1>3. Kept /\ DOMAIN tasks' = DOMAIN tasks
  BY <1>1, <1>2, KeptByStuttering
<1>4. CASE BootSchedule
  <2>1. /\ armed' = armed /\ boot.pc = "restore" /\ boot.todo = {}
        /\ boot' = [boot EXCEPT !.pc = IF /\ sched.status = "active" /\ sched.start > now
                                          /\ boot.snap = <<>>
                                       THEN "insert" ELSE "done"]
    BY <1>4 DEF BootSchedule, timing
  <2>2. /\ boot' \in Booting /\ boot'.todo = {} /\ boot'.snap = boot.snap
        /\ boot'.pc \in {"insert", "done"} /\ (boot'.pc = "insert" => boot.snap = <<>>)
    BY <1>1, <2>1 DEF Booting
  <2>3. BootInv'
    BY <1>1, <1>3, <2>1, <2>2, BootStays
  <2>4. PhaseInv'
    BY <1>1, <1>2, <2>1, <2>2 DEF PhaseInv
  <2> QED
    BY <1>2, <1>3, <2>1, <2>2, <2>3, <2>4, BootMoves
<1>5. CASE BootDone
  <2>1. /\ boot.pc = "done" /\ (armed' = armed \/ armed' = {})
        /\ \/ boot' = [Down EXCEPT !.pc = "up"]
           \/ boot' = [Down EXCEPT !.pc = "failed"]
    BY <1>5 DEF BootDone, timing
  <2>2. /\ boot' \in Booting /\ boot'.todo = {} /\ boot'.snap = <<>>
        /\ boot'.pc \in {"up", "failed"}
    BY <2>1, Defaults DEF Booting
  <2>3. BootInv'
    BY <2>2 DEF BootInv, Copies
  <2>4. PhaseInv'
    BY <1>1, <1>2, <2>1, <2>2 DEF PhaseInv
  <2> QED
    BY <1>2, <1>3, <2>1, <2>2, <2>3, <2>4, BootMoves
<1> QED
  BY <1>4, <1>5

\* Power fails: the rows and what was announced stay.
LEMMA CrashStep ==
    ASSUME IInv, Crash
    PROVE  IInv'
<1>1. /\ tasks \in Seq(Task) /\ announced \in Seq(Nat) /\ now \in Nat /\ chainSeq \in Nat
      /\ sched \in Schedule /\ RowInv /\ AnnouncedInv
  BY DEF IInv, Typed, BaseOK
<1>2. /\ UNCHANGED <<now, sched, tasks, chainSeq, announced>>
      /\ armed' = {} /\ boot' = Down /\ edit' = NoEdit /\ action' = NoAction
      /\ handler' = [u \in Handlers |-> Idle]
  BY DEF Crash, storage
<1>3. \A u \in Handlers : handler'[u] = Idle /\ ~Busy(u)' /\ handler'[u].pc = "idle"
  BY <1>2, Defaults DEF Busy
<1>4. Kept /\ DOMAIN tasks' = DOMAIN tasks
  BY <1>1, <1>2, KeptByStuttering
<1>5. Typed'
  <2>1. handler' \in [Handlers -> Handling]
    BY <1>2, Defaults
  <2>2. BaseOK'
    BY <1>1, <1>2 DEF BaseOK
  <2> QED
    BY <1>2, <2>1, <2>2, Defaults DEF Typed
<1>6. RowInv'
  BY <1>1, <1>2, <1>4, RowsStay
<1>7. BootInv' /\ EditInv' /\ ActionInv'
  BY <1>2, Defaults DEF BootInv, EditInv, ActionInv, Copies
<1>8. HandlerInv'
  BY <1>3 DEF HandlerInv, Stands
<1>9. OwnInv'
  BY <1>2, <1>3, Defaults DEF OwnInv
<1>10. PhaseInv'
  BY <1>2, <1>3, Defaults DEF PhaseInv
<1>11. AnnouncedInv'
  BY <1>1, <1>2, <1>3, <1>4, AnnouncedStay
<1> QED
  BY <1>5, <1>6, <1>7, <1>8, <1>9, <1>10, <1>11 DEF IInv

\* Time, the commands of the timing service and stuttering.
LEMMA OtherSteps ==
    ASSUME IInv, Tick \/ (\E i \in DOMAIN tasks : ApplyCancel(i)) \/ UNCHANGED vars
    PROVE  IInv'
<1>1. /\ tasks \in Seq(Task) /\ now \in Nat /\ sched \in Schedule
      /\ edit \in Editing /\ action \in Acting /\ EditInv /\ ActionInv /\ PhaseInv
  BY DEF IInv, Typed, BaseOK
<1>2. /\ UNCHANGED <<sched, tasks, handler, boot, announced, chainSeq, edit, action>>
      /\ armed' \subseteq armed /\ now' \in Nat
  BY <1>1 DEF Tick, ApplyCancel, vars, storage, timing, ghosts
<1>3. Kept /\ DOMAIN tasks' = DOMAIN tasks
  BY <1>1, <1>2, KeptByStuttering
<1>4. EditInv'
  BY <1>1, <1>2, <1>3, EditStays DEF EditInv
<1>5. ActionInv'
  BY <1>1, <1>2, <1>3, ActionStays DEF ActionInv
<1> QED
  BY <1>1, <1>2, <1>3, <1>4, <1>5, OutsideStep DEF PhaseInv

\* The invariant holds at first.
LEMMA InitInv == Init => IInv
<1> SUFFICES ASSUME Init PROVE IInv
  OBVIOUS
<1>1. /\ now = 0 /\ tasks = <<>> /\ armed = {} /\ chainSeq = 0 /\ boot = Down
      /\ handler = [t \in Handlers |-> Idle] /\ edit = NoEdit /\ action = NoAction
      /\ announced = <<>>
  BY DEF Init
<1>2. sched \in Schedule
  BY ReminderAssumption DEF Init, Schedule
<1>3. \A u \in Handlers : handler[u] = Idle /\ ~Busy(u) /\ handler[u].pc = "idle"
  BY <1>1, Defaults DEF Busy
<1>4. Typed
  <2>1. BaseOK
    BY <1>1, <1>2 DEF BaseOK
  <2>2. handler \in [Handlers -> Handling]
    BY <1>1, Defaults
  <2> QED
    BY <1>1, <2>1, <2>2, Defaults DEF Typed
<1>5. RowInv
  BY <1>1 DEF RowInv
<1>6. BootInv /\ EditInv /\ ActionInv
  BY <1>1, Defaults DEF BootInv, EditInv, ActionInv, Copies
<1>7. HandlerInv
  BY <1>3 DEF HandlerInv, Stands
<1>8. OwnInv
  BY <1>1, <1>3, Defaults DEF OwnInv
<1>9. PhaseInv
  BY <1>1, <1>3, Defaults DEF PhaseInv
<1>10. AnnouncedInv
  BY <1>1 DEF AnnouncedInv
<1> QED
  BY <1>4, <1>5, <1>6, <1>7, <1>8, <1>9, <1>10 DEF IInv

\* The invariant holds in every reachable state: with any number of edits, deletions,
\* actions, power failures and refused commands, in any interleaving of the four threads.
THEOREM Inductive == Spec => []IInv
<1>1. IInv /\ [Next]_vars => IInv'
  <2> SUFFICES ASSUME IInv, [Next]_vars PROVE IInv'
    OBVIOUS
  <2>1. CASE TimingStep
    BY <2>1, FireStep, OtherSteps DEF TimingStep
  <2>2. ASSUME NEW t \in Handlers, Handle(t) PROVE IInv'
    BY <2>2, HandleLoadStep, HandleUpdateStep, HandleInsertStep, HandleRegisterStep,
       HandleAnnounceStep DEF Handle
  <2>3. CASE BootStep
    BY <2>3, BootBeginStep, BootRestoreStep, BootEndSteps, BootInsertStep, BootRegisterStep
       DEF BootStep
  <2>4. CASE UpdateBegin \/ Delete \/ EditStep
    BY <2>4, EditSteps, CancelStep, SyncInsertStep, SyncRegisterStep DEF EditStep
  <2>5. CASE \E i \in DOMAIN tasks, k \in {"acknowledge", "snooze"}, via \in {"voice", "im"} :
               ActionBegin(i, k, via)
    BY <2>5, ActionSteps
  <2>6. CASE ActionStep
    BY <2>6, ActionSteps, ActionWrites DEF ActionStep
  <2>7. CASE Tick \/ UNCHANGED vars
    BY <2>7, OtherSteps
  <2>8. CASE Crash
    BY <2>8, CrashStep
  <2> QED
    BY <2>1, <2>2, <2>3, <2>4, <2>5, <2>6, <2>7, <2>8 DEF Next
<1> QED
  BY <1>1, InitInv, PTL DEF Spec

\* No attempt of a chain is announced twice (AnnouncedOnce), however the threads interleave,
\* the user edits and acts, commands are refused and power fails.
THEOREM SpokenOnce == Spec => []AnnouncedOnce
<1>1. IInv => AnnouncedOnce
  BY DEF IInv, AnnouncedInv, RowInv, Same, AnnouncedOnce
<1> QED
  BY <1>1, Inductive, PTL
-----------------------------------------------------------------------------
(* A schedule that is not edited.                                          *)

Spending == [edits : {0}, actions : Nat, crashes : Nat, unavailable : Nat]

\* The MCP worker stays idle, an acknowledge completes the schedule for good, and a
\* handler that begins after it ends when it reads the schedule.
SilentInv ==
    /\ spent \in Spending /\ edit.pc = "idle"
    /\ acked # {} => sched.status = "completed"
    /\ action.pc = "finish" => sched.status = "completed"
    /\ \A t \in Handlers : handler[t].stale => /\ handler[t].pc = "schedule"
                                               /\ sched.status = "completed"

\* Nobody has acted on the row and nobody can.
Fresh(row) == row.action = "none" /\ row.business \notin {"waiting", "exhausted"}

\* What Start and a handler may still write over is fresh.
KeepRows == \A i \in DOMAIN tasks : Pending(tasks[i]) => Fresh(tasks[i])

KeepBoot == \A i \in boot.todo : Fresh(tasks[i]) /\ boot.snap[i].action = "none"

KeepHandler(t) ==
    /\ handler[t].pc \in {"schedule", "update"} => /\ Fresh(tasks[handler[t].id])
                                                   /\ handler[t].copy.action = "none"
    /\ handler[t].pc = "register" =>
         /\ Fresh(handler[t].copy)
         /\ \A j \in DOMAIN tasks : Same(handler[t].copy, tasks[j]) => Fresh(tasks[j])

\* What an action has read of the recorded actions is current, and its own row
\* is not one of the rows a handler still writes over.
KeepAction ==
    /\ action.pc # "idle" => /\ tasks[action.id].action = "none"
                             /\ tasks[action.id].business \in {"waiting", "exhausted"}
                             /\ action.copy.action = "none"
    /\ action.pc \in {"cancel", "others"} =>
         \A i \in DOMAIN action.snap : action.snap[i].action = tasks[i].action
    /\ action.pc = "others" => action.id \notin action.todo

KeepInv == KeepRows /\ KeepBoot /\ (\A t \in Handlers : KeepHandler(t)) /\ KeepAction

\* The bounds of the environment are counted apart.
LEMMA SpentStays ==
    ASSUME spent \in Spending,
           \/ spent' = spent
           \/ \E b \in {"actions", "crashes", "unavailable"} : spent' = [spent EXCEPT ![b] = @ + 1]
    PROVE  spent' \in Spending
<1>1. CASE spent' = [spent EXCEPT !["actions"] = @ + 1]
  BY <1>1 DEF Spending
<1>2. CASE spent' = [spent EXCEPT !["crashes"] = @ + 1]
  BY <1>2 DEF Spending
<1>3. CASE spent' = [spent EXCEPT !["unavailable"] = @ + 1]
  BY <1>3 DEF Spending
<1> QED
  BY <1>1, <1>2, <1>3

\* No edit begins.
LEMMA NoEdits ==
    ASSUME MaxEdits = 0, SilentInv
    PROVE  ~(UpdateBegin \/ Delete \/ EditStep)
<1>1. spent["edits"] = 0 /\ edit.pc = "idle"
  BY DEF SilentInv, Spending
<1>2. ~UpdateBegin /\ ~Delete
  BY <1>1 DEF UpdateBegin, Delete, Spend
<1>3. ~EditStep
  BY <1>1 DEF EditStep, UpdateWrite, SyncLoad, SyncSnapshot, CancelPendingTask, SyncDone,
              SyncInsert, SyncRegister
<1> QED
  BY <1>2, <1>3

\* A handler that begins after an acknowledge finds the schedule completed.
LEMMA SilentEnter ==
    ASSUME SilentInv, handler \in [Handlers -> Handling], NEW t \in Handlers, NEW i, Enter(t, i),
           UNCHANGED <<sched, acked>>
    PROVE  \A u \in Handlers : handler'[u].stale => /\ handler'[u].pc = "schedule"
                                                    /\ sched'.status = "completed"
<1> DEFINE x == [pc |-> "schedule", id |-> i, copy |-> tasks[i],
                 stale |-> tasks[i].chain \in acked]
<1>1. x.pc = "schedule" /\ (x.stale => acked # {})
  OBVIOUS
<1>2. CASE handler' = [handler EXCEPT ![t] = x]
  <2> HIDE DEF x
  <2>1. handler'[t] = x /\ \A u \in Handlers : u # t => handler'[u] = handler[u]
    BY <1>2
  <2> QED
    BY <1>1, <2>1 DEF SilentInv
<1>3. CASE handler' = handler
  BY <1>3 DEF SilentInv
<1> QED
  BY <1>2, <1>3 DEF Enter

\* A handler that goes on was not too late, one that ends is not late.
LEMMA SilentHandle ==
    ASSUME SilentInv, handler \in [Handlers -> Handling], NEW t \in Handlers, NEW x,
           handler' = [handler EXCEPT ![t] = x], x.stale => handler[t].stale,
           x.stale => x.pc = "schedule", sched' = sched
    PROVE  \A u \in Handlers : handler'[u].stale => /\ handler'[u].pc = "schedule"
                                                    /\ sched'.status = "completed"
<1>1. handler'[t] = x /\ \A u \in Handlers : u # t => handler'[u] = handler[u]
  OBVIOUS
<1> QED
  BY <1>1 DEF SilentInv

\* Every step of an unedited schedule keeps it silent after an acknowledge.
LEMMA SilentStep ==
    ASSUME MaxEdits = 0, IInv, SilentInv, [Next]_vars
    PROVE  SilentInv'
<1>1. handler \in [Handlers -> Handling] /\ sched \in Schedule /\ action \in Acting
  BY DEF IInv, Typed, BaseOK
<1>2. /\ spent \in Spending /\ edit.pc = "idle" /\ (acked # {} => sched.status = "completed")
      /\ (action.pc = "finish" => sched.status = "completed")
      /\ \A t \in Handlers : handler[t].stale => /\ handler[t].pc = "schedule"
                                                 /\ sched.status = "completed"
  BY DEF SilentInv
<1>3. \A u \in Handlers : Idle.stale = FALSE /\ Idle.pc = "idle"
  BY DEF Idle
<1>4. CASE UNCHANGED vars
  BY <1>2, <1>4 DEF vars, storage, timing, ghosts, SilentInv
<1>5. ASSUME NEW i \in DOMAIN tasks, ApplyCancel(i) PROVE SilentInv'
  BY <1>2, <1>5 DEF ApplyCancel, storage, ghosts, SilentInv
<1>6. ASSUME NEW i \in DOMAIN tasks, Fire(i) PROVE SilentInv'
  <2>1. /\ UNCHANGED <<sched, acked, spent, edit, action>> /\ Enter("runner", i)
        /\ "runner" \in Handlers
    BY <1>6 DEF Fire, storage, ghosts, Handlers
  <2> QED
    BY <1>1, <1>2, <2>1, SilentEnter DEF SilentInv
<1>7. ASSUME NEW t \in Handlers, Handle(t) PROVE SilentInv'
  <2>1. UNCHANGED <<sched, acked, edit, action>> /\ spent' \in Spending
    <3>1. UNCHANGED <<sched, acked, edit, action>>
      BY <1>7 DEF Handle, HandleLoadSchedule, HandleUpdate, HandleInsert, HandleRegister,
                  HandleAnnounce, storage, timing, ghosts
    <3>2. spent' = spent \/ spent' = [spent EXCEPT !["unavailable"] = @ + 1]
      BY <1>7 DEF Handle, HandleLoadSchedule, HandleUpdate, HandleInsert, HandleRegister,
                  HandleAnnounce, Refused, Spend
    <3> QED
      BY <1>2, <3>1, <3>2, SpentStays
  <2>2. ASSUME NEW x, handler' = [handler EXCEPT ![t] = x], x.stale => handler[t].stale,
               x.stale => x.pc = "schedule"
        PROVE  SilentInv'
    BY <1>1, <1>2, <2>1, <2>2, SilentHandle DEF SilentInv
  <2>3. handler[t] \in Handling
    BY <1>1
  <2>4. ASSUME NEW pc \in {"update", "insert", "announce"}, ~handler[t].stale,
               handler' = [handler EXCEPT ![t].pc = pc]
        PROVE  SilentInv'
    <3> DEFINE x == [handler[t] EXCEPT !.pc = pc]
    <3>1. handler' = [handler EXCEPT ![t] = x] /\ x.stale = handler[t].stale
      BY <1>1, <2>3, <2>4 DEF Handling
    <3> HIDE DEF x
    <3> QED
      BY <2>2, <2>4, <3>1
  <2>5. CASE HandleLoadSchedule(t)
    <3>1. CASE sched.status = "active"
      <4>1. ~handler[t].stale
        BY <1>2, <3>1
      <4>2. handler' = [handler EXCEPT ![t].pc = "update"]
        BY <1>1, <2>5, <3>1 DEF HandleLoadSchedule
      <4> QED
        BY <2>4, <4>1, <4>2
    <3>2. CASE sched.status # "active"
      <4>1. handler' = [handler EXCEPT ![t] = Idle]
        BY <1>1, <2>5, <3>2 DEF HandleLoadSchedule
      <4> QED
        BY <1>3, <2>2, <4>1
    <3> QED
      BY <3>1, <3>2
  <2>6. CASE HandleUpdate(t)
    <3>1. ~handler[t].stale
      BY <1>2, <2>6 DEF HandleUpdate
    <3>2. \/ handler' = [handler EXCEPT ![t].pc = "insert"]
          \/ handler' = [handler EXCEPT ![t].pc = "announce"]
      BY <2>6 DEF HandleUpdate
    <3> QED
      BY <2>4, <3>1, <3>2
  <2>7. CASE HandleInsert(t)
    <3>1. ~handler[t].stale
      BY <1>2, <2>7 DEF HandleInsert
    <3> DEFINE r == NewTask(handler[t].copy.chain, handler[t].copy.attempt + 1,
                            now + FollowUpDelay)
    <3>2. \/ handler' = [handler EXCEPT ![t].pc = "announce"]
          \/ handler' = [handler EXCEPT ![t].pc = "register", ![t].copy = r]
      BY <2>7 DEF HandleInsert
    <3> HIDE DEF r
    <3>3. CASE handler' = [handler EXCEPT ![t].pc = "register", ![t].copy = r]
      <4> DEFINE x == [handler[t] EXCEPT !.pc = "register", !.copy = r]
      <4>1. handler' = [handler EXCEPT ![t] = x] /\ x.stale = handler[t].stale
        BY <1>1, <2>3, <3>3 DEF Handling
      <4> HIDE DEF x
      <4> QED
        BY <2>2, <3>1, <4>1
    <3> QED
      BY <2>4, <3>1, <3>2, <3>3
  <2>8. CASE HandleRegister(t)
    <3>1. ~handler[t].stale /\ handler' = [handler EXCEPT ![t].pc = "announce"]
      BY <1>2, <2>8 DEF HandleRegister
    <3> QED
      BY <2>4, <3>1
  <2>9. CASE HandleAnnounce(t)
    <3>1. handler' = [handler EXCEPT ![t] = Idle]
      BY <2>9 DEF HandleAnnounce
    <3> QED
      BY <1>3, <2>2, <3>1
  <2> QED
    BY <1>7, <2>5, <2>6, <2>7, <2>8, <2>9 DEF Handle
<1>8. CASE BootStep
  <2>1. UNCHANGED <<sched, acked, edit, action>> /\ spent' \in Spending
    <3>1. UNCHANGED <<sched, acked, edit, action>>
      BY <1>8 DEF BootStep, BootBegin, BootRestore, BootSchedule, BootInsert, BootRegister,
                  BootDone, storage, timing, ghosts
    <3>2. spent' = spent \/ spent' = [spent EXCEPT !["unavailable"] = @ + 1]
      BY <1>8 DEF BootStep, BootBegin, BootRestore, BootSchedule, BootInsert, BootRegister,
                  BootDone, Refused, Spend
    <3> QED
      BY <1>2, <3>1, <3>2, SpentStays
  <2>2. handler' = handler \/ \E i : Enter("main", i)
    BY <1>8 DEF BootStep, BootBegin, BootRestore, BootSchedule, BootInsert, BootRegister,
                BootDone
  <2>3. CASE handler' = handler
    BY <1>2, <2>1, <2>3 DEF SilentInv
  <2>4. ASSUME NEW i, Enter("main", i) PROVE SilentInv'
    <3>1. "main" \in Handlers
      BY DEF Handlers
    <3> QED
      BY <1>1, <1>2, <2>1, <2>4, <3>1, SilentEnter DEF SilentInv
  <2> QED
    BY <2>2, <2>3, <2>4
<1>9. ASSUME NEW i \in DOMAIN tasks, NEW k \in {"acknowledge", "snooze"},
             NEW via \in {"voice", "im"}, ActionBegin(i, k, via)
      PROVE  SilentInv'
  <2>1. /\ UNCHANGED <<sched, acked, edit, handler>>
        /\ spent' = [spent EXCEPT !["actions"] = @ + 1]
        /\ action' = [NoAction EXCEPT !.pc = "snapshot", !.via = via, !.id = i, !.kind = k,
                                      !.copy = tasks[i]]
    BY <1>9 DEF ActionBegin, storage, timing, ghosts, Spend
  <2>2. spent' \in Spending /\ action'.pc = "snapshot"
    BY <1>2, <2>1, SpentStays DEF NoAction
  <2> QED
    BY <1>2, <2>1, <2>2 DEF SilentInv
<1>10. CASE ActionStep
  <2>1. UNCHANGED <<edit, handler>> /\ spent' \in Spending
    <3>1. UNCHANGED <<edit, handler>>
      BY <1>10 DEF ActionStep, ActionSnapshot, SnoozeWrite, AcknowledgeCancel, AcknowledgeOthers,
                   AcknowledgeLoad, CompleteLoad, CompleteStore, AcknowledgeFinish
    <3>2. spent' = spent \/ spent' = [spent EXCEPT !["unavailable"] = @ + 1]
      BY <1>10 DEF ActionStep, ActionSnapshot, SnoozeWrite, AcknowledgeCancel, AcknowledgeOthers,
                   AcknowledgeLoad, CompleteLoad, CompleteStore, AcknowledgeFinish, Refused, Spend
    <3> QED
      BY <1>2, <3>1, <3>2, SpentStays
  <2>2. ASSUME action'.pc # "finish", sched' = sched, acked' = acked PROVE SilentInv'
    BY <1>2, <2>1, <2>2 DEF SilentInv
  <2>3. CASE ActionSnapshot \/ AcknowledgeCancel \/ AcknowledgeOthers \/ CompleteLoad \/ SnoozeWrite
    <3>1. sched' = sched /\ acked' = acked
      BY <2>3 DEF ActionSnapshot, AcknowledgeCancel, AcknowledgeOthers, CompleteLoad, SnoozeWrite,
                  storage, ghosts
    <3>2. action'.pc # "finish"
      <4>1. CASE ActionSnapshot
        <5>1. action' = NoAction \/ action'.pc \in {"cancel", "snooze"}
          BY <1>1, <4>1 DEF ActionSnapshot, Acting
        <5> QED
          BY <5>1, Defaults
      <4>2. CASE AcknowledgeCancel
        <5>1. action' = NoAction \/ action'.pc \in {"cancel", "others"}
          BY <1>1, <4>2 DEF AcknowledgeCancel, Acting
        <5> QED
          BY <5>1, Defaults
      <4>3. CASE AcknowledgeOthers
        BY <1>1, <4>3 DEF AcknowledgeOthers, Acting
      <4>4. CASE CompleteLoad
        <5>1. action' = NoAction \/ action'.pc = "store"
          BY <1>1, <4>4 DEF CompleteLoad, Acting
        <5> QED
          BY <5>1, Defaults
      <4>5. CASE SnoozeWrite
        BY <4>5, Defaults DEF SnoozeWrite
      <4> QED
        BY <2>3, <4>1, <4>2, <4>3, <4>4, <4>5
    <3> QED
      BY <2>2, <3>1, <3>2
  <2>4. CASE AcknowledgeLoad
    <3>1. sched' = sched /\ acked' = acked
      BY <2>4 DEF AcknowledgeLoad, storage, ghosts
    <3>2. sched.status \in {"active", "completed", "cancelled"}
      BY <1>1 DEF Schedule
    <3>3. CASE sched.status = "completed"
      BY <1>2, <2>1, <3>1, <3>3 DEF SilentInv
    <3>4. CASE sched.status = "active"
      <4>1. action' = [action EXCEPT !.pc = "complete"]
        BY <2>4, <3>4 DEF AcknowledgeLoad
      <4>2. action'.pc = "complete"
        BY <1>1, <4>1 DEF Acting
      <4> QED
        BY <2>2, <3>1, <4>2
    <3>5. CASE sched.status = "cancelled"
      <4>1. action' = NoAction
        BY <2>4, <3>5 DEF AcknowledgeLoad
      <4> QED
        BY <2>2, <3>1, <4>1, Defaults
    <3> QED
      BY <3>2, <3>3, <3>4, <3>5
  <2>5. CASE CompleteStore
    <3>1. sched'.status = "completed" /\ acked' = acked
      BY <1>1, <2>5 DEF CompleteStore, Acting, Schedule, ghosts
    <3> QED
      BY <1>2, <2>1, <3>1 DEF SilentInv
  <2>6. CASE AcknowledgeFinish
    <3>1. sched' = sched /\ action.pc = "finish" /\ action' = NoAction
      BY <2>6 DEF AcknowledgeFinish
    <3> QED
      BY <1>2, <2>1, <3>1, Defaults DEF SilentInv
  <2> QED
    BY <1>10, <2>3, <2>4, <2>5, <2>6 DEF ActionStep
<1>11. CASE Tick
  BY <1>2, <1>11 DEF Tick, storage, ghosts, SilentInv
<1>12. CASE Crash
  <2>1. /\ sched' = sched /\ acked' = acked /\ edit' = NoEdit /\ action' = NoAction
        /\ handler' = [t \in Handlers |-> Idle] /\ spent' = [spent EXCEPT !["crashes"] = @ + 1]
    BY <1>12 DEF Crash, storage, Spend
  <2>2. spent' \in Spending
    BY <1>2, <2>1, SpentStays
  <2>3. \A t \in Handlers : ~handler'[t].stale
    BY <1>3, <2>1
  <2> QED
    BY <1>2, <2>1, <2>2, <2>3, Defaults DEF SilentInv
<1> QED
  BY <1>4, <1>5, <1>6, <1>7, <1>8, <1>9, <1>10, <1>11, <1>12, NoEdits DEF Next, TimingStep

\* A schedule that is not edited stays silent after an acknowledge.
LEMMA SilentAlways ==
    ASSUME MaxEdits = 0
    PROVE  Spec => []SilentInv
<1>1. Init => SilentInv
  <2> SUFFICES ASSUME Init PROVE SilentInv
    OBVIOUS
  <2>1. /\ spent = [edits |-> 0, actions |-> 0, crashes |-> 0, unavailable |-> 0]
        /\ edit = NoEdit /\ action = NoAction /\ acked = {}
        /\ handler = [t \in Handlers |-> Idle]
    BY DEF Init
  <2>2. \A t \in Handlers : handler[t].stale = FALSE
    BY <2>1 DEF Idle
  <2>3. spent \in Spending
    BY <2>1 DEF Spending
  <2> QED
    BY <2>1, <2>2, <2>3, Defaults DEF SilentInv
<1>2. IInv /\ SilentInv /\ [Next]_vars => SilentInv'
  BY SilentStep
<1> QED
  BY <1>1, <1>2, Inductive, PTL DEF Spec

\* After a successful acknowledge no handler that begins later announces a task of the chain
\* (AcknowledgeSilencesChain), for a schedule that is not edited.
THEOREM AcknowledgedIsSilent ==
    ASSUME MaxEdits = 0
    PROVE  Spec => []AcknowledgeSilencesChain
<1>1. SilentInv => AcknowledgeSilencesChain
  BY DEF SilentInv, AcknowledgeSilencesChain, Announcing
<1> QED
  BY <1>1, SilentAlways, PTL

\* What a step of an unedited schedule does to the recorded actions.
ActionsKept == \A i \in DOMAIN tasks : tasks[i].action # "none" => tasks'[i].action = tasks[i].action

\* A step keeps row k fresh, if it was; a new row is fresh.
StaysFresh(k) ==
    \/ k \in DOMAIN tasks /\ Same(tasks'[k], tasks[k]) /\ (Fresh(tasks[k]) => Fresh(tasks'[k]))
    \/ k \notin DOMAIN tasks /\ Fresh(tasks'[k])

\* A handler that does not move keeps what it needs, when its rows stay fresh.
LEMMA KeepHandlerStays ==
    ASSUME NEW t \in Handlers, Stands(t), KeepHandler(t), Kept, handler'[t] = handler[t],
           handler[t].pc \in {"schedule", "update"} => StaysFresh(handler[t].id),
           handler[t].pc = "register" =>
             \A j \in DOMAIN tasks' : Same(handler[t].copy, tasks'[j]) => StaysFresh(j)
    PROVE  KeepHandler(t)'
<1> DEFINE h == handler[t]
<1>1. h.pc # "idle" => h.id \in DOMAIN tasks
  BY DEF Stands, Busy
<1>2. h.pc \in {"schedule", "update"} => Fresh(tasks'[h.id]) /\ h.copy.action = "none"
  BY <1>1 DEF KeepHandler, StaysFresh
<1>3. ASSUME h.pc = "register", NEW j \in DOMAIN tasks', Same(h.copy, tasks'[j])
      PROVE  Fresh(tasks'[j])
  <2>1. StaysFresh(j)
    BY <1>3
  <2>2. j \in DOMAIN tasks => Same(h.copy, tasks[j])
    BY <1>3, <2>1 DEF StaysFresh, Same
  <2> QED
    BY <1>3, <2>1, <2>2 DEF StaysFresh, KeepHandler
<1>4. h.pc = "register" => Fresh(h.copy)
  BY DEF KeepHandler
<1> QED
  BY <1>2, <1>3, <1>4 DEF KeepHandler

\* A step that writes over fresh rows only, and keeps the recorded actions, does not disturb
\* the action under way.
LEMMA KeepActionStays ==
    ASSUME ActionInv, KeepAction, action' = action,
           \A i \in DOMAIN tasks : /\ tasks'[i].action = tasks[i].action
                                   /\ ~Fresh(tasks[i]) => tasks'[i].business = tasks[i].business
    PROVE  KeepAction'
<1>1. action.pc # "idle" => action.id \in DOMAIN tasks /\ ~Fresh(tasks[action.id])
  BY DEF ActionInv, KeepAction, Fresh
<1>2. DOMAIN action.snap \subseteq DOMAIN tasks
  BY DEF ActionInv, Copies
<1> QED
  BY <1>1, <1>2 DEF KeepAction

\* Rows that stay as they are.
LEMMA FreshByStuttering ==
    ASSUME tasks' = tasks
    PROVE  ActionsKept /\ \A k \in DOMAIN tasks' : StaysFresh(k)
  BY DEF ActionsKept, StaysFresh, Same

\* A step that moves neither the handlers nor Start, and keeps the fresh rows fresh.
LEMMA KeepOutside ==
    ASSUME IInv, KeepInv, Kept, DOMAIN tasks' = DOMAIN tasks, UNCHANGED <<handler, boot>>,
           \A k \in DOMAIN tasks : StaysFresh(k)
    PROVE  KeepRows' /\ KeepBoot' /\ \A t \in Handlers : KeepHandler(t)'
<1>1. HandlerInv /\ BootInv /\ KeepRows /\ KeepBoot /\ \A t \in Handlers : KeepHandler(t)
  BY DEF IInv, KeepInv
<1>2. KeepRows'
  BY <1>1 DEF KeepRows, Kept
<1>3. KeepBoot'
  <2>1. boot.todo \subseteq DOMAIN tasks
    BY <1>1 DEF BootInv, Copies
  <2> QED
    BY <1>1, <2>1 DEF KeepBoot, StaysFresh
<1>4. ASSUME NEW t \in Handlers PROVE KeepHandler(t)'
  <2>1. Stands(t) /\ KeepHandler(t)
    BY <1>1 DEF HandlerInv
  <2>2. handler[t].pc \in {"schedule", "update"} => StaysFresh(handler[t].id)
    BY <2>1 DEF Stands, Busy
  <2> QED
    BY <2>1, <2>2, KeepHandlerStays
<1> QED
  BY <1>2, <1>3, <1>4

\* The steps of an action.
LEMMA KeepActionSteps ==
    ASSUME IInv, KeepInv,
           ActionStep \/ \E i \in DOMAIN tasks, k \in {"acknowledge", "snooze"},
                            via \in {"voice", "im"} : ActionBegin(i, k, via)
    PROVE  KeepInv' /\ ActionsKept
<1>1. /\ tasks \in Seq(Task) /\ action \in Acting /\ ActionInv /\ KeepAction
  BY DEF IInv, Typed, BaseOK, KeepInv
<1>2. UNCHANGED <<handler, boot>>
  BY DEF ActionStep, ActionSnapshot, SnoozeWrite, AcknowledgeCancel, AcknowledgeOthers,
         AcknowledgeLoad, CompleteLoad, CompleteStore, AcknowledgeFinish, ActionBegin
<1>3. ASSUME tasks' = tasks, KeepAction' PROVE KeepInv' /\ ActionsKept
  <2>1. Kept /\ DOMAIN tasks' = DOMAIN tasks
    BY <1>1, <1>3, KeptByStuttering
  <2>2. ActionsKept /\ \A k \in DOMAIN tasks : StaysFresh(k)
    BY <1>3, FreshByStuttering
  <2> QED
    BY <1>2, <1>3, <2>1, <2>2, KeepOutside DEF KeepInv
<1>4. action' = NoAction => KeepAction'
  BY Defaults DEF KeepAction
<1>5. ASSUME tasks' = tasks, action.pc # "idle", action'.id = action.id, action'.copy = action.copy,
             action'.pc \notin {"cancel", "others"}
      PROVE  KeepAction'
  BY <1>1, <1>5 DEF KeepAction
<1>6. ASSUME NEW i \in DOMAIN tasks, NEW k \in {"acknowledge", "snooze"},
             NEW via \in {"voice", "im"}, ActionBegin(i, k, via)
      PROVE  KeepInv' /\ ActionsKept
  <2>1. /\ action' = [NoAction EXCEPT !.pc = "snapshot", !.via = via, !.id = i, !.kind = k,
                                      !.copy = tasks[i]]
        /\ tasks[i].business \in {"waiting", "exhausted"} /\ tasks[i].action = "none"
        /\ tasks' = tasks
    BY <1>6 DEF ActionBegin, storage
  <2>2. tasks[i] \in Task /\ i \in Nat
    BY <1>1
  <2>3. /\ action'.pc = "snapshot" /\ action'.id = i /\ action'.copy = tasks[i]
    BY <2>1, <2>2, Defaults DEF Acting
  <2>4. KeepAction'
    BY <2>1, <2>3 DEF KeepAction
  <2> QED
    BY <1>3, <2>1, <2>4
<1>7. CASE ActionSnapshot
  <2>1. action.pc = "snapshot" /\ tasks' = tasks
    BY <1>7 DEF ActionSnapshot, storage
  <2> DEFINE todo == SameChain(tasks) \cap PendingIn(tasks)
  <2> HIDE DEF todo
  <2>2. CASE action' = [action EXCEPT !.pc = "cancel", !.snap = tasks, !.todo = todo]
    <3>1. /\ action'.pc = "cancel" /\ action'.snap = tasks
          /\ action'.id = action.id /\ action'.copy = action.copy
      BY <1>1, <2>2 DEF Acting
    <3>2. KeepAction'
      BY <1>1, <2>1, <3>1 DEF KeepAction
    <3> QED
      BY <1>3, <2>1, <3>2
  <2>3. CASE action' = [action EXCEPT !.pc = "snooze"]
    <3>1. action'.pc = "snooze" /\ action'.id = action.id /\ action'.copy = action.copy
      BY <1>1, <2>3 DEF Acting
    <3> QED
      BY <1>3, <1>5, <2>1, <3>1
  <2>4. CASE action' = NoAction
    BY <1>3, <1>4, <2>1, <2>4
  <2> QED
    BY <1>7, <2>2, <2>3, <2>4 DEF ActionSnapshot, todo
<1>8. CASE AcknowledgeCancel
  <2>1. action.pc = "cancel" /\ tasks' = tasks
    BY <1>8 DEF AcknowledgeCancel, storage
  <2> DEFINE others == SameChain(action.snap) \ {action.id}
             i == Smallest(action.todo)
  <2>2. action.id \notin others
    OBVIOUS
  <2> HIDE DEF others, i
  <2>3. CASE action' = [action EXCEPT !.pc = "others", !.todo = others]
    <3>1. /\ action'.pc = "others" /\ action'.snap = action.snap
          /\ action'.id = action.id /\ action'.copy = action.copy /\ action'.todo = others
      BY <1>1, <2>3 DEF Acting
    <3>2. KeepAction'
      BY <1>1, <2>1, <2>2, <3>1 DEF KeepAction
    <3> QED
      BY <1>3, <2>1, <3>2
  <2>4. CASE action' = [action EXCEPT !.todo = @ \ {i}]
    <3>1. /\ action'.pc = "cancel" /\ action'.snap = action.snap
          /\ action'.id = action.id /\ action'.copy = action.copy
      BY <1>1, <2>1, <2>4 DEF Acting
    <3>2. KeepAction'
      BY <1>1, <2>1, <3>1 DEF KeepAction
    <3> QED
      BY <1>3, <2>1, <3>2
  <2>5. CASE action' = NoAction
    BY <1>3, <1>4, <2>1, <2>5
  <2> QED
    BY <1>8, <2>3, <2>4, <2>5 DEF AcknowledgeCancel, others, i
<1>9. CASE AcknowledgeLoad \/ CompleteLoad \/ CompleteStore
  <2>1. action.pc # "idle" /\ tasks' = tasks
    BY <1>9 DEF AcknowledgeLoad, CompleteLoad, CompleteStore, storage
  <2>2. \/ action' = NoAction
        \/ \E pc \in {"complete", "finish"} : action' = [action EXCEPT !.pc = pc]
        \/ action' = [action EXCEPT !.pc = "store", !.row = sched]
    <3>1. CASE AcknowledgeLoad
      <4>1. sched.status \in {"active", "completed", "cancelled"}
        BY DEF IInv, Typed, BaseOK, Schedule
      <4>2. CASE sched.status = "active"
        BY <3>1, <4>2 DEF AcknowledgeLoad
      <4>3. CASE sched.status = "completed"
        BY <3>1, <4>3 DEF AcknowledgeLoad
      <4>4. CASE sched.status = "cancelled"
        BY <3>1, <4>4 DEF AcknowledgeLoad
      <4> QED
        BY <4>1, <4>2, <4>3, <4>4
    <3>2. CASE CompleteLoad
      BY <3>2 DEF CompleteLoad
    <3>3. CASE CompleteStore
      BY <3>3 DEF CompleteStore
    <3> QED
      BY <1>9, <3>1, <3>2, <3>3
  <2>3. \/ action' = NoAction
        \/ /\ action'.pc \notin {"cancel", "others"} /\ action'.id = action.id
           /\ action'.copy = action.copy
    BY <1>1, <2>2 DEF Acting
  <2> QED
    BY <1>3, <1>4, <1>5, <2>1, <2>3
<1>10. CASE AcknowledgeOthers
  <2>1. /\ action.pc = "others" /\ action.todo \in SUBSET Nat
        /\ action.todo \subseteq DOMAIN action.snap /\ action.snap \in Seq(Task)
        /\ Copies(action.snap) /\ action.id \notin action.todo /\ action.id \in DOMAIN tasks
    BY <1>1, <1>10 DEF AcknowledgeOthers, ActionInv, Acting, KeepAction
  <2>2. CASE tasks' = tasks /\ action' = [action EXCEPT !.pc = "load"]
    <3>1. /\ action'.pc = "load" /\ action'.id = action.id /\ action'.copy = action.copy
      BY <1>1, <2>2 DEF Acting
    <3> QED
      BY <1>3, <1>5, <2>1, <2>2, <3>1
  <2> DEFINE i == Smallest(action.todo)
             s == action.snap[i]
             r == Closed(s)
  <2>3. CASE /\ action.todo # {} /\ tasks' = [tasks EXCEPT ![i] = r]
             /\ action' = [action EXCEPT !.todo = @ \ {i}]
    <3>1. i \in action.todo
      BY <2>1, <2>3, SmallestIsIn
    <3>2. /\ i \in DOMAIN tasks /\ s \in Task /\ Same(s, tasks[i])
          /\ i # action.id /\ s.action = tasks[i].action
      BY <1>1, <2>1, <3>1 DEF Copies, KeepAction
    <3> HIDE DEF i, s
    <3>3. /\ r \in Task /\ r.chain = s.chain /\ r.attempt = s.attempt
          /\ r.timer # "pending" /\ r.action = s.action
          /\ r.business \notin {"waiting", "exhausted"}
      BY <3>2 DEF Closed, Task, Pending, Business, Timer
    <3>4. Same(r, tasks[i]) /\ ~Pending(r) /\ r.action = tasks[i].action
      BY <3>2, <3>3 DEF Same, Pending
    <3> HIDE DEF r
    <3>5. /\ Kept /\ DOMAIN tasks' = DOMAIN tasks
          /\ tasks'[i] = r /\ \A j \in DOMAIN tasks : j # i => tasks'[j] = tasks[j]
      BY <1>1, <2>3, <3>2, <3>3, <3>4, KeptByWriting, RowWritten
    <3>6. \A k \in DOMAIN tasks : tasks'[k].action = tasks[k].action
      BY <3>4, <3>5
    <3>7. \A k \in DOMAIN tasks : StaysFresh(k)
      BY <3>3, <3>4, <3>5 DEF StaysFresh, Fresh, Kept
    <3>8. /\ action'.pc = "others" /\ action'.snap = action.snap
          /\ action'.id = action.id /\ action'.copy = action.copy
          /\ action'.todo \subseteq action.todo
      BY <1>1, <2>1, <2>3 DEF Acting
    <3>9. KeepAction'
      <4>1. DOMAIN action.snap \subseteq DOMAIN tasks
        BY <2>1 DEF Copies
      <4>2. tasks'[action.id] = tasks[action.id]
        BY <2>1, <3>2, <3>5
      <4> QED
        BY <1>1, <2>1, <3>6, <3>8, <4>1, <4>2 DEF KeepAction
    <3> QED
      BY <1>2, <3>5, <3>6, <3>7, <3>9, KeepOutside DEF KeepInv, ActionsKept
  <2> QED
    BY <1>10, <2>2, <2>3 DEF AcknowledgeOthers
<1>11. ASSUME NEW r \in Task, action.pc # "idle", r.chain = action.copy.chain,
              r.attempt = action.copy.attempt, r.timer = action.copy.timer,
              tasks' = [tasks EXCEPT ![action.id] = r], action' = NoAction
       PROVE  KeepInv' /\ ActionsKept
  <2>1. /\ action.id \in DOMAIN tasks /\ Same(r, tasks[action.id]) /\ ~Pending(r)
        /\ tasks[action.id].action = "none" /\ ~Fresh(tasks[action.id])
    BY <1>1, <1>11 DEF ActionInv, Same, Pending, KeepAction, Fresh
  <2>2. /\ Kept /\ DOMAIN tasks' = DOMAIN tasks
        /\ \A j \in DOMAIN tasks : j # action.id => tasks'[j] = tasks[j]
    BY <1>1, <1>11, <2>1, KeptByWriting, RowWritten
  <2>3. \A k \in DOMAIN tasks : StaysFresh(k)
    BY <2>1, <2>2 DEF StaysFresh, Kept
  <2>4. ActionsKept
    BY <2>1, <2>2 DEF ActionsKept
  <2> QED
    BY <1>2, <1>4, <1>11, <2>2, <2>3, <2>4, KeepOutside DEF KeepInv
<1>12. CASE SnoozeWrite
  <2> DEFINE r == [action.copy EXCEPT !.business = "snoozed", !.action = "snooze"]
  <2>1. /\ tasks' = [tasks EXCEPT ![action.id] = r] /\ action' = NoAction
        /\ action.pc = "snooze"
    BY <1>12 DEF SnoozeWrite
  <2>2. /\ r \in Task /\ r.chain = action.copy.chain
        /\ r.attempt = action.copy.attempt /\ r.timer = action.copy.timer
    BY <1>1 DEF Acting, Task, Business
  <2> HIDE DEF r
  <2> QED
    BY <1>11, <2>1, <2>2
<1>13. CASE AcknowledgeFinish
  <2> DEFINE r == [action.copy EXCEPT !.business = "acknowledged", !.action = "acknowledge"]
  <2>1. /\ tasks' = [tasks EXCEPT ![action.id] = r] /\ action' = NoAction
        /\ action.pc = "finish"
    BY <1>13 DEF AcknowledgeFinish
  <2>2. /\ r \in Task /\ r.chain = action.copy.chain
        /\ r.attempt = action.copy.attempt /\ r.timer = action.copy.timer
    BY <1>1 DEF Acting, Task, Business
  <2> HIDE DEF r
  <2> QED
    BY <1>11, <2>1, <2>2
<1> QED
  BY <1>6, <1>7, <1>8, <1>9, <1>10, <1>12, <1>13 DEF ActionStep

\* A step that does not move the action, writes over fresh rows only and keeps the recorded
\* actions.
Harmless ==
    /\ Kept /\ action' = action
    /\ \A i \in DOMAIN tasks : /\ tasks'[i].action = tasks[i].action
                               /\ ~Fresh(tasks[i]) => tasks'[i].business = tasks[i].business

\* Rows that do not change.
LEMMA HarmlessByStuttering ==
    ASSUME tasks \in Seq(Task), tasks' = tasks, action' = action
    PROVE  Harmless /\ \A k \in DOMAIN tasks' : StaysFresh(k)
<1>1. Kept
  BY KeptByStuttering
<1> QED
  BY <1>1, FreshByStuttering DEF Harmless

\* A fresh row is written over, or a row's timer status only.
LEMMA HarmlessByWriting ==
    ASSUME tasks \in Seq(Task), action' = action, NEW i \in DOMAIN tasks, NEW r \in Task,
           tasks' = [tasks EXCEPT ![i] = r], Same(r, tasks[i]), ~Pending(r),
           r.action = tasks[i].action, Fresh(tasks[i]) \/ r.business = tasks[i].business
    PROVE  /\ Harmless
           /\ \A k \in DOMAIN tasks' :
                k # i \/ Fresh(r) \/ r.business = tasks[i].business => StaysFresh(k)
<1>1. /\ Kept /\ DOMAIN tasks' = DOMAIN tasks
      /\ tasks'[i] = r /\ \A j \in DOMAIN tasks : j # i => tasks'[j] = tasks[j]
  BY KeptByWriting, RowWritten
<1>2. \A k \in DOMAIN tasks :
        k # i \/ Fresh(r) \/ r.business = tasks[i].business => StaysFresh(k)
  BY <1>1 DEF StaysFresh, Kept, Fresh
<1> QED
  BY <1>1, <1>2 DEF Harmless

\* A fresh row is added.
LEMMA HarmlessByAdding ==
    ASSUME tasks \in Seq(Task), action' = action, NEW r \in Task, tasks' = Append(tasks, r), Fresh(r)
    PROVE  Harmless /\ \A k \in DOMAIN tasks' : StaysFresh(k)
<1> DEFINE n == Len(tasks) + 1
<1>1. /\ DOMAIN tasks' = DOMAIN tasks \cup {n} /\ n \notin DOMAIN tasks
      /\ tasks'[n] = r /\ \A j \in DOMAIN tasks : tasks'[j] = tasks[j]
  BY RowAdded
<1> HIDE DEF n
<1>2. Kept
  BY KeptByAdding
<1>3. \A k \in DOMAIN tasks' : StaysFresh(k)
  BY <1>1 DEF StaysFresh, Same
<1> QED
  BY <1>1, <1>2, <1>3 DEF Harmless

\* A pending row stays as it is or is a new one.
LEMMA KeepRowsStay ==
    ASSUME KeepRows, Kept, \A k \in DOMAIN tasks' \ DOMAIN tasks : StaysFresh(k)
    PROVE  KeepRows'
  BY DEF KeepRows, Kept, StaysFresh

\* A step of handler t, which alone may end the freshness of the row it has taken.
LEMMA KeepHandles ==
    ASSUME IInv, KeepInv, NEW t \in Handlers, Busy(t), Harmless, boot' = boot,
           \A k \in DOMAIN tasks' : k # handler[t].id => StaysFresh(k),
           \A u \in Handlers : u # t => handler'[u] = handler[u], KeepHandler(t)'
    PROVE  KeepInv' /\ ActionsKept
<1>1. /\ HandlerInv /\ BootInv /\ OwnInv /\ ActionInv
      /\ KeepRows /\ KeepBoot /\ KeepAction /\ \A u \in Handlers : KeepHandler(u)
  BY DEF IInv, KeepInv
<1> DEFINE k == handler[t].id
<1>2. k \in DOMAIN tasks /\ Taken(k)
  BY <1>1 DEF HandlerInv, Stands, Taken
<1>3. KeepRows'
  BY <1>1, <1>2, KeepRowsStay DEF Harmless
<1>4. KeepBoot'
  <2>1. boot.todo \subseteq DOMAIN tasks /\ k \notin boot.todo
    BY <1>1 DEF BootInv, Copies, OwnInv
  <2>2. \A i \in boot.todo : StaysFresh(i)
    BY <2>1 DEF Harmless, Kept
  <2> QED
    BY <1>1, <2>1, <2>2 DEF KeepBoot, StaysFresh
<1>5. ASSUME NEW u \in Handlers, u # t PROVE KeepHandler(u)'
  <2>1. Stands(u) /\ KeepHandler(u) /\ Kept
    BY <1>1 DEF HandlerInv, Harmless
  <2>2. handler[u].pc \in {"schedule", "update"} => StaysFresh(handler[u].id)
    <3>1. ASSUME Busy(u) PROVE handler[u].id # k /\ handler[u].id \in DOMAIN tasks'
      BY <1>1, <1>5, <2>1, <3>1 DEF OwnInv, Stands, Kept
    <3> QED
      BY <3>1 DEF Busy
  <2>3. ASSUME handler[u].pc = "register", NEW j \in DOMAIN tasks', Same(handler[u].copy, tasks'[j])
        PROVE  StaysFresh(j)
    <3>1. ASSUME j = k PROVE FALSE
      <4>1. Same(handler[u].copy, tasks[k])
        BY <1>2, <2>1, <2>3, <3>1 DEF Kept, Same
      <4> QED
        BY <1>1, <1>2, <2>3, <4>1 DEF OwnInv
    <3> QED
      BY <3>1
  <2> QED
    BY <1>5, <2>1, <2>2, <2>3, KeepHandlerStays
<1>6. KeepAction'
  BY <1>1, KeepActionStays DEF Harmless
<1> QED
  BY <1>3, <1>4, <1>5, <1>6 DEF KeepInv, Harmless, ActionsKept

\* The steps of a handler.
LEMMA KeepHandleSteps ==
    ASSUME IInv, KeepInv, NEW t \in Handlers, Handle(t)
    PROVE  KeepInv' /\ ActionsKept
<1>1. /\ handler \in [Handlers -> Handling] /\ tasks \in Seq(Task) /\ now \in Nat
      /\ HandlerInv /\ RowInv /\ OwnInv
  BY DEF IInv, Typed, BaseOK
<1> DEFINE h == handler[t]
<1>2. h \in Handling /\ Stands(t) /\ KeepHandler(t)
  BY <1>1 DEF HandlerInv, KeepInv
<1>3. UNCHANGED <<boot, action>> /\ Busy(t)
  BY DEF Handle, HandleLoadSchedule, HandleUpdate, HandleInsert, HandleRegister, HandleAnnounce,
         storage, timing, ghosts, Busy
<1>4. h.id \in DOMAIN tasks /\ h.copy \in Task
  BY <1>2, <1>3 DEF Stands, Handling
<1>5. ASSUME NEW x, handler' = [handler EXCEPT ![t] = x], Harmless,
             \A k \in DOMAIN tasks' : k # h.id => StaysFresh(k),
             x.pc \in {"idle", "insert", "announce"}
      PROVE  KeepInv' /\ ActionsKept
  <2>1. handler'[t] = x /\ \A u \in Handlers : u # t => handler'[u] = handler[u]
    BY <1>1, <1>5
  <2>2. KeepHandler(t)'
    BY <1>5, <2>1 DEF KeepHandler
  <2> QED
    BY <1>3, <1>5, <2>1, <2>2, KeepHandles
<1>6. ASSUME NEW pc \in {"insert", "announce"}, handler' = [handler EXCEPT ![t].pc = pc], Harmless,
             \A k \in DOMAIN tasks' : k # h.id => StaysFresh(k)
      PROVE  KeepInv' /\ ActionsKept
  <2> DEFINE x == [h EXCEPT !.pc = pc]
  <2>1. handler' = [handler EXCEPT ![t] = x] /\ x.pc = pc
    BY <1>1, <1>2, <1>6 DEF Handling
  <2> HIDE DEF x
  <2> QED
    BY <1>5, <1>6, <2>1
<1>7. tasks' = tasks => Harmless /\ \A k \in DOMAIN tasks' : StaysFresh(k)
  BY <1>1, <1>3, HarmlessByStuttering
<1>8. CASE HandleLoadSchedule(t)
  <2>1. tasks' = tasks /\ h.pc = "schedule"
    BY <1>8 DEF HandleLoadSchedule, storage
  <2>2. CASE handler' = [handler EXCEPT ![t] = Idle]
    BY <1>5, <1>7, <2>1, <2>2, Defaults
  <2>3. CASE handler' = [handler EXCEPT ![t] = [h EXCEPT !.pc = "update"]]
    <3> DEFINE x == [h EXCEPT !.pc = "update"]
    <3>1. x.pc = "update" /\ x.id = h.id /\ x.copy = h.copy
      BY <1>2 DEF Handling
    <3> HIDE DEF x
    <3>2. handler'[t] = x /\ \A u \in Handlers : u # t => handler'[u] = handler[u]
      BY <1>1, <2>3 DEF x
    <3>3. KeepHandler(t)'
      BY <1>2, <2>1, <3>1, <3>2 DEF KeepHandler
    <3> QED
      BY <1>3, <1>7, <2>1, <3>2, <3>3, KeepHandles
  <2> QED
    BY <1>1, <1>8, <2>2, <2>3 DEF HandleLoadSchedule
<1>9. CASE HandleUpdate(t)
  <2> DEFINE r == Triggered(h.copy)
  <2>1. /\ tasks' = [tasks EXCEPT ![h.id] = r] /\ h.pc = "update"
        /\ \/ handler' = [handler EXCEPT ![t].pc = "insert"]
           \/ handler' = [handler EXCEPT ![t].pc = "announce"]
    BY <1>9 DEF HandleUpdate
  <2>2. /\ Same(h.copy, tasks[h.id]) /\ h.copy.action = "none" /\ Fresh(tasks[h.id])
    BY <1>2, <2>1 DEF Stands, KeepHandler
  <2>3. /\ r \in Task /\ r.chain = h.copy.chain /\ r.attempt = h.copy.attempt
        /\ r.timer = "triggered" /\ r.action = h.copy.action
    BY <1>4 DEF Triggered, Task, Business, Timer
  <2> HIDE DEF r
  <2>4. Same(r, tasks[h.id]) /\ ~Pending(r) /\ r.action = tasks[h.id].action
    BY <2>2, <2>3 DEF Same, Pending, Fresh
  <2>5. Harmless /\ \A k \in DOMAIN tasks' : k # h.id => StaysFresh(k)
    BY <1>1, <1>3, <1>4, <2>1, <2>2, <2>3, <2>4, HarmlessByWriting
  <2> QED
    BY <1>6, <2>1, <2>5
<1>10. CASE HandleInsert(t)
  <2> DEFINE r == NewTask(h.copy.chain, h.copy.attempt + 1, now + FollowUpDelay)
  <2>1. h.pc = "insert" /\ h.copy.attempt < MaximumAttempts
    BY <1>2, <1>10 DEF HandleInsert, Stands
  <2>2. r \in Task /\ Fresh(r)
    <3>1. /\ h.copy.chain \in Nat /\ h.copy.attempt \in 1 .. MaximumAttempts
          /\ MaximumAttempts \in Nat
      BY <1>4, ReminderAssumption DEF Task
    <3>2. h.copy.attempt + 1 \in 1 .. MaximumAttempts
      BY <2>1, <3>1
    <3>3. now + FollowUpDelay \in Nat
      BY <1>1, ReminderAssumption
    <3> QED
      BY <3>1, <3>2, <3>3 DEF NewTask, Task, Business, Timer, Fresh
  <2>3. \/ tasks' = tasks /\ handler' = [handler EXCEPT ![t].pc = "announce"]
        \/ /\ ~HasAttempt(r.chain, r.attempt) /\ tasks' = Append(tasks, r)
           /\ handler' = [handler EXCEPT ![t].pc = "register", ![t].copy = r]
    BY <1>10 DEF HandleInsert
  <2> HIDE DEF r
  <2>4. CASE tasks' = tasks /\ handler' = [handler EXCEPT ![t].pc = "announce"]
    BY <1>6, <1>7, <2>4
  <2>5. CASE /\ ~HasAttempt(r.chain, r.attempt) /\ tasks' = Append(tasks, r)
             /\ handler' = [handler EXCEPT ![t].pc = "register", ![t].copy = r]
    <3> DEFINE x == [h EXCEPT !.pc = "register", !.copy = r]
               n == Len(tasks) + 1
    <3>1. x.pc = "register" /\ x.copy = r /\ handler' = [handler EXCEPT ![t] = x]
      BY <1>1, <1>2, <2>5 DEF Handling
    <3> HIDE DEF x
    <3>2. handler'[t] = x /\ \A u \in Handlers : u # t => handler'[u] = handler[u]
      BY <1>1, <3>1
    <3>3. Harmless /\ \A k \in DOMAIN tasks' : StaysFresh(k)
      BY <1>1, <1>3, <2>2, <2>5, HarmlessByAdding
    <3>4. /\ DOMAIN tasks' = DOMAIN tasks \cup {n} /\ tasks'[n] = r
          /\ \A j \in DOMAIN tasks : tasks'[j] = tasks[j]
      BY <1>1, <2>2, <2>5, RowAdded
    <3> HIDE DEF n
    <3>5. \A j \in DOMAIN tasks' : Same(r, tasks'[j]) => Fresh(tasks'[j])
      BY <2>2, <2>5, <3>4 DEF HasAttempt, Same
    <3>6. KeepHandler(t)'
      BY <2>2, <3>1, <3>2, <3>5 DEF KeepHandler
    <3> QED
      BY <1>3, <3>2, <3>3, <3>6, KeepHandles
  <2> QED
    BY <2>3, <2>4, <2>5
<1>11. CASE HandleRegister(t)
  <2> DEFINE j == RowOf(h.copy)
             r == [h.copy EXCEPT !.timer = "failed"]
  <2>1. /\ handler' = [handler EXCEPT ![t].pc = "announce"] /\ h.pc = "register"
        /\ tasks' = tasks \/ tasks' = [tasks EXCEPT ![j] = r]
    BY <1>11 DEF HandleRegister
  <2>2. CASE tasks' = tasks
    BY <1>6, <1>7, <2>1, <2>2
  <2>3. CASE tasks' = [tasks EXCEPT ![j] = r]
    <3>1. /\ j \in DOMAIN tasks
          /\ tasks[j].chain = h.copy.chain /\ tasks[j].attempt = h.copy.attempt
      <4>1. \E k \in DOMAIN tasks :
              tasks[k].chain = h.copy.chain /\ tasks[k].attempt = h.copy.attempt
        BY <1>2, <2>1 DEF Stands, Same
      <4> QED
        BY <4>1 DEF RowOf
    <3> HIDE DEF j
    <3>2. Fresh(tasks[j]) /\ Fresh(h.copy)
      BY <1>2, <2>1, <3>1 DEF KeepHandler, Same
    <3>3. /\ r \in Task /\ r.chain = h.copy.chain /\ r.attempt = h.copy.attempt
          /\ r.timer = "failed" /\ r.action = h.copy.action /\ r.business = h.copy.business
      BY <1>4 DEF Task, Timer
    <3> HIDE DEF r
    <3>4. Same(r, tasks[j]) /\ ~Pending(r) /\ r.action = tasks[j].action /\ Fresh(r)
      BY <3>1, <3>2, <3>3 DEF Same, Pending, Fresh
    <3>5. Harmless /\ \A k \in DOMAIN tasks' : StaysFresh(k)
      BY <1>1, <1>3, <2>3, <3>1, <3>2, <3>3, <3>4, HarmlessByWriting
    <3> QED
      BY <1>6, <2>1, <3>5
  <2> QED
    BY <2>1, <2>2, <2>3
<1>12. CASE HandleAnnounce(t)
  <2>1. tasks' = tasks /\ handler' = [handler EXCEPT ![t] = Idle]
    BY <1>12 DEF HandleAnnounce, storage
  <2> QED
    BY <1>5, <1>7, <2>1, Defaults
<1> QED
  BY <1>8, <1>9, <1>10, <1>11, <1>12 DEF Handle

\* A step that moves no handler, and keeps the fresh rows fresh.
LEMMA KeepStarts ==
    ASSUME IInv, KeepInv, Harmless, handler' = handler, KeepBoot',
           \A k \in DOMAIN tasks' : StaysFresh(k)
    PROVE  KeepInv' /\ ActionsKept
<1>1. /\ HandlerInv /\ ActionInv
      /\ KeepRows /\ KeepAction /\ \A u \in Handlers : KeepHandler(u)
  BY DEF IInv, KeepInv
<1>2. KeepRows'
  BY <1>1, KeepRowsStay DEF Harmless
<1>3. ASSUME NEW t \in Handlers PROVE KeepHandler(t)'
  <2>1. Stands(t) /\ KeepHandler(t) /\ Kept
    BY <1>1 DEF HandlerInv, Harmless
  <2>2. handler[t].pc \in {"schedule", "update"} => StaysFresh(handler[t].id)
    BY <2>1 DEF Stands, Busy, Kept
  <2> QED
    BY <2>1, <2>2, KeepHandlerStays
<1>4. KeepAction'
  BY <1>1, KeepActionStays DEF Harmless
<1> QED
  BY <1>2, <1>3, <1>4 DEF KeepInv, Harmless, ActionsKept

\* A handler enters with a fresh row.
LEMMA KeepEnters ==
    ASSUME IInv, KeepInv, NEW t \in Handlers, NEW i \in DOMAIN tasks, Enter(t, i),
           UNCHANGED <<tasks, action>>, KeepBoot'
    PROVE  KeepInv' /\ ActionsKept
<1>1. /\ handler \in [Handlers -> Handling] /\ tasks \in Seq(Task) /\ ActionInv /\ HandlerInv
      /\ KeepRows /\ KeepAction /\ \A u \in Handlers : KeepHandler(u)
  BY DEF IInv, Typed, BaseOK, KeepInv
<1>2. Harmless /\ \A k \in DOMAIN tasks' : StaysFresh(k)
  BY <1>1, HarmlessByStuttering
<1>3. CASE ~Pending(tasks[i])
  BY <1>2, <1>3, KeepStarts DEF Enter
<1>4. CASE Pending(tasks[i])
  <2> DEFINE x == [pc |-> "schedule", id |-> i, copy |-> tasks[i],
                   stale |-> tasks[i].chain \in acked]
  <2>1. x.pc = "schedule" /\ x.id = i /\ x.copy = tasks[i] /\ handler' = [handler EXCEPT ![t] = x]
    BY <1>4 DEF Enter
  <2> HIDE DEF x
  <2>2. handler'[t] = x /\ \A u \in Handlers : u # t => handler'[u] = handler[u]
    BY <1>1, <2>1
  <2>3. Fresh(tasks[i])
    BY <1>1, <1>4 DEF KeepRows
  <2>4. KeepHandler(t)'
    BY <2>1, <2>2, <2>3 DEF KeepHandler, Fresh
  <2>5. \A u \in Handlers : u # t => KeepHandler(u)'
    BY <1>1, <2>2 DEF KeepHandler
  <2>6. KeepAction'
    BY <1>1, <1>2, KeepActionStays DEF Harmless
  <2>7. KeepRows'
    BY <1>1 DEF KeepRows
  <2> QED
    BY <1>2, <2>4, <2>5, <2>6, <2>7 DEF KeepInv, Harmless, ActionsKept
<1> QED
  BY <1>3, <1>4

\* The steps of Start.
LEMMA KeepBootSteps ==
    ASSUME IInv, KeepInv, BootStep
    PROVE  KeepInv' /\ ActionsKept
<1>1. /\ tasks \in Seq(Task) /\ chainSeq \in Nat /\ sched \in Schedule /\ boot \in Booting
      /\ KeepRows /\ KeepBoot /\ PhaseInv /\ BootInv
  BY DEF IInv, Typed, BaseOK, KeepInv
<1>2. action' = action
  BY DEF BootStep, BootBegin, BootRestore, BootSchedule, BootInsert, BootRegister, BootDone
<1>3. tasks' = tasks => Harmless /\ \A k \in DOMAIN tasks' : StaysFresh(k)
  BY <1>1, <1>2, HarmlessByStuttering
<1>4. CASE BootBegin
  <2>1. /\ tasks' = tasks /\ handler' = handler
        /\ boot'.snap = tasks /\ boot'.todo = PendingIn(tasks)
    BY <1>4 DEF BootBegin, storage
  <2>2. KeepBoot'
    BY <1>1, <2>1 DEF KeepBoot, KeepRows, PendingIn, Fresh
  <2> QED
    BY <1>3, <2>1, <2>2, KeepStarts
<1>5. CASE BootRestore
  <2> DEFINE i == Smallest(boot.todo)
             s == boot.snap[i]
             r == [s EXCEPT !.timer = "cancelled", !.business = "cancelled"]
  <2>1. boot.todo # {} /\ boot.todo \in SUBSET Nat /\ boot.todo \subseteq DOMAIN boot.snap
        /\ boot.snap \in Seq(Task) /\ Copies(boot.snap)
    BY <1>1, <1>5 DEF BootRestore, Booting, BootInv
  <2>2. i \in boot.todo
    BY <2>1, SmallestIsIn
  <2>3. /\ i \in DOMAIN tasks /\ s \in Task /\ Same(s, tasks[i])
        /\ Fresh(tasks[i]) /\ s.action = "none"
    BY <1>1, <2>1, <2>2 DEF Copies, KeepBoot
  <2>4. \/ boot' = [boot EXCEPT !.todo = @ \ {i}]
        \/ boot' = [boot EXCEPT !.todo = @ \ {i}, !.ok = FALSE]
    BY <1>5 DEF BootRestore
  <2>5. \/ tasks' = [tasks EXCEPT ![i] = r] /\ handler' = handler
        \/ tasks' = tasks /\ Enter("main", i)
        \/ tasks' = tasks /\ handler' = handler
    BY <1>5 DEF BootRestore
  <2> HIDE DEF i, s
  <2>6. boot'.snap = boot.snap /\ boot'.todo = boot.todo \ {i}
    BY <1>1, <2>4 DEF Booting
  <2>7. boot.todo \subseteq DOMAIN tasks
    BY <2>1 DEF Copies
  <2>8. ASSUME \A k \in DOMAIN tasks' : StaysFresh(k), Kept PROVE KeepBoot'
    BY <1>1, <2>6, <2>7, <2>8 DEF KeepBoot, StaysFresh, Kept
  <2>9. CASE tasks' = [tasks EXCEPT ![i] = r] /\ handler' = handler
    <3>1. /\ r \in Task /\ r.chain = s.chain /\ r.attempt = s.attempt /\ r.action = s.action
          /\ r.timer = "cancelled" /\ r.business = "cancelled"
      BY <2>3 DEF Task, Business, Timer
    <3> HIDE DEF r
    <3>2. Same(r, tasks[i]) /\ ~Pending(r) /\ r.action = tasks[i].action /\ Fresh(r)
      BY <2>3, <3>1 DEF Same, Pending, Fresh
    <3>3. Harmless /\ \A k \in DOMAIN tasks' : StaysFresh(k)
      BY <1>1, <1>2, <2>3, <2>9, <3>1, <3>2, HarmlessByWriting
    <3> QED
      BY <2>8, <2>9, <3>3, KeepStarts DEF Harmless
  <2>10. CASE tasks' = tasks /\ Enter("main", i)
    <3>1. "main" \in Handlers /\ KeepBoot'
      BY <1>3, <2>8, <2>10 DEF Handlers, Harmless
    <3> QED
      BY <1>2, <2>3, <2>10, <3>1, KeepEnters
  <2>11. CASE tasks' = tasks /\ handler' = handler
    BY <1>3, <2>8, <2>11, KeepStarts DEF Harmless
  <2> QED
    BY <2>5, <2>9, <2>10, <2>11
<1>6. CASE BootSchedule
  <2>1. /\ tasks' = tasks /\ handler' = handler
        /\ boot'.snap = boot.snap /\ boot'.todo = boot.todo
    BY <1>1, <1>6 DEF BootSchedule, storage, Booting
  <2>2. KeepBoot'
    BY <1>1, <2>1 DEF KeepBoot
  <2> QED
    BY <1>3, <2>1, <2>2, KeepStarts
<1>7. CASE BootInsert
  <2> DEFINE r == NewTask(chainSeq + 1, 1, sched.start)
  <2>1. /\ tasks' = Append(tasks, r) /\ handler' = handler /\ boot.pc = "insert"
        /\ boot' = [boot EXCEPT !.pc = "register"]
    BY <1>7 DEF BootInsert
  <2>2. r \in Task /\ Fresh(r)
    BY <1>1, ReminderAssumption DEF Schedule, NewTask, Task, Business, Timer, Fresh
  <2> HIDE DEF r
  <2>3. boot.todo = {} /\ boot'.todo = {}
    BY <1>1, <2>1 DEF PhaseInv, Booting
  <2>4. KeepBoot'
    BY <2>3 DEF KeepBoot
  <2> QED
    BY <1>1, <1>2, <2>1, <2>2, <2>4, HarmlessByAdding, KeepStarts
<1>8. CASE BootRegister
  <2> DEFINE n == Len(tasks)
             r == [tasks[n] EXCEPT !.timer = "failed"]
  <2>1. /\ handler' = handler /\ boot.pc = "register"
        /\ \/ tasks' = tasks /\ boot' = [boot EXCEPT !.pc = "done"]
           \/ /\ tasks' = [tasks EXCEPT ![n].timer = "failed"]
              /\ boot' = [boot EXCEPT !.pc = "done", !.ok = FALSE]
    BY <1>8 DEF BootRegister
  <2>2. boot.todo = {} /\ boot'.todo = {}
    BY <1>1, <2>1 DEF PhaseInv, Booting
  <2>3. KeepBoot' /\ n \in DOMAIN tasks
    <3>1. Len(tasks) = 1
      BY <1>1, <2>1 DEF PhaseInv
    <3>2. n \in DOMAIN tasks
      BY <1>1, <3>1
    <3> QED
      BY <2>2, <3>2 DEF KeepBoot
  <2>4. CASE tasks' = tasks
    BY <1>3, <2>1, <2>3, <2>4, KeepStarts
  <2>5. CASE tasks' = [tasks EXCEPT ![n].timer = "failed"]
    <3>1. tasks[n] \in Task /\ tasks' = [tasks EXCEPT ![n] = r]
      BY <1>1, <2>3, <2>5
    <3> HIDE DEF n
    <3>2. /\ r \in Task /\ Same(r, tasks[n]) /\ ~Pending(r) /\ r.action = tasks[n].action
          /\ r.business = tasks[n].business
      BY <3>1 DEF Task, Timer, Same, Pending
    <3> HIDE DEF r
    <3> QED
      BY <1>1, <1>2, <2>1, <2>2, <2>3, <3>1, <3>2, HarmlessByWriting, KeepStarts
  <2> QED
    BY <2>1, <2>4, <2>5
<1>9. CASE BootDone
  <2>1. /\ tasks' = tasks /\ handler' = handler /\ boot'.todo = {}
    BY <1>9, Defaults DEF BootDone, storage, Booting
  <2>2. KeepBoot'
    BY <2>1 DEF KeepBoot
  <2> QED
    BY <1>3, <2>1, <2>2, KeepStarts
<1> QED
  BY <1>4, <1>5, <1>6, <1>7, <1>8, <1>9 DEF BootStep

\* The other steps.
LEMMA KeepOtherSteps ==
    ASSUME IInv, KeepInv,
           Tick \/ Crash \/ TimingStep \/ UNCHANGED vars
    PROVE  KeepInv' /\ ActionsKept
<1>1. tasks \in Seq(Task) /\ KeepBoot /\ KeepRows
  BY DEF IInv, Typed, BaseOK, KeepInv
<1>2. tasks' = tasks
  BY DEF Tick, Crash, TimingStep, ApplyCancel, Fire, vars, storage
<1>3. CASE Tick \/ (\E i \in DOMAIN tasks : ApplyCancel(i)) \/ UNCHANGED vars
  <2>1. UNCHANGED <<handler, boot, action>>
    BY <1>3 DEF Tick, ApplyCancel, vars
  <2>2. KeepBoot'
    BY <1>1, <1>2, <2>1 DEF KeepBoot
  <2> QED
    BY <1>1, <1>2, <2>1, <2>2, HarmlessByStuttering, KeepStarts
<1>4. ASSUME NEW i \in DOMAIN tasks, Fire(i) PROVE KeepInv' /\ ActionsKept
  <2>1. /\ UNCHANGED <<boot, action>> /\ Enter("runner", i) /\ "runner" \in Handlers
    BY <1>4 DEF Fire, Handlers
  <2>2. KeepBoot'
    BY <1>1, <1>2, <2>1 DEF KeepBoot
  <2> QED
    BY <1>2, <2>1, <2>2, KeepEnters
<1>5. CASE Crash
  <2>1. /\ boot' = Down /\ action' = NoAction /\ handler' = [t \in Handlers |-> Idle]
    BY <1>5 DEF Crash
  <2>2. \A t \in Handlers : handler'[t].pc = "idle"
    BY <2>1, Defaults
  <2>3. KeepRows'
    BY <1>1, <1>2 DEF KeepRows
  <2>4. KeepBoot' /\ KeepAction'
    BY <2>1, Defaults DEF KeepBoot, KeepAction
  <2>5. \A t \in Handlers : KeepHandler(t)'
    BY <2>2 DEF KeepHandler
  <2> QED
    BY <1>2, <2>3, <2>4, <2>5, FreshByStuttering DEF KeepInv
<1> QED
  BY <1>3, <1>4, <1>5 DEF TimingStep

\* A recorded action is kept.
LEMMA KeepStep ==
    ASSUME MaxEdits = 0, IInv, SilentInv, KeepInv, [Next]_vars
    PROVE  KeepInv' /\ ActionsKept
  BY NoEdits, KeepActionSteps, KeepHandleSteps, KeepBootSteps, KeepOtherSteps DEF Next

\* A recorded action is never lost (ActionIsKept), for a schedule that is not edited.
THEOREM RecordedActionIsKept ==
    ASSUME MaxEdits = 0
    PROVE  Spec => ActionIsKept
<1>1. Init => KeepInv
  <2> SUFFICES ASSUME Init PROVE KeepInv
    OBVIOUS
  <2>1. /\ tasks = <<>> /\ boot = Down /\ action = NoAction
        /\ handler = [t \in Handlers |-> Idle]
    BY DEF Init
  <2>2. \A t \in Handlers : handler[t].pc = "idle"
    BY <2>1, Defaults
  <2> QED
    BY <2>1, <2>2, Defaults DEF KeepInv, KeepRows, KeepBoot, KeepHandler, KeepAction
<1>2. IInv /\ SilentInv /\ KeepInv /\ [Next]_vars => KeepInv' /\ ActionsKept
  BY KeepStep
<1>3. ActionsKept =>
        [\A i \in DOMAIN tasks :
           tasks[i].action # "none" => tasks'[i].action = tasks[i].action]_vars
  BY DEF ActionsKept
<1>4. Spec => []KeepInv
  BY <1>1, <1>2, Inductive, SilentAlways, PTL DEF Spec
<1> QED
  BY <1>2, <1>3, <1>4, Inductive, SilentAlways, PTL DEF Spec, ActionIsKept
-----------------------------------------------------------------------------
(* No reminder is lost.                                                    *)

\* What has become of a task that was triggered.
Told(i) ==
    \/ WasAnnounced(i) \/ i \in torn
    \/ \E t \in Handlers : /\ handler[t].pc \in {"insert", "register", "announce"}
                           /\ handler[t].id = i

\* Every triggered row was told.
ToldRows == \A i \in DOMAIN tasks : tasks[i].timer = "triggered" => Told(i)

\* What the action has read, and will write back, was told.
ToldAction ==
    /\ \A i \in DOMAIN action.snap : action.snap[i].timer = "triggered" => Told(i)
    /\ action.pc # "idle" /\ action.copy.timer = "triggered" => Told(action.id)

ToldInv == ToldRows /\ ToldAction

\* A step after which what was told is still told.
TellsOn == \A i : Told(i) => Told(i)'

\* What was told stays told when no handler moves.
LEMMA TellsOnOutside ==
    ASSUME UNCHANGED <<handler, announced>>, torn \subseteq torn'
    PROVE  TellsOn
  BY DEF TellsOn, Told, WasAnnounced

\* What was told stays told when a handler that tells keeps its row and tells on.
LEMMA TellsOnInside ==
    ASSUME handler \in [Handlers -> Handling], UNCHANGED <<announced, torn>>, NEW t \in Handlers,
           NEW x, handler' = [handler EXCEPT ![t] = x],
           handler[t].pc \in {"insert", "register", "announce"} =>
             x.pc \in {"insert", "register", "announce"} /\ x.id = handler[t].id
    PROVE  TellsOn
<1>1. handler'[t] = x /\ \A u \in Handlers : u # t => handler'[u] = handler[u]
  OBVIOUS
<1>2. \A i : WasAnnounced(i)' = WasAnnounced(i)
  BY DEF WasAnnounced
<1>3. ASSUME NEW i, NEW u \in Handlers, handler[u].pc \in {"insert", "register", "announce"},
             handler[u].id = i
      PROVE  Told(i)'
  <2>1. CASE u = t
    BY <1>1, <1>3, <2>1 DEF Told
  <2>2. CASE u # t
    BY <1>1, <1>3, <2>2 DEF Told
  <2> QED
    BY <2>1, <2>2
<1> QED
  BY <1>2, <1>3 DEF TellsOn, Told

\* The rows stay told: none changes, one is written over or one is added.
LEMMA ToldByStuttering ==
    ASSUME ToldRows, TellsOn, tasks' = tasks
    PROVE  ToldRows'
  BY DEF ToldRows, TellsOn

\* The rows stay told when what is written over one is not triggered, or told.
LEMMA ToldByWriting ==
    ASSUME ToldRows, TellsOn, tasks \in Seq(Task), NEW i \in DOMAIN tasks, NEW r \in Task,
           tasks' = [tasks EXCEPT ![i] = r], r.timer = "triggered" => Told(i)'
    PROVE  ToldRows'
<1>1. /\ DOMAIN tasks' = DOMAIN tasks /\ tasks'[i] = r
      /\ \A j \in DOMAIN tasks : j # i => tasks'[j] = tasks[j]
  BY RowWritten
<1> QED
  BY <1>1 DEF ToldRows, TellsOn

\* The rows stay told when one is added that is not triggered.
LEMMA ToldByAdding ==
    ASSUME ToldRows, TellsOn, tasks \in Seq(Task), NEW r \in Task,
           tasks' = Append(tasks, r), r.timer # "triggered"
    PROVE  ToldRows'
<1> DEFINE n == Len(tasks) + 1
<1>1. /\ DOMAIN tasks' = DOMAIN tasks \cup {n} /\ tasks'[n] = r
      /\ \A j \in DOMAIN tasks : tasks'[j] = tasks[j]
  BY RowAdded
<1> HIDE DEF n
<1> QED
  BY <1>1 DEF ToldRows, TellsOn

\* What an action has read stays told.
LEMMA ToldActionStays ==
    ASSUME ToldRows, ToldAction, TellsOn,
           action'.snap = <<>> \/ action'.snap = action.snap \/ action'.snap = tasks,
           action'.pc # "idle" =>
             \/ action.pc # "idle" /\ action'.id = action.id /\ action'.copy = action.copy
             \/ action'.id \in DOMAIN tasks /\ action'.copy = tasks[action'.id]
    PROVE  ToldAction'
<1>1. \A i \in DOMAIN action'.snap : action'.snap[i].timer = "triggered" => Told(i)'
  BY DEF ToldRows, ToldAction, TellsOn
<1>2. ASSUME action'.pc # "idle", action'.copy.timer = "triggered", NEW i, i = action'.id
      PROVE  Told(i)'
  BY <1>2 DEF ToldRows, ToldAction, TellsOn
<1> QED
  BY <1>1, <1>2 DEF ToldAction, Told, WasAnnounced

\* The steps of an action.
LEMMA ToldActionSteps ==
    ASSUME IInv, ToldRows, ToldAction,
           ActionStep \/ \E i \in DOMAIN tasks, k \in {"acknowledge", "snooze"},
                            via \in {"voice", "im"} : ActionBegin(i, k, via)
    PROVE  ToldRows' /\ ToldAction'
<1>1. tasks \in Seq(Task) /\ action \in Acting /\ ActionInv /\ sched \in Schedule
  BY DEF IInv, Typed, BaseOK
<1>2. UNCHANGED <<handler, announced, torn>>
  BY DEF ActionStep, ActionSnapshot, SnoozeWrite, AcknowledgeCancel, AcknowledgeOthers,
         AcknowledgeLoad, CompleteLoad, CompleteStore, AcknowledgeFinish, ActionBegin, ghosts
<1>3. TellsOn
  BY <1>2, TellsOnOutside
<1>4. action' = NoAction => ToldAction'
  BY <1>3, Defaults, ToldActionStays
<1>5. ASSUME action.pc # "idle", action'.id = action.id, action'.copy = action.copy,
             action'.snap = action.snap \/ action'.snap = tasks
      PROVE  ToldAction'
  BY <1>3, <1>5, ToldActionStays
<1>6. tasks' = tasks => ToldRows'
  BY <1>3, ToldByStuttering
<1>7. ASSUME NEW i \in DOMAIN tasks, NEW k \in {"acknowledge", "snooze"},
             NEW via \in {"voice", "im"}, ActionBegin(i, k, via)
      PROVE  ToldRows' /\ ToldAction'
  <2>1. /\ action' = [NoAction EXCEPT !.pc = "snapshot", !.via = via, !.id = i, !.kind = k,
                                      !.copy = tasks[i]]
        /\ tasks' = tasks
    BY <1>7 DEF ActionBegin, storage
  <2>2. action'.id = i /\ action'.copy = tasks[i] /\ action'.snap = <<>>
    BY <2>1, Defaults DEF Acting
  <2> QED
    BY <1>3, <1>6, <2>1, <2>2, ToldActionStays
<1>8. CASE ActionSnapshot \/ AcknowledgeCancel \/ AcknowledgeLoad \/ CompleteLoad \/ CompleteStore
  <2>1. tasks' = tasks /\ action.pc # "idle"
    BY <1>8 DEF ActionSnapshot, AcknowledgeCancel, AcknowledgeLoad, CompleteLoad, CompleteStore,
                storage
  <2>2. \/ action' = NoAction
        \/ /\ action'.id = action.id /\ action'.copy = action.copy
           /\ action'.snap = action.snap \/ action'.snap = tasks
    <3>1. CASE ActionSnapshot
      BY <1>1, <3>1 DEF ActionSnapshot, Acting
    <3>2. CASE AcknowledgeCancel
      BY <1>1, <3>2 DEF AcknowledgeCancel, Acting
    <3>3. CASE AcknowledgeLoad
      <4>1. sched.status \in {"active", "completed", "cancelled"}
        BY <1>1 DEF Schedule
      <4>2. CASE sched.status = "active"
        BY <1>1, <3>3, <4>2 DEF AcknowledgeLoad, Acting
      <4>3. CASE sched.status = "completed"
        BY <1>1, <3>3, <4>3 DEF AcknowledgeLoad, Acting
      <4>4. CASE sched.status = "cancelled"
        BY <3>3, <4>4 DEF AcknowledgeLoad
      <4> QED
        BY <4>1, <4>2, <4>3, <4>4
    <3>4. CASE CompleteLoad
      BY <1>1, <3>4 DEF CompleteLoad, Acting
    <3>5. CASE CompleteStore
      BY <1>1, <3>5 DEF CompleteStore, Acting
    <3> QED
      BY <1>8, <3>1, <3>2, <3>3, <3>4, <3>5
  <2> QED
    BY <1>4, <1>5, <1>6, <2>1, <2>2
<1>9. CASE AcknowledgeOthers
  <2>1. /\ action.pc = "others" /\ action.todo \in SUBSET Nat
        /\ action.todo \subseteq DOMAIN action.snap /\ action.snap \in Seq(Task)
        /\ Copies(action.snap)
    BY <1>1, <1>9 DEF AcknowledgeOthers, ActionInv, Acting
  <2> DEFINE i == Smallest(action.todo)
             s == action.snap[i]
             r == Closed(s)
  <2>2. /\ action'.id = action.id /\ action'.copy = action.copy /\ action'.snap = action.snap
    BY <1>1, <1>9 DEF AcknowledgeOthers, Acting
  <2>3. tasks' = tasks \/ (action.todo # {} /\ tasks' = [tasks EXCEPT ![i] = r])
    BY <1>9 DEF AcknowledgeOthers
  <2>4. CASE action.todo # {} /\ tasks' = [tasks EXCEPT ![i] = r]
    <3>1. i \in action.todo
      BY <2>1, <2>4, SmallestIsIn
    <3>2. i \in DOMAIN tasks /\ s \in Task /\ (s.timer = "triggered" => Told(i))
      BY <2>1, <3>1 DEF Copies, ToldAction
    <3> HIDE DEF i, s
    <3>3. r \in Task /\ (r.timer = "triggered" => s.timer = "triggered")
      BY <3>2 DEF Closed, Task, Pending, Business, Timer
    <3> HIDE DEF r
    <3> QED
      BY <1>1, <1>3, <1>5, <2>1, <2>2, <2>4, <3>2, <3>3, ToldByWriting DEF TellsOn
  <2> QED
    BY <1>5, <1>6, <2>1, <2>2, <2>3, <2>4
<1>10. ASSUME NEW r \in Task, action.pc # "idle", r.timer = action.copy.timer,
              tasks' = [tasks EXCEPT ![action.id] = r], action' = NoAction
       PROVE  ToldRows' /\ ToldAction'
  <2>1. action.id \in DOMAIN tasks
    BY <1>1, <1>10 DEF ActionInv
  <2>2. PICK i \in DOMAIN tasks : i = action.id
    BY <2>1
  <2>3. r.timer = "triggered" => Told(i)'
    BY <1>3, <1>10, <2>2 DEF ToldAction, TellsOn
  <2> QED
    BY <1>1, <1>3, <1>4, <1>10, <2>2, <2>3, ToldByWriting
<1>11. CASE SnoozeWrite
  <2> DEFINE r == [action.copy EXCEPT !.business = "snoozed", !.action = "snooze"]
  <2>1. /\ tasks' = [tasks EXCEPT ![action.id] = r] /\ action' = NoAction
        /\ action.pc = "snooze"
    BY <1>11 DEF SnoozeWrite
  <2>2. r \in Task /\ r.timer = action.copy.timer
    BY <1>1 DEF Acting, Task, Business
  <2> HIDE DEF r
  <2> QED
    BY <1>10, <2>1, <2>2
<1>12. CASE AcknowledgeFinish
  <2> DEFINE r == [action.copy EXCEPT !.business = "acknowledged", !.action = "acknowledge"]
  <2>1. /\ tasks' = [tasks EXCEPT ![action.id] = r] /\ action' = NoAction
        /\ action.pc = "finish"
    BY <1>12 DEF AcknowledgeFinish
  <2>2. r \in Task /\ r.timer = action.copy.timer
    BY <1>1 DEF Acting, Task, Business
  <2> HIDE DEF r
  <2> QED
    BY <1>10, <2>1, <2>2
<1> QED
  BY <1>7, <1>8, <1>9, <1>11, <1>12 DEF ActionStep

\* The steps of a handler.
LEMMA ToldHandleSteps ==
    ASSUME IInv, ToldRows, ToldAction, NEW t \in Handlers, Handle(t)
    PROVE  ToldRows' /\ ToldAction'
<1>1. /\ handler \in [Handlers -> Handling] /\ tasks \in Seq(Task) /\ now \in Nat
      /\ HandlerInv /\ announced \in Seq(Nat)
  BY DEF IInv, Typed, BaseOK
<1> DEFINE h == handler[t]
<1>2. h \in Handling /\ Stands(t) /\ h.copy \in Task
  BY <1>1 DEF HandlerInv, Handling
<1>3. action' = action
  BY DEF Handle, HandleLoadSchedule, HandleUpdate, HandleInsert, HandleRegister, HandleAnnounce
<1>4. TellsOn => ToldAction'
  BY <1>3, ToldActionStays
<1>5. CASE HandleLoadSchedule(t)
  <2>1. /\ tasks' = tasks /\ h.pc = "schedule" /\ UNCHANGED <<announced, torn>>
        /\ \E x : handler' = [handler EXCEPT ![t] = x]
    BY <1>5 DEF HandleLoadSchedule, storage, ghosts
  <2>2. TellsOn
    BY <1>1, <2>1, TellsOnInside
  <2> QED
    BY <1>4, <2>1, <2>2, ToldByStuttering
<1>6. CASE HandleUpdate(t)
  <2> DEFINE r == Triggered(h.copy)
             x == [h EXCEPT !.pc = IF h.copy.attempt < MaximumAttempts
                                   THEN "insert" ELSE "announce"]
  <2>1. /\ tasks' = [tasks EXCEPT ![h.id] = r] /\ h.pc = "update"
        /\ UNCHANGED <<announced, torn>> /\ handler' = [handler EXCEPT ![t] = x]
    BY <1>1, <1>6 DEF HandleUpdate, ghosts
  <2>2. x.pc \in {"insert", "announce"} /\ x.id = h.id
    BY <1>2 DEF Handling
  <2>3. r \in Task
    BY <1>2 DEF Triggered, Task, Business, Timer
  <2> HIDE DEF x, r
  <2>4. TellsOn
    BY <1>1, <2>1, TellsOnInside
  <2>5. handler'[t] = x
    BY <1>1, <2>1
  <2>6. PICK i \in DOMAIN tasks : i = h.id
    BY <1>2, <2>1 DEF Stands, Busy
  <2>7. Told(i)'
    BY <2>2, <2>5, <2>6 DEF Told
  <2> QED
    BY <1>1, <1>4, <2>1, <2>3, <2>4, <2>6, <2>7, ToldByWriting
<1>7. CASE HandleInsert(t)
  <2> DEFINE r == NewTask(h.copy.chain, h.copy.attempt + 1, now + FollowUpDelay)
  <2>1. h.pc = "insert" /\ h.copy.attempt < MaximumAttempts /\ UNCHANGED <<announced, torn>>
    BY <1>2, <1>7 DEF HandleInsert, Stands, ghosts
  <2>2. r \in Task /\ r.timer = "pending"
    <3>1. /\ h.copy.chain \in Nat /\ h.copy.attempt \in 1 .. MaximumAttempts
          /\ MaximumAttempts \in Nat
      BY <1>2, ReminderAssumption DEF Task
    <3>2. h.copy.attempt + 1 \in 1 .. MaximumAttempts
      BY <2>1, <3>1
    <3>3. now + FollowUpDelay \in Nat
      BY <1>1, ReminderAssumption
    <3> QED
      BY <3>1, <3>2, <3>3 DEF NewTask, Task, Business, Timer
  <2>3. \/ tasks' = tasks /\ handler' = [handler EXCEPT ![t].pc = "announce"]
        \/ /\ tasks' = Append(tasks, r)
           /\ handler' = [handler EXCEPT ![t].pc = "register", ![t].copy = r]
    BY <1>7 DEF HandleInsert
  <2> HIDE DEF r
  <2>4. \E x : handler' = [handler EXCEPT ![t] = x] /\ x.pc \in {"register", "announce"}
               /\ x.id = h.id
    <3>1. CASE handler' = [handler EXCEPT ![t].pc = "announce"]
      <4> DEFINE x == [h EXCEPT !.pc = "announce"]
      <4>1. handler' = [handler EXCEPT ![t] = x] /\ x.pc = "announce" /\ x.id = h.id
        BY <1>1, <1>2, <3>1 DEF Handling
      <4> HIDE DEF x
      <4> QED
        BY <4>1
    <3>2. CASE handler' = [handler EXCEPT ![t].pc = "register", ![t].copy = r]
      <4> DEFINE x == [h EXCEPT !.pc = "register", !.copy = r]
      <4>1. handler' = [handler EXCEPT ![t] = x] /\ x.pc = "register" /\ x.id = h.id
        BY <1>1, <1>2, <3>2 DEF Handling
      <4> HIDE DEF x
      <4> QED
        BY <4>1
    <3> QED
      BY <2>3, <3>1, <3>2
  <2>5. TellsOn
    BY <1>1, <2>1, <2>4, TellsOnInside
  <2> QED
    BY <1>1, <1>4, <2>2, <2>3, <2>5, ToldByStuttering, ToldByAdding
<1>8. CASE HandleRegister(t)
  <2> DEFINE j == RowOf(h.copy)
             r == [h.copy EXCEPT !.timer = "failed"]
             x == [h EXCEPT !.pc = "announce"]
  <2>1. /\ handler' = [handler EXCEPT ![t] = x] /\ h.pc = "register"
        /\ tasks' = tasks \/ tasks' = [tasks EXCEPT ![j] = r]
        /\ UNCHANGED <<announced, torn>>
    BY <1>1, <1>8 DEF HandleRegister, ghosts
  <2>2. x.pc = "announce" /\ x.id = h.id
    BY <1>2 DEF Handling
  <2> HIDE DEF x
  <2>3. TellsOn
    BY <1>1, <2>1, <2>2, TellsOnInside
  <2>4. j \in DOMAIN tasks
    <3>1. \E k \in DOMAIN tasks :
            tasks[k].chain = h.copy.chain /\ tasks[k].attempt = h.copy.attempt
      BY <1>2, <2>1 DEF Stands, Same
    <3> QED
      BY <3>1 DEF RowOf
  <2> HIDE DEF j
  <2>5. r \in Task /\ r.timer = "failed"
    BY <1>2 DEF Task, Timer
  <2> HIDE DEF r
  <2> QED
    BY <1>1, <1>4, <2>1, <2>3, <2>4, <2>5, ToldByStuttering, ToldByWriting
<1>9. CASE HandleAnnounce(t)
  <2>1. /\ tasks' = tasks /\ torn' = torn /\ announced' = Append(announced, h.id)
        /\ handler' = [handler EXCEPT ![t] = Idle] /\ h.pc = "announce"
    BY <1>9 DEF HandleAnnounce, storage
  <2>2. \A u \in Handlers : u # t => handler'[u] = handler[u]
    BY <1>1, <2>1
  <2>3. h.id \in Nat
    BY <1>2 DEF Handling
  <2>4. /\ \A p \in DOMAIN announced : p \in DOMAIN announced' /\ announced'[p] = announced[p]
        /\ Len(announced) + 1 \in DOMAIN announced'
        /\ announced'[Len(announced) + 1] = h.id
    BY <1>1, <2>1, <2>3
  <2>5. \A i : i = h.id \/ WasAnnounced(i) => WasAnnounced(i)'
    BY <2>4 DEF WasAnnounced
  <2>6. ASSUME NEW i, NEW u \in Handlers, handler[u].id = i,
               handler[u].pc \in {"insert", "register", "announce"}
        PROVE  Told(i)'
    <3>1. CASE u = t
      BY <2>5, <2>6, <3>1 DEF Told
    <3>2. CASE u # t
      BY <2>2, <2>6, <3>2 DEF Told
    <3> QED
      BY <3>1, <3>2
  <2>7. \A i : WasAnnounced(i) \/ i \in torn => Told(i)'
    BY <2>1, <2>5 DEF Told
  <2>8. TellsOn
    BY <2>6, <2>7 DEF TellsOn, Told
  <2> QED
    BY <1>4, <2>1, <2>8, ToldByStuttering
<1> QED
  BY <1>5, <1>6, <1>7, <1>8, <1>9 DEF Handle

\* The handler enters.
LEMMA TellsOnEnter ==
    ASSUME IInv, NEW t \in Handlers, NEW i, Enter(t, i), UNCHANGED <<announced, torn>>,
           handler[t].pc = "idle"
    PROVE  TellsOn
<1>1. handler \in [Handlers -> Handling]
  BY DEF IInv, Typed
<1>2. handler' = handler \/ \E x : handler' = [handler EXCEPT ![t] = x]
  BY DEF Enter
<1> QED
  BY <1>1, <1>2, TellsOnInside, TellsOnOutside

\* The steps of Start.
LEMMA ToldBootSteps ==
    ASSUME IInv, ToldRows, ToldAction, BootStep
    PROVE  ToldRows' /\ ToldAction'
<1>1. /\ tasks \in Seq(Task) /\ chainSeq \in Nat /\ sched \in Schedule /\ boot \in Booting
      /\ PhaseInv /\ BootInv
  BY DEF IInv, Typed, BaseOK
<1>2. UNCHANGED <<action, announced, torn>>
  BY DEF BootStep, BootBegin, BootRestore, BootSchedule, BootInsert, BootRegister, BootDone,
         ghosts
<1>3. TellsOn
  <2>1. handler' = handler \/ \E i : Enter("main", i) /\ handler["main"].pc = "idle"
    BY DEF BootStep, BootBegin, BootRestore, BootSchedule, BootInsert, BootRegister, BootDone
  <2>2. "main" \in Handlers
    BY DEF Handlers
  <2> QED
    BY <1>2, <2>1, <2>2, TellsOnEnter, TellsOnOutside
<1>4. ToldAction'
  BY <1>2, <1>3, ToldActionStays
<1>5. CASE tasks' = tasks
  BY <1>3, <1>4, <1>5, ToldByStuttering
<1>6. CASE BootRestore
  <2> DEFINE i == Smallest(boot.todo)
             r == [boot.snap[i] EXCEPT !.timer = "cancelled", !.business = "cancelled"]
  <2>1. boot.todo # {} /\ boot.todo \in SUBSET Nat /\ boot.todo \subseteq DOMAIN boot.snap
        /\ boot.snap \in Seq(Task) /\ Copies(boot.snap)
    BY <1>1, <1>6 DEF BootRestore, Booting, BootInv
  <2>2. i \in boot.todo
    BY <2>1, SmallestIsIn
  <2>3. i \in DOMAIN tasks /\ boot.snap[i] \in Task
    BY <2>1, <2>2 DEF Copies
  <2>4. tasks' = tasks \/ tasks' = [tasks EXCEPT ![i] = r]
    BY <1>6 DEF BootRestore
  <2> HIDE DEF i
  <2>5. r \in Task /\ r.timer = "cancelled"
    BY <2>3 DEF Task, Business, Timer
  <2> HIDE DEF r
  <2> QED
    BY <1>1, <1>3, <1>4, <1>5, <2>3, <2>4, <2>5, ToldByWriting
<1>7. CASE BootInsert
  <2> DEFINE r == NewTask(chainSeq + 1, 1, sched.start)
  <2>1. tasks' = Append(tasks, r)
    BY <1>7 DEF BootInsert
  <2>2. r \in Task /\ r.timer = "pending"
    BY <1>1, ReminderAssumption DEF Schedule, NewTask, Task, Business, Timer
  <2> HIDE DEF r
  <2> QED
    BY <1>1, <1>3, <1>4, <2>1, <2>2, ToldByAdding
<1>8. CASE BootRegister
  <2> DEFINE n == Len(tasks)
             r == [tasks[n] EXCEPT !.timer = "failed"]
  <2>1. boot.pc = "register" /\ (tasks' = tasks \/ tasks' = [tasks EXCEPT ![n].timer = "failed"])
    BY <1>8 DEF BootRegister
  <2>2. Len(tasks) = 1
    BY <1>1, <2>1 DEF PhaseInv
  <2>3. n \in DOMAIN tasks /\ tasks[n] \in Task
    BY <1>1, <2>2
  <2>4. CASE tasks' = [tasks EXCEPT ![n].timer = "failed"]
    <3>1. tasks' = [tasks EXCEPT ![n] = r]
      BY <1>1, <2>3, <2>4
    <3> HIDE DEF n
    <3>2. r \in Task /\ r.timer = "failed"
      BY <2>3 DEF Task, Timer
    <3> HIDE DEF r
    <3> QED
      BY <1>1, <1>3, <1>4, <2>3, <3>1, <3>2, ToldByWriting
  <2> QED
    BY <1>5, <2>1, <2>4
<1>9. CASE BootBegin \/ BootSchedule \/ BootDone
  BY <1>5, <1>9 DEF BootBegin, BootSchedule, BootDone, storage
<1> QED
  BY <1>6, <1>7, <1>8, <1>9 DEF BootStep

\* The steps of the MCP worker.
LEMMA ToldEditSteps ==
    ASSUME IInv, ToldRows, ToldAction, UpdateBegin \/ Delete \/ EditStep
    PROVE  ToldRows' /\ ToldAction'
<1>1. /\ tasks \in Seq(Task) /\ chainSeq \in Nat /\ edit \in Editing /\ EditInv /\ OwnInv
  BY DEF IInv, Typed, BaseOK
<1>2. UNCHANGED <<action, handler, announced, torn>>
  BY DEF UpdateBegin, Delete, EditStep, UpdateWrite, SyncLoad, SyncSnapshot, CancelPendingTask,
         SyncDone, SyncInsert, SyncRegister, ghosts
<1>3. TellsOn
  BY <1>2, TellsOnOutside
<1>4. ToldAction'
  BY <1>2, <1>3, ToldActionStays
<1>5. CASE tasks' = tasks
  BY <1>3, <1>4, <1>5, ToldByStuttering
<1>6. CASE CancelPendingTask
  <2> DEFINE i == Smallest(edit.todo)
             r == [edit.snap[i] EXCEPT !.timer = "cancelled", !.business = "cancelled"]
  <2>1. edit.todo # {} /\ edit.todo \in SUBSET Nat /\ edit.todo \subseteq DOMAIN edit.snap
        /\ edit.snap \in Seq(Task) /\ Copies(edit.snap)
    BY <1>1, <1>6 DEF CancelPendingTask, Editing, EditInv
  <2>2. i \in edit.todo
    BY <2>1, SmallestIsIn
  <2>3. i \in DOMAIN tasks /\ edit.snap[i] \in Task
    BY <2>1, <2>2 DEF Copies
  <2>4. tasks' = tasks \/ tasks' = [tasks EXCEPT ![i] = r]
    BY <1>6 DEF CancelPendingTask
  <2> HIDE DEF i
  <2>5. r \in Task /\ r.timer = "cancelled"
    BY <2>3 DEF Task, Business, Timer
  <2> HIDE DEF r
  <2> QED
    BY <1>1, <1>3, <1>4, <1>5, <2>3, <2>4, <2>5, ToldByWriting
<1>7. edit.copy.start \in Nat /\ 1 \in 1 .. MaximumAttempts
  BY <1>1, ReminderAssumption DEF Editing, Schedule
<1>8. CASE SyncInsert
  <2> DEFINE r == NewTask(chainSeq + 1, 1, edit.copy.start)
  <2>1. tasks' = Append(tasks, r)
    BY <1>8 DEF SyncInsert
  <2>2. r \in Task /\ r.timer = "pending"
    BY <1>1, <1>7 DEF NewTask, Task, Business, Timer
  <2> HIDE DEF r
  <2> QED
    BY <1>1, <1>3, <1>4, <2>1, <2>2, ToldByAdding
<1>9. CASE SyncRegister
  <2> DEFINE f == NewTask(chainSeq, 1, edit.copy.start)
             r == [f EXCEPT !.timer = "failed"]
  <2>1. PICK n \in DOMAIN tasks : edit.todo = {n}
    BY <1>1, <1>9 DEF OwnInv, SyncRegister
  <2>2. \/ tasks' = tasks
        \/ tasks' = [i \in DOMAIN tasks |-> IF i \in edit.todo THEN r ELSE tasks[i]]
    BY <1>9 DEF SyncRegister
  <2>3. f \in Task
    BY <1>1, <1>7 DEF NewTask, Task, Business, Timer
  <2> HIDE DEF f
  <2>4. r \in Task /\ r.timer = "failed"
    BY <2>3 DEF Task, Timer
  <2> HIDE DEF r
  <2>5. tasks' = tasks \/ tasks' = [tasks EXCEPT ![n] = r]
    BY <1>1, <2>1, <2>2
  <2> QED
    BY <1>1, <1>3, <1>4, <1>5, <2>1, <2>4, <2>5, ToldByWriting
<1>10. CASE UpdateBegin \/ Delete \/ (\E s \in Starts : UpdateWrite(s)) \/ SyncLoad \/ SyncSnapshot
            \/ SyncDone
  BY <1>5, <1>10 DEF UpdateBegin, Delete, UpdateWrite, SyncLoad, SyncSnapshot, SyncDone, storage
<1> QED
  BY <1>6, <1>8, <1>9, <1>10 DEF EditStep

\* The other steps; a power failure tears the announcements under way.
LEMMA ToldOtherSteps ==
    ASSUME IInv, ToldRows, ToldAction, Tick \/ Crash \/ TimingStep \/ UNCHANGED vars
    PROVE  ToldRows' /\ ToldAction'
<1>1. tasks' = tasks
  BY DEF Tick, Crash, TimingStep, ApplyCancel, Fire, vars, storage
<1>2. CASE Tick \/ TimingStep \/ UNCHANGED vars
  <2>1. UNCHANGED <<action, announced, torn>>
    BY <1>2 DEF Tick, TimingStep, ApplyCancel, Fire, vars, ghosts
  <2>2. handler' = handler \/ \E i : Enter("runner", i) /\ handler["runner"].pc = "idle"
    BY <1>2 DEF Tick, TimingStep, ApplyCancel, Fire, vars
  <2>3. "runner" \in Handlers
    BY DEF Handlers
  <2>4. TellsOn
    BY <2>1, <2>2, <2>3, TellsOnEnter, TellsOnOutside
  <2> QED
    BY <1>1, <2>1, <2>4, ToldByStuttering, ToldActionStays
<1>3. CASE Crash
  <2>1. /\ announced' = announced /\ action' = NoAction
        /\ torn' = torn \cup {handler[t].id :
                                t \in {u \in Handlers :
                                         handler[u].pc \in {"insert", "register", "announce"}}}
    BY <1>3 DEF Crash
  <2>2. \A i : WasAnnounced(i)' = WasAnnounced(i)
    BY <2>1 DEF WasAnnounced
  <2>3. \A i : Told(i) => WasAnnounced(i)' \/ i \in torn'
    BY <2>1, <2>2 DEF Told
  <2>4. TellsOn
    BY <2>3 DEF TellsOn, Told
  <2> QED
    BY <1>1, <2>1, <2>4, Defaults, ToldByStuttering, ToldActionStays
<1> QED
  BY <1>2, <1>3

\* What is triggered was told.
LEMMA ToldAlways == Spec => []ToldInv
<1>1. Init => ToldInv
  BY Defaults DEF Init, ToldInv, ToldRows, ToldAction
<1>2. IInv /\ ToldInv /\ [Next]_vars => ToldInv'
  BY ToldActionSteps, ToldHandleSteps, ToldBootSteps, ToldEditSteps, ToldOtherSteps
     DEF Next, ToldInv
<1> QED
  BY <1>1, <1>2, Inductive, PTL DEF Spec

\* The running acknowledge will close row i.
Closing(i) ==
    /\ action.pc \in {"cancel", "others"} /\ i \in SameChain(action.snap) /\ i # action.id
    /\ action.pc = "others" => i \in action.todo

\* A handler has row i before it is triggered, or is about to register it.
HandlerWaits(t, i) ==
    \/ handler[t].pc \in {"schedule", "update"} /\ handler[t].id = i
    \/ handler[t].pc = "register" /\ Same(handler[t].copy, tasks[i])

\* The synchronisation will cancel row i, or register it.
EditWaits(i) ==
    \/ edit.pc \in {"load", "snapshot"}
    \/ edit.pc \in {"cancel", "register"} /\ i \in edit.todo

\* Somebody still waits for the pending row i, or will close it.
Awaited(i) ==
    \/ boot.pc = "down" \/ sched.status # "active"
    \/ i \in armed \ cancelling
    \/ i \in boot.todo \/ boot.pc = "register"
    \/ \E t \in Handlers : HandlerWaits(t, i)
    \/ EditWaits(i) \/ Closing(i)

\* The type of the bounds used; no command was refused so far.
Spent == [edits : Nat, actions : Nat, crashes : Nat, unavailable : Nat]
NoneRefused == spent.unavailable = 0

\* Start has not failed, and nobody cancels before it ends.
WaitBoot == boot.ok /\ boot.pc # "failed" /\ (boot.pc # "up" => cancelling = {})

\* Only rows that are closed, or are being closed, are cancelled.
WaitCancel == \A i \in cancelling : i \in DOMAIN tasks /\ (Pending(tasks[i]) => Closing(i))

\* An action's own row is not pending, and it closes rows of its chain only.
WaitAction ==
    /\ action.pc # "idle" => ~Pending(tasks[action.id])
    /\ action.pc \in {"cancel", "others"} => action.todo \subseteq SameChain(action.snap)

\* Every pending row is awaited.
WaitRows == \A i \in DOMAIN tasks : Pending(tasks[i]) => Awaited(i)

Waits == WaitBoot /\ WaitCancel /\ WaitAction /\ WaitRows

WaitInv == spent \in Spent /\ (NoneRefused => Waits)

\* What a step spends: a refusal is remembered.
LEMMA SpentSteps ==
    ASSUME spent \in Spent, [Next]_vars
    PROVE  spent' \in Spent /\ (NoneRefused' => NoneRefused /\ ~Refused)
<1>1. ASSUME NEW b \in {"edits", "actions", "crashes", "unavailable"}, NEW l, Spend(b, l)
      PROVE  spent' \in Spent /\ spent'[b] = spent[b] + 1 /\ spent[b] \in Nat
             /\ (spent'.unavailable = spent.unavailable \/ b = "unavailable")
  BY <1>1 DEF Spend, Spent
<1>2. Refused => spent' \in Spent /\ ~NoneRefused'
  BY <1>1 DEF Refused, NoneRefused
<1>3. \/ spent' = spent \/ Refused \/ Spend("edits", MaxEdits) \/ Spend("actions", MaxActions)
      \/ Spend("crashes", MaxCrashes)
  <2>1. CASE TimingStep \/ Tick \/ Crash \/ UNCHANGED vars
    BY <2>1 DEF TimingStep, ApplyCancel, Fire, Tick, Crash, vars
  <2>2. CASE \E t \in Handlers : Handle(t)
    BY <2>2 DEF Handle, HandleLoadSchedule, HandleUpdate, HandleInsert, HandleRegister,
                HandleAnnounce
  <2>3. CASE BootStep
    BY <2>3 DEF BootStep, BootBegin, BootRestore, BootSchedule, BootInsert, BootRegister, BootDone
  <2>4. CASE UpdateBegin \/ Delete \/ EditStep
    BY <2>4 DEF UpdateBegin, Delete, EditStep, UpdateWrite, SyncLoad, SyncSnapshot,
                CancelPendingTask, SyncDone, SyncInsert, SyncRegister
  <2>5. CASE ActionStep \/ \E i \in DOMAIN tasks, k \in {"acknowledge", "snooze"},
                              via \in {"voice", "im"} : ActionBegin(i, k, via)
    BY <2>5 DEF ActionStep, ActionSnapshot, SnoozeWrite, AcknowledgeCancel, AcknowledgeOthers,
                AcknowledgeLoad, CompleteLoad, CompleteStore, AcknowledgeFinish, ActionBegin
  <2> QED
    BY <2>1, <2>2, <2>3, <2>4, <2>5 DEF Next
<1>4. ASSUME spent' = spent \/ Spend("edits", MaxEdits) \/ Spend("actions", MaxActions)
             \/ Spend("crashes", MaxCrashes)
      PROVE  spent' \in Spent /\ (NoneRefused' => NoneRefused)
  BY <1>1, <1>4 DEF NoneRefused
<1> QED
  BY <1>2, <1>3, <1>4

\* The rows wait on when no handler, no action and no Start moves.
LEMMA WaitsOutside ==
    ASSUME IInv, Waits, Kept, UNCHANGED <<handler, boot, action>>, armed \subseteq armed',
           boot.pc = "up" \/ cancelling' = cancelling,
           sched' = sched \/ edit'.pc = "load",
           \A i \in cancelling' : i \in cancelling \/ (i \in DOMAIN tasks' /\ ~Pending(tasks'[i])),
           \A i \in DOMAIN tasks' : Pending(tasks'[i]) /\ (i \notin DOMAIN tasks \/ EditWaits(i))
                                      => Awaited(i)'
    PROVE  Waits'
<1>1. \A i : Closing(i)' = Closing(i)
  BY DEF Closing, SameChain
<1>2. WaitBoot'
  BY DEF Waits, WaitBoot
<1>3. WaitCancel'
  BY <1>1 DEF Waits, WaitCancel, Kept
<1>4. WaitAction'
  <2>1. action.pc # "idle" => action.id \in DOMAIN tasks
    BY DEF IInv, ActionInv
  <2>2. SameChain(action.snap)' = SameChain(action.snap)
    BY DEF SameChain
  <2> QED
    BY <2>1, <2>2 DEF Waits, WaitAction, Kept
<1>5. ASSUME NEW i \in DOMAIN tasks', Pending(tasks'[i]) PROVE Awaited(i)'
  <2>1. CASE i \in DOMAIN tasks
    <3>1. Pending(tasks[i]) /\ tasks'[i] = tasks[i]
      BY <1>5, <2>1 DEF Kept
    <3>2. Awaited(i)
      BY <2>1, <3>1 DEF Waits, WaitRows
    <3>3. \A t \in Handlers : HandlerWaits(t, i)' = HandlerWaits(t, i)
      BY <3>1 DEF HandlerWaits
    <3>4. EditWaits(i) => Awaited(i)'
      BY <1>5
    <3>5. sched' = sched \/ EditWaits(i)'
      BY DEF EditWaits
    <3>6. i \in armed \ cancelling => i \in armed' \ cancelling'
      BY <1>5
    <3> QED
      BY <1>1, <3>2, <3>3, <3>4, <3>5, <3>6 DEF Awaited
  <2>2. CASE i \notin DOMAIN tasks
    BY <1>5, <2>2
  <2> QED
    BY <2>1, <2>2
<1> QED
  BY <1>2, <1>3, <1>4, <1>5 DEF Waits, WaitRows

\* The steps of the MCP worker.
LEMMA WaitEditSteps ==
    ASSUME IInv, Waits, UpdateBegin \/ Delete \/ EditStep, ~Refused
    PROVE  Waits'
<1>1. /\ tasks \in Seq(Task) /\ chainSeq \in Nat /\ edit \in Editing /\ EditInv /\ OwnInv
      /\ PhaseInv /\ armed \subseteq DOMAIN tasks
  BY DEF IInv, Typed, BaseOK
<1>2. boot.pc = "up" /\ UNCHANGED <<handler, boot, action>>
  <2>1. boot.pc = "up" \/ edit.pc # "idle"
    BY DEF UpdateBegin, Delete, McpWorkerFree, EditStep, UpdateWrite, SyncLoad, SyncSnapshot,
           CancelPendingTask, SyncDone, SyncInsert, SyncRegister
  <2>2. UNCHANGED <<handler, boot, action>>
    BY DEF UpdateBegin, Delete, EditStep, UpdateWrite, SyncLoad, SyncSnapshot, CancelPendingTask,
           SyncDone, SyncInsert, SyncRegister
  <2> QED
    BY <1>1, <2>1, <2>2 DEF PhaseInv
<1>3. ASSUME tasks' = tasks, UNCHANGED timing, sched' = sched \/ edit'.pc = "load",
             \A i \in DOMAIN tasks : Pending(tasks[i]) /\ EditWaits(i) => EditWaits(i)'
      PROVE  Waits'
  <2>1. Kept /\ DOMAIN tasks' = DOMAIN tasks
    BY <1>1, <1>3, KeptByStuttering
  <2> QED
    BY <1>2, <1>3, <2>1, WaitsOutside DEF Awaited, timing
<1>4. CASE UpdateBegin \/ SyncDone
  <2>1. tasks' = tasks /\ sched' = sched /\ UNCHANGED timing /\ \A i : ~EditWaits(i)
    BY <1>4 DEF UpdateBegin, SyncDone, McpWorkerFree, storage, EditWaits
  <2> QED
    BY <1>3, <2>1
<1>5. CASE Delete \/ (\E s \in Starts : UpdateWrite(s)) \/ SyncLoad
  <2>1. /\ tasks' = tasks /\ UNCHANGED timing /\ edit'.pc \in {"load", "snapshot"}
        /\ sched' = sched \/ edit'.pc = "load"
    BY <1>1, <1>5, Defaults DEF Delete, UpdateWrite, SyncLoad, storage, Editing
  <2> QED
    BY <1>3, <2>1 DEF EditWaits
<1>6. CASE SyncSnapshot
  <2>1. /\ tasks' = tasks /\ sched' = sched /\ UNCHANGED timing /\ edit'.pc = "cancel"
        /\ edit'.todo = PendingIn(tasks)
    BY <1>1, <1>6 DEF SyncSnapshot, storage, Editing
  <2> QED
    BY <1>3, <2>1 DEF EditWaits, PendingIn
<1>7. CASE CancelPendingTask
  <2> DEFINE k == Smallest(edit.todo)
             r == [edit.snap[k] EXCEPT !.timer = "cancelled", !.business = "cancelled"]
  <2>1. /\ edit.todo # {} /\ edit.todo \in SUBSET Nat /\ edit.todo \subseteq DOMAIN edit.snap
        /\ edit.snap \in Seq(Task) /\ Copies(edit.snap) /\ edit.pc = "cancel"
    BY <1>1, <1>7 DEF CancelPendingTask, Editing, EditInv
  <2>2. k \in edit.todo
    BY <2>1, SmallestIsIn
  <2>3. k \in DOMAIN tasks /\ edit.snap[k] \in Task /\ Same(edit.snap[k], tasks[k])
    BY <2>1, <2>2 DEF Copies
  <2>4. /\ tasks' = [tasks EXCEPT ![k] = r] /\ cancelling' = cancelling \cup {k}
        /\ edit' = [edit EXCEPT !.todo = @ \ {k}] /\ sched' = sched /\ armed' = armed
    BY <1>7 DEF CancelPendingTask
  <2>5. edit'.pc = "cancel" /\ edit'.todo = edit.todo \ {k}
    BY <1>1, <2>1, <2>4 DEF Editing
  <2> HIDE DEF k
  <2>6. r \in Task /\ ~Pending(r) /\ Same(r, tasks[k])
    BY <2>3 DEF Task, Business, Timer, Pending, Same
  <2> HIDE DEF r
  <2>7. Kept /\ DOMAIN tasks' = DOMAIN tasks /\ tasks'[k] = r
    BY <1>1, <2>3, <2>4, <2>6, KeptByWriting, RowWritten
  <2>8. \A i : Pending(tasks'[i]) /\ EditWaits(i) => EditWaits(i)'
    BY <2>1, <2>5, <2>6, <2>7 DEF EditWaits
  <2> QED
    BY <1>2, <2>3, <2>4, <2>6, <2>7, <2>8, WaitsOutside DEF Awaited
<1>8. CASE SyncInsert
  <2> DEFINE r == NewTask(chainSeq + 1, 1, edit.copy.start)
             n == Len(tasks) + 1
  <2>1. /\ tasks' = Append(tasks, r) /\ edit.pc = "insert" /\ UNCHANGED timing /\ sched' = sched
        /\ edit' = [edit EXCEPT !.pc = "register", !.todo = {n}]
    BY <1>8 DEF SyncInsert, NewId
  <2>2. edit'.pc = "register" /\ edit'.todo = {n}
    BY <1>1, <2>1 DEF Editing
  <2>3. r \in Task
    <3>1. edit.copy.start \in Nat /\ 1 \in 1 .. MaximumAttempts
      BY <1>1, ReminderAssumption DEF Editing, Schedule
    <3> QED
      BY <1>1, <3>1 DEF NewTask, Task, Business, Timer
  <2> HIDE DEF r
  <2>4. Kept /\ DOMAIN tasks' = DOMAIN tasks \cup {n}
    BY <1>1, <2>1, <2>3, KeptByAdding, RowAdded
  <2> HIDE DEF n
  <2>5. \A i \in DOMAIN tasks' : i \notin DOMAIN tasks => EditWaits(i)'
    BY <2>2, <2>4 DEF EditWaits
  <2>6. \A i : ~EditWaits(i)
    BY <2>1 DEF EditWaits
  <2> QED
    BY <1>2, <2>1, <2>4, <2>5, <2>6, WaitsOutside DEF Awaited, timing
<1>9. CASE SyncRegister
  <2>1. /\ tasks' = tasks /\ armed' = armed \cup edit.todo /\ UNCHANGED <<sched, cancelling>>
        /\ edit.pc = "register"
    BY <1>9 DEF SyncRegister
  <2>2. Kept /\ DOMAIN tasks' = DOMAIN tasks
    BY <1>1, <2>1, KeptByStuttering
  <2>3. \A i : Closing(i)' = Closing(i)
    BY <1>2 DEF Closing, SameChain
  <2>4. \A i \in DOMAIN tasks : EditWaits(i) /\ Pending(tasks[i]) => Awaited(i)'
    BY <2>1, <2>3 DEF EditWaits, Awaited, Waits, WaitCancel
  <2> QED
    BY <1>2, <2>1, <2>2, <2>4, WaitsOutside
<1> QED
  BY <1>4, <1>5, <1>6, <1>7, <1>8, <1>9 DEF EditStep

\* The rows wait on when only an action moves, and goes on closing what it was closing.
LEMMA WaitsAction ==
    ASSUME IInv, Waits, Kept, DOMAIN tasks' = DOMAIN tasks, UNCHANGED <<handler, boot, edit, armed>>,
           boot.pc = "up", sched' = sched \/ sched'.status # "active", WaitAction',
           \A i \in cancelling' :
             i \in cancelling \/ (i \in DOMAIN tasks /\ (Pending(tasks'[i]) => Closing(i)')),
           \A i \in DOMAIN tasks : Pending(tasks'[i]) /\ Closing(i) => Closing(i)'
    PROVE  Waits'
<1>1. WaitBoot'
  BY DEF Waits, WaitBoot
<1>2. WaitCancel'
  BY DEF Waits, WaitCancel, Kept
<1>3. ASSUME NEW i \in DOMAIN tasks, Pending(tasks'[i]) PROVE Awaited(i)'
  <2>1. Pending(tasks[i]) /\ tasks'[i] = tasks[i]
    BY <1>3 DEF Kept
  <2>2. Awaited(i)
    BY <2>1 DEF Waits, WaitRows
  <2>3. \A t \in Handlers : HandlerWaits(t, i)' = HandlerWaits(t, i)
    BY <2>1 DEF HandlerWaits
  <2>4. EditWaits(i)' = EditWaits(i)
    BY DEF EditWaits
  <2>5. i \in armed \ cancelling => i \in armed' \ cancelling' \/ Closing(i)'
    BY <1>3
  <2> QED
    BY <1>3, <2>2, <2>3, <2>4, <2>5 DEF Awaited
<1> QED
  BY <1>1, <1>2, <1>3 DEF Waits, WaitRows

\* The steps of an action.
LEMMA WaitActionSteps ==
    ASSUME IInv, Waits, ~Refused,
           ActionStep \/ \E i \in DOMAIN tasks, k \in {"acknowledge", "snooze"},
                            via \in {"voice", "im"} : ActionBegin(i, k, via)
    PROVE  Waits'
<1>1. /\ tasks \in Seq(Task) /\ action \in Acting /\ ActionInv /\ sched \in Schedule /\ RowInv
      /\ PhaseInv
  BY DEF IInv, Typed, BaseOK
<1>2. boot.pc = "up" /\ UNCHANGED <<handler, boot, edit, armed>>
  <2>1. boot.pc = "up" \/ action.pc # "idle"
    BY DEF ActionStep, ActionSnapshot, SnoozeWrite, AcknowledgeCancel, AcknowledgeOthers,
           AcknowledgeLoad, CompleteLoad, CompleteStore, AcknowledgeFinish, ActionBegin
  <2>2. UNCHANGED <<handler, boot, edit, armed>>
    BY DEF ActionStep, ActionSnapshot, SnoozeWrite, AcknowledgeCancel, AcknowledgeOthers,
           AcknowledgeLoad, CompleteLoad, CompleteStore, AcknowledgeFinish, ActionBegin, timing
  <2> QED
    BY <1>1, <2>1, <2>2 DEF PhaseInv
<1>3. WaitAction /\ WaitCancel
  BY DEF Waits
<1>4. /\ action.pc # "idle" => action.id \in DOMAIN tasks
      /\ Copies(action.snap)
  BY <1>1 DEF ActionInv
<1>5. tasks' = tasks => Kept /\ DOMAIN tasks' = DOMAIN tasks
  BY <1>1, KeptByStuttering
<1>6. ASSUME tasks' = tasks, cancelling' = cancelling, \A i : ~Closing(i),
             sched' = sched \/ sched'.status # "active",
             action'.pc # "idle" => ~Pending(tasks[action'.id]),
             action'.pc \notin {"cancel", "others"}
      PROVE  Waits'
  BY <1>2, <1>5, <1>6, WaitsAction DEF WaitAction
<1>7. ASSUME NEW i \in DOMAIN tasks, NEW k \in {"acknowledge", "snooze"},
             NEW via \in {"voice", "im"}, ActionBegin(i, k, via)
      PROVE  Waits'
  <2>1. /\ action' = [NoAction EXCEPT !.pc = "snapshot", !.via = via, !.id = i, !.kind = k,
                                      !.copy = tasks[i]]
        /\ tasks' = tasks /\ sched' = sched /\ cancelling' = cancelling /\ action.pc = "idle"
        /\ tasks[i].business \in {"waiting", "exhausted"}
    BY <1>7 DEF ActionBegin, storage, timing
  <2>2. action'.id = i /\ action'.pc = "snapshot"
    BY <2>1, Defaults DEF Acting
  <2>3. ~Pending(tasks[i])
    BY <1>1, <2>1 DEF RowInv
  <2>4. \A j : ~Closing(j)
    BY <2>1 DEF Closing
  <2> QED
    BY <1>6, <2>1, <2>2, <2>3, <2>4
<1>8. CASE ActionSnapshot
  <2>1. tasks' = tasks /\ sched' = sched /\ cancelling' = cancelling /\ action.pc = "snapshot"
    BY <1>8 DEF ActionSnapshot, storage, timing
  <2>2. \A j : ~Closing(j)
    BY <2>1 DEF Closing
  <2>3. ~Pending(tasks[action.id])
    BY <1>3, <2>1 DEF WaitAction
  <2>4. CASE action' = [action EXCEPT !.pc = "cancel", !.snap = tasks,
                                      !.todo = SameChain(tasks) \cap PendingIn(tasks)]
    <3>1. /\ action'.id = action.id /\ action'.copy = action.copy /\ action'.snap = tasks
          /\ action'.todo = SameChain(tasks) \cap PendingIn(tasks)
      BY <1>1, <2>4 DEF Acting
    <3>2. SameChain(action.snap)' = SameChain(tasks)
      BY <3>1 DEF SameChain
    <3>3. WaitAction'
      BY <2>1, <2>3, <3>1, <3>2 DEF WaitAction
    <3> QED
      BY <1>2, <1>5, <2>1, <2>2, <3>3, WaitsAction
  <2>5. CASE action' = [action EXCEPT !.pc = "snooze"]
    <3>1. action'.id = action.id /\ action'.pc = "snooze"
      BY <1>1, <2>5 DEF Acting
    <3> QED
      BY <1>6, <2>1, <2>2, <2>3, <3>1
  <2>6. CASE action' = NoAction
    BY <1>6, <2>1, <2>2, <2>6, Defaults
  <2> QED
    BY <1>8, <2>4, <2>5, <2>6 DEF ActionSnapshot
<1>9. CASE AcknowledgeCancel
  <2>1. /\ tasks' = tasks /\ sched' = sched /\ action.pc = "cancel"
        /\ ~Pending(tasks[action.id]) /\ action.todo \subseteq SameChain(action.snap)
        /\ action.todo \in SUBSET Nat
    BY <1>1, <1>3, <1>9 DEF AcknowledgeCancel, WaitAction, Acting, storage
  <2>2. CASE /\ action' = [action EXCEPT !.pc = "others",
                             !.todo = SameChain(action.snap) \ {action.id}]
             /\ cancelling' = cancelling
    <3>1. /\ action'.id = action.id /\ action'.copy = action.copy /\ action'.pc = "others"
          /\ action'.snap = action.snap /\ action'.todo = SameChain(action.snap) \ {action.id}
      BY <1>1, <2>2 DEF Acting
    <3>2. SameChain(action.snap)' = SameChain(action.snap)
      BY <3>1 DEF SameChain
    <3>3. WaitAction'
      BY <2>1, <3>1, <3>2 DEF WaitAction
    <3>4. \A i : Closing(i) => Closing(i)'
      BY <2>1, <3>1, <3>2 DEF Closing
    <3> QED
      BY <1>2, <1>5, <2>1, <2>2, <3>3, <3>4, WaitsAction
  <2>3. CASE /\ action.todo # {} /\ cancelling' = cancelling \cup {Smallest(action.todo)}
             /\ action' = [action EXCEPT !.todo = @ \ {Smallest(action.todo)}]
    <3> DEFINE k == Smallest(action.todo)
    <3>1. k \in action.todo
      BY <2>1, <2>3, SmallestIsIn
    <3> HIDE DEF k
    <3>2. /\ action'.id = action.id /\ action'.copy = action.copy /\ action'.pc = "cancel"
          /\ action'.snap = action.snap /\ action'.todo = action.todo \ {k}
      BY <1>1, <2>1, <2>3 DEF Acting, k
    <3>3. SameChain(action.snap)' = SameChain(action.snap)
      BY <3>2 DEF SameChain
    <3>4. WaitAction'
      BY <2>1, <3>2, <3>3 DEF WaitAction
    <3>5. \A i : Closing(i)' = Closing(i)
      BY <2>1, <3>2, <3>3 DEF Closing
    <3>6. k \in DOMAIN tasks /\ (Pending(tasks[k]) => Closing(k))
      BY <1>4, <2>1, <3>1 DEF Closing, SameChain, Copies
    <3>7. cancelling' = cancelling \cup {k}
      BY <2>3 DEF k
    <3> QED
      BY <1>2, <1>5, <2>1, <3>4, <3>5, <3>6, <3>7, WaitsAction
  <2> QED
    BY <1>9, <2>2, <2>3 DEF AcknowledgeCancel
<1>10. CASE AcknowledgeOthers
  <2>1. /\ sched' = sched /\ cancelling' = cancelling /\ action.pc = "others"
        /\ ~Pending(tasks[action.id]) /\ action.todo \in SUBSET Nat
        /\ action.todo \subseteq SameChain(action.snap)
        /\ action.todo \subseteq DOMAIN action.snap /\ action.snap \in Seq(Task)
    BY <1>1, <1>3, <1>10 DEF AcknowledgeOthers, WaitAction, Acting, ActionInv, timing
  <2>2. CASE action.todo = {} /\ tasks' = tasks /\ action' = [action EXCEPT !.pc = "load"]
    <3>1. action'.id = action.id /\ action'.pc = "load" /\ \A i : ~Closing(i)
      BY <1>1, <2>1, <2>2 DEF Acting, Closing
    <3> QED
      BY <1>6, <2>1, <2>2, <3>1
  <2>3. CASE action.todo # {} /\ AcknowledgeOthers
    <3> DEFINE k == Smallest(action.todo)
               r == Closed(action.snap[k])
    <3>1. k \in action.todo
      BY <2>1, <2>3, SmallestIsIn
    <3>2. tasks' = [tasks EXCEPT ![k] = r] /\ action' = [action EXCEPT !.todo = @ \ {k}]
      BY <2>3 DEF AcknowledgeOthers
    <3>3. k \in DOMAIN tasks /\ action.snap[k] \in Task /\ Same(action.snap[k], tasks[k])
      BY <1>4, <2>1, <3>1 DEF Copies
    <3> HIDE DEF k
    <3>4. r \in Task /\ ~Pending(r) /\ Same(r, tasks[k])
      BY <3>3 DEF Closed, Task, Pending, Business, Timer, Same
    <3> HIDE DEF r
    <3>5. Kept /\ DOMAIN tasks' = DOMAIN tasks /\ tasks'[k] = r
      BY <1>1, <3>2, <3>3, <3>4, KeptByWriting, RowWritten
    <3>6. /\ action'.id = action.id /\ action'.copy = action.copy /\ action'.pc = "others"
          /\ action'.snap = action.snap /\ action'.todo = action.todo \ {k}
      BY <1>1, <2>1, <3>2 DEF Acting
    <3>7. SameChain(action.snap)' = SameChain(action.snap)
      BY <3>6 DEF SameChain
    <3>8. WaitAction'
      BY <1>4, <2>1, <3>5, <3>6, <3>7 DEF WaitAction, Kept
    <3>9. \A i : Pending(tasks'[i]) /\ Closing(i) => Closing(i)'
      BY <2>1, <3>4, <3>5, <3>6, <3>7 DEF Closing
    <3> QED
      BY <1>2, <2>1, <3>5, <3>8, <3>9, WaitsAction
  <2> QED
    BY <1>10, <2>2, <2>3 DEF AcknowledgeOthers
<1>11. CASE AcknowledgeLoad \/ CompleteLoad \/ CompleteStore
  <2>1. /\ tasks' = tasks /\ cancelling' = cancelling /\ action.pc \in {"load", "complete", "store"}
        /\ sched' = sched \/ sched'.status # "active"
    <3>1. CASE AcknowledgeLoad \/ CompleteLoad
      BY <3>1 DEF AcknowledgeLoad, CompleteLoad, storage, timing
    <3>2. CASE CompleteStore
      <4>1. action.row \in Schedule
        BY <1>1 DEF Acting
      <4>2. sched'.status = "completed"
        BY <3>2, <4>1 DEF CompleteStore, Schedule
      <4> QED
        BY <3>2, <4>2 DEF CompleteStore, timing
    <3> QED
      BY <1>11, <3>1, <3>2
  <2>2. \A j : ~Closing(j)
    BY <2>1 DEF Closing
  <2>3. ~Pending(tasks[action.id])
    BY <1>3, <2>1 DEF WaitAction
  <2>4. action' = NoAction \/ (action'.id = action.id /\ action'.pc \notin {"cancel", "others"})
    <3>1. CASE AcknowledgeLoad
      <4>1. sched.status \in {"active", "completed", "cancelled"}
        BY <1>1 DEF Schedule
      <4>2. CASE sched.status = "active"
        BY <1>1, <3>1, <4>2 DEF AcknowledgeLoad, Acting
      <4>3. CASE sched.status = "completed"
        BY <1>1, <3>1, <4>3 DEF AcknowledgeLoad, Acting
      <4>4. CASE sched.status = "cancelled"
        BY <3>1, <4>4 DEF AcknowledgeLoad
      <4> QED
        BY <4>1, <4>2, <4>3, <4>4
    <3>2. CASE CompleteLoad
      BY <1>1, <3>2 DEF CompleteLoad, Acting
    <3>3. CASE CompleteStore
      BY <1>1, <3>3 DEF CompleteStore, Acting
    <3> QED
      BY <1>11, <3>1, <3>2, <3>3
  <2> QED
    BY <1>6, <2>1, <2>2, <2>3, <2>4, Defaults
<1>12. ASSUME NEW r \in Task, action.pc \in {"snooze", "finish"}, ~Pending(r),
              Same(r, action.copy), sched' = sched, cancelling' = cancelling,
              tasks' = [tasks EXCEPT ![action.id] = r], action' = NoAction
       PROVE  Waits'
  <2>1. action.id \in DOMAIN tasks /\ Same(r, tasks[action.id])
    BY <1>1, <1>12 DEF ActionInv, Same
  <2>2. PICK i \in DOMAIN tasks : i = action.id
    BY <2>1
  <2>3. Kept /\ DOMAIN tasks' = DOMAIN tasks
    BY <1>1, <1>12, <2>1, <2>2, KeptByWriting
  <2>4. \A j : ~Closing(j)
    BY <1>12 DEF Closing
  <2> QED
    BY <1>2, <1>12, <2>3, <2>4, Defaults, WaitsAction DEF WaitAction
<1>13. CASE SnoozeWrite
  <2> DEFINE r == [action.copy EXCEPT !.business = "snoozed", !.action = "snooze"]
  <2>1. /\ tasks' = [tasks EXCEPT ![action.id] = r] /\ action' = NoAction
        /\ action.pc = "snooze" /\ sched' = sched /\ cancelling' = cancelling
    BY <1>13 DEF SnoozeWrite, timing
  <2>2. r \in Task /\ ~Pending(r) /\ Same(r, action.copy)
    BY <1>1, <2>1 DEF Acting, Task, Business, ActionInv, Pending, Same
  <2> HIDE DEF r
  <2> QED
    BY <1>12, <2>1, <2>2
<1>14. CASE AcknowledgeFinish
  <2> DEFINE r == [action.copy EXCEPT !.business = "acknowledged", !.action = "acknowledge"]
  <2>1. /\ tasks' = [tasks EXCEPT ![action.id] = r] /\ action' = NoAction
        /\ action.pc = "finish" /\ sched' = sched /\ cancelling' = cancelling
    BY <1>14 DEF AcknowledgeFinish, timing
  <2>2. r \in Task /\ ~Pending(r) /\ Same(r, action.copy)
    BY <1>1, <2>1 DEF Acting, Task, Business, ActionInv, Pending, Same
  <2> HIDE DEF r
  <2> QED
    BY <1>12, <2>1, <2>2
<1> QED
  BY <1>7, <1>8, <1>9, <1>10, <1>11, <1>13, <1>14 DEF ActionStep

\* The rows wait on when only a handler moves, and hands on what it had.
LEMMA WaitsInside ==
    ASSUME IInv, Waits, Kept, UNCHANGED <<sched, boot, edit, action, cancelling>>,
           NEW t \in Handlers, \A u \in Handlers : u # t => handler'[u] = handler[u],
           \A i \in DOMAIN tasks :
             Pending(tasks[i]) /\ HandlerWaits(t, i) /\ Pending(tasks'[i]) => Awaited(i)',
           \A i \in DOMAIN tasks' : i \notin DOMAIN tasks => Awaited(i)',
           \A i \in armed : i \in armed' \/ Awaited(i)' \/ ~Pending(tasks[i])
    PROVE  Waits'
<1>1. \A i : Closing(i)' = Closing(i)
  BY DEF Closing, SameChain
<1>2. WaitBoot'
  BY DEF Waits, WaitBoot
<1>3. WaitCancel'
  BY <1>1 DEF Waits, WaitCancel, Kept
<1>4. WaitAction'
  <2>1. action.pc # "idle" => action.id \in DOMAIN tasks
    BY DEF IInv, ActionInv
  <2>2. SameChain(action.snap)' = SameChain(action.snap)
    BY DEF SameChain
  <2> QED
    BY <2>1, <2>2 DEF Waits, WaitAction, Kept
<1>5. ASSUME NEW i \in DOMAIN tasks', Pending(tasks'[i]) PROVE Awaited(i)'
  <2>1. CASE i \in DOMAIN tasks
    <3>1. Pending(tasks[i]) /\ tasks'[i] = tasks[i]
      BY <1>5, <2>1 DEF Kept
    <3>2. Awaited(i)
      BY <2>1, <3>1 DEF Waits, WaitRows
    <3>3. ASSUME NEW u \in Handlers, HandlerWaits(u, i) PROVE Awaited(i)'
      <4>1. CASE u = t
        BY <1>5, <2>1, <3>1, <3>3, <4>1
      <4>2. CASE u # t
        <5>1. HandlerWaits(u, i)'
          BY <3>1, <3>3, <4>2 DEF HandlerWaits
        <5> QED
          BY <5>1 DEF Awaited
      <4> QED
        BY <4>1, <4>2
    <3>4. EditWaits(i)' = EditWaits(i)
      BY DEF EditWaits
    <3>5. i \in armed \ cancelling => Awaited(i)'
      BY <3>1 DEF Awaited
    <3> QED
      BY <1>1, <3>2, <3>3, <3>4, <3>5 DEF Awaited
  <2>2. CASE i \notin DOMAIN tasks
    BY <1>5, <2>2
  <2> QED
    BY <2>1, <2>2
<1> QED
  BY <1>2, <1>3, <1>4, <1>5 DEF Waits, WaitRows

\* The steps of a handler.
LEMMA WaitHandleSteps ==
    ASSUME IInv, Waits, ~Refused, NEW t \in Handlers, Handle(t)
    PROVE  Waits'
<1>1. /\ handler \in [Handlers -> Handling] /\ tasks \in Seq(Task) /\ now \in Nat
      /\ HandlerInv /\ RowInv
  BY DEF IInv, Typed, BaseOK
<1> DEFINE h == handler[t]
<1>2. h \in Handling /\ Stands(t) /\ h.copy \in Task
  BY <1>1 DEF HandlerInv, Handling
<1>3. UNCHANGED <<sched, boot, edit, action, cancelling>>
  BY DEF Handle, HandleLoadSchedule, HandleUpdate, HandleInsert, HandleRegister, HandleAnnounce,
         storage, timing
<1>4. \A x : handler' = [handler EXCEPT ![t] = x] =>
          handler'[t] = x /\ \A u \in Handlers : u # t => handler'[u] = handler[u]
  BY <1>1
<1>5. CASE HandleLoadSchedule(t)
  <2> DEFINE x == IF sched.status = "active" THEN [h EXCEPT !.pc = "update"] ELSE Idle
  <2>1. /\ tasks' = tasks /\ h.pc = "schedule" /\ armed' = armed
        /\ handler' = [handler EXCEPT ![t] = x]
    BY <1>1, <1>5 DEF HandleLoadSchedule, storage, timing
  <2>2. Kept /\ DOMAIN tasks' = DOMAIN tasks
    BY <1>1, <2>1, KeptByStuttering
  <2>3. sched.status = "active" => x.pc = "update" /\ x.id = h.id
    BY <1>2 DEF Handling
  <2> HIDE DEF x
  <2>4. handler'[t] = x /\ \A u \in Handlers : u # t => handler'[u] = handler[u]
    BY <1>4, <2>1
  <2>5. \A i : HandlerWaits(t, i) => Awaited(i)'
    BY <1>3, <2>1, <2>3, <2>4 DEF HandlerWaits, Awaited
  <2> QED
    BY <1>3, <2>1, <2>2, <2>4, <2>5, WaitsInside
<1>6. CASE HandleUpdate(t)
  <2> DEFINE r == Triggered(h.copy)
  <2>1. /\ tasks' = [tasks EXCEPT ![h.id] = r] /\ h.pc = "update" /\ armed' = armed
        /\ \E x : handler' = [handler EXCEPT ![t] = x]
    BY <1>1, <1>6 DEF HandleUpdate, timing
  <2>2. h.id \in DOMAIN tasks /\ Same(h.copy, tasks[h.id])
    BY <1>2, <2>1 DEF Stands, Busy
  <2>3. r \in Task /\ ~Pending(r) /\ Same(r, tasks[h.id])
    BY <1>2, <2>2 DEF Triggered, Task, Business, Timer, Pending, Same
  <2> HIDE DEF r
  <2>4. Kept /\ DOMAIN tasks' = DOMAIN tasks /\ tasks'[h.id] = r
    BY <1>1, <2>1, <2>2, <2>3, KeptByWriting, RowWritten
  <2>5. \A u \in Handlers : u # t => handler'[u] = handler[u]
    BY <1>4, <2>1
  <2>6. \A i : HandlerWaits(t, i) => ~Pending(tasks'[i])
    BY <2>1, <2>3, <2>4 DEF HandlerWaits
  <2> QED
    BY <1>3, <2>1, <2>4, <2>5, <2>6, WaitsInside
<1>7. CASE HandleInsert(t)
  <2> DEFINE r == NewTask(h.copy.chain, h.copy.attempt + 1, now + FollowUpDelay)
             n == Len(tasks) + 1
  <2>1. h.pc = "insert" /\ h.copy.attempt < MaximumAttempts /\ armed' = armed
    BY <1>2, <1>7 DEF HandleInsert, Stands, timing
  <2>2. r \in Task
    <3>1. /\ h.copy.chain \in Nat /\ h.copy.attempt \in 1 .. MaximumAttempts
          /\ MaximumAttempts \in Nat
      BY <1>2, ReminderAssumption DEF Task
    <3>2. h.copy.attempt + 1 \in 1 .. MaximumAttempts
      BY <2>1, <3>1
    <3>3. now + FollowUpDelay \in Nat
      BY <1>1, ReminderAssumption
    <3> QED
      BY <3>1, <3>2, <3>3 DEF NewTask, Task, Business, Timer
  <2>3. \/ tasks' = tasks /\ handler' = [handler EXCEPT ![t].pc = "announce"]
        \/ /\ tasks' = Append(tasks, r)
           /\ handler' = [handler EXCEPT ![t].pc = "register", ![t].copy = r]
    BY <1>7 DEF HandleInsert
  <2> HIDE DEF r
  <2>4. \A i : ~HandlerWaits(t, i)
    BY <2>1 DEF HandlerWaits
  <2>5. CASE tasks' = tasks /\ handler' = [handler EXCEPT ![t].pc = "announce"]
    <3>1. Kept /\ DOMAIN tasks' = DOMAIN tasks
      BY <1>1, <2>5, KeptByStuttering
    <3>2. \A u \in Handlers : u # t => handler'[u] = handler[u]
      BY <1>1, <2>5
    <3> QED
      BY <1>3, <2>1, <2>4, <3>1, <3>2, WaitsInside
  <2>6. CASE /\ tasks' = Append(tasks, r)
             /\ handler' = [handler EXCEPT ![t].pc = "register", ![t].copy = r]
    <3>1. Kept /\ DOMAIN tasks' = DOMAIN tasks \cup {n} /\ tasks'[n] = r
      BY <1>1, <2>2, <2>6, KeptByAdding, RowAdded
    <3> HIDE DEF n
    <3>2. /\ handler'[t].pc = "register" /\ handler'[t].copy = r
          /\ \A u \in Handlers : u # t => handler'[u] = handler[u]
      BY <1>1, <1>2, <2>6 DEF Handling
    <3>3. \A i \in DOMAIN tasks' : i \notin DOMAIN tasks => Awaited(i)'
      <4> SUFFICES ASSUME NEW i \in DOMAIN tasks', i \notin DOMAIN tasks PROVE Awaited(i)'
        OBVIOUS
      <4>1. i = n
        BY <3>1
      <4>2. HandlerWaits(t, i)'
        BY <3>1, <3>2, <4>1 DEF HandlerWaits, Same
      <4> QED
        BY <4>2 DEF Awaited
    <3> QED
      BY <1>3, <2>1, <2>4, <3>1, <3>2, <3>3, WaitsInside
  <2> QED
    BY <2>3, <2>5, <2>6
<1>8. CASE HandleRegister(t)
  <2> DEFINE j == RowOf(h.copy)
  <2>1. /\ \E x : handler' = [handler EXCEPT ![t] = x] /\ h.pc = "register"
        /\ tasks' = tasks /\ armed' = armed \cup {j}
    BY <1>1, <1>8 DEF HandleRegister
  <2>2. Kept /\ DOMAIN tasks' = DOMAIN tasks
    BY <1>1, <2>1, KeptByStuttering
  <2>3. \A u \in Handlers : u # t => handler'[u] = handler[u]
    BY <1>4, <2>1
  <2>4. j \in DOMAIN tasks /\ Same(h.copy, tasks[j])
    <3>1. \E k \in DOMAIN tasks :
            tasks[k].chain = h.copy.chain /\ tasks[k].attempt = h.copy.attempt
      BY <1>2, <2>1 DEF Stands, Same
    <3> QED
      BY <3>1 DEF RowOf, Same
  <2> HIDE DEF j
  <2>5. ASSUME NEW i \in DOMAIN tasks, Pending(tasks[i]), HandlerWaits(t, i) PROVE Awaited(i)'
    <3>1. i = j
      BY <1>1, <2>1, <2>4, <2>5 DEF HandlerWaits, Same, RowInv
    <3>2. Closing(i)' = Closing(i)
      BY <1>3 DEF Closing, SameChain
    <3>3. i \in armed'
      BY <2>1, <3>1
    <3> QED
      BY <1>3, <2>5, <3>2, <3>3 DEF Awaited, Waits, WaitCancel
  <2> QED
    BY <1>3, <2>1, <2>2, <2>3, <2>5, WaitsInside
<1>9. CASE HandleAnnounce(t)
  <2>1. /\ tasks' = tasks /\ armed' = armed /\ handler' = [handler EXCEPT ![t] = Idle]
        /\ h.pc = "announce"
    BY <1>9 DEF HandleAnnounce, storage, timing
  <2>2. Kept /\ DOMAIN tasks' = DOMAIN tasks
    BY <1>1, <2>1, KeptByStuttering
  <2>3. \A i : ~HandlerWaits(t, i)
    BY <2>1 DEF HandlerWaits
  <2>4. \A u \in Handlers : u # t => handler'[u] = handler[u]
    BY <1>4, <2>1
  <2> QED
    BY <1>3, <2>1, <2>2, <2>3, <2>4, WaitsInside
<1> QED
  BY <1>5, <1>6, <1>7, <1>8, <1>9 DEF Handle

\* A handler that enters takes the row if it is pending.
LEMMA WaitEnter ==
    ASSUME IInv, NEW t \in Handlers, NEW i, Enter(t, i), handler[t].pc = "idle"
    PROVE  /\ \A u \in Handlers : u # t => handler'[u] = handler[u]
           /\ Pending(tasks[i]) => HandlerWaits(t, i)'
           /\ \A j : ~HandlerWaits(t, j)
<1>1. handler \in [Handlers -> Handling]
  BY DEF IInv, Typed
<1>2. \A j : ~HandlerWaits(t, j)
  BY DEF HandlerWaits
<1>3. CASE Pending(tasks[i])
  <2> DEFINE x == [pc |-> "schedule", id |-> i, copy |-> tasks[i], stale |-> tasks[i].chain \in acked]
  <2>1. handler' = [handler EXCEPT ![t] = x] /\ x.pc = "schedule" /\ x.id = i
    BY <1>3 DEF Enter
  <2> HIDE DEF x
  <2>2. handler'[t] = x /\ \A u \in Handlers : u # t => handler'[u] = handler[u]
    BY <1>1, <2>1
  <2>3. ASSUME NEW k, k = i PROVE HandlerWaits(t, k)'
    BY <2>1, <2>2, <2>3 DEF HandlerWaits
  <2> QED
    BY <1>2, <2>2, <2>3
<1>4. CASE ~Pending(tasks[i])
  BY <1>2, <1>4 DEF Enter
<1> QED
  BY <1>3, <1>4

\* The rows wait on in Start, when each is handed on.
LEMMA WaitsBoot ==
    ASSUME IInv, Waits, Kept, UNCHANGED <<sched, edit, action, cancelling>>, boot.pc # "up",
           boot'.ok, boot'.pc # "failed",
           \A i \in DOMAIN tasks' :
             \/ ~Pending(tasks'[i]) \/ Awaited(i)'
             \/ /\ i \in DOMAIN tasks /\ boot.pc \notin {"down", "register"} /\ i \notin boot.todo
                /\ i \in armed => i \in armed'
                /\ \A t \in Handlers : HandlerWaits(t, i) => handler'[t] = handler[t]
    PROVE  Waits'
<1>1. cancelling = {} /\ edit.pc = "idle" /\ action.pc = "idle"
  BY DEF IInv, PhaseInv, Waits, WaitBoot
<1>2. WaitBoot' /\ WaitCancel' /\ WaitAction'
  BY <1>1 DEF WaitBoot, WaitCancel, WaitAction
<1>3. ASSUME NEW i \in DOMAIN tasks, Pending(tasks'[i]), boot.pc \notin {"down", "register"},
             i \notin boot.todo, i \in armed => i \in armed',
             \A t \in Handlers : HandlerWaits(t, i) => handler'[t] = handler[t]
      PROVE  Awaited(i)'
  <2>1. Pending(tasks[i]) /\ tasks'[i] = tasks[i]
    BY <1>3 DEF Kept
  <2>2. Awaited(i)
    BY <2>1 DEF Waits, WaitRows
  <2>3. ~EditWaits(i) /\ ~Closing(i)
    BY <1>1 DEF EditWaits, Closing
  <2>4. \A t \in Handlers : HandlerWaits(t, i) => HandlerWaits(t, i)'
    BY <1>3, <2>1 DEF HandlerWaits
  <2> QED
    BY <1>1, <1>3, <2>2, <2>3, <2>4 DEF Awaited
<1> QED
  BY <1>2, <1>3 DEF Waits, WaitRows

\* The steps of Start.
LEMMA WaitBootSteps ==
    ASSUME IInv, Waits, ~Refused, BootStep
    PROVE  Waits'
<1>1. /\ tasks \in Seq(Task) /\ chainSeq \in Nat /\ sched \in Schedule /\ boot \in Booting
      /\ PhaseInv /\ BootInv /\ boot.ok /\ boot.pc # "failed"
  BY DEF IInv, Typed, BaseOK, Waits, WaitBoot
<1>2. boot.pc # "up" /\ UNCHANGED <<sched, edit, action, cancelling>>
  <2>1. boot.pc # "up" /\ UNCHANGED <<sched, edit, action>>
    BY DEF BootStep, BootBegin, BootRestore, BootSchedule, BootInsert, BootRegister, BootDone,
           storage
  <2>2. cancelling' = cancelling
    BY <1>1 DEF BootStep, BootBegin, BootRestore, BootSchedule, BootInsert, BootRegister, BootDone,
           timing
  <2> QED
    BY <2>1, <2>2
<1>3. cancelling = {} /\ cancelling' = {}
  BY <1>2 DEF Waits, WaitBoot
<1>4. tasks' = tasks => Kept /\ DOMAIN tasks' = DOMAIN tasks
  BY <1>1, KeptByStuttering
<1>5. CASE BootBegin
  <2>1. tasks' = tasks /\ boot'.todo = PendingIn(tasks) /\ boot'.ok /\ boot'.pc = "restore"
    BY <1>5 DEF BootBegin, storage
  <2> QED
    BY <1>2, <1>4, <2>1, WaitsBoot DEF Awaited, PendingIn
<1>6. CASE BootRestore
  <2> DEFINE k == Smallest(boot.todo)
             r == [boot.snap[k] EXCEPT !.timer = "cancelled", !.business = "cancelled"]
  <2>1. /\ boot.todo # {} /\ boot.todo \in SUBSET Nat /\ boot.todo \subseteq DOMAIN boot.snap
        /\ boot.snap \in Seq(Task) /\ Copies(boot.snap) /\ boot.pc = "restore"
        /\ handler["main"].pc = "idle"
    BY <1>1, <1>6 DEF BootRestore, Booting, BootInv
  <2>2. k \in boot.todo
    BY <2>1, SmallestIsIn
  <2>3. k \in DOMAIN tasks /\ boot.snap[k] \in Task /\ Same(boot.snap[k], tasks[k])
    BY <2>1, <2>2 DEF Copies
  <2>4. boot' = [boot EXCEPT !.todo = @ \ {k}]
    BY <1>6 DEF BootRestore
  <2>5. boot'.pc = "restore" /\ boot'.ok /\ boot'.todo = boot.todo \ {k}
    BY <1>1, <2>1, <2>4 DEF Booting
  <2>6. \/ tasks' = [tasks EXCEPT ![k] = r] /\ UNCHANGED <<armed, handler>>
        \/ Enter("main", k) /\ UNCHANGED <<tasks, armed>>
        \/ armed' = armed \cup {k} /\ UNCHANGED <<tasks, handler>>
    BY <1>6 DEF BootRestore
  <2> HIDE DEF k
  <2>7. r \in Task /\ ~Pending(r) /\ Same(r, tasks[k])
    BY <2>3 DEF Task, Business, Timer, Pending, Same
  <2> HIDE DEF r
  <2>8. \A i \in boot.todo : i # k => Awaited(i)'
    BY <2>5 DEF Awaited
  <2>9. CASE tasks' = [tasks EXCEPT ![k] = r] /\ UNCHANGED <<armed, handler>>
    <3>1. Kept /\ DOMAIN tasks' = DOMAIN tasks /\ tasks'[k] = r
      BY <1>1, <2>3, <2>7, <2>9, KeptByWriting, RowWritten
    <3> QED
      BY <1>2, <2>1, <2>5, <2>7, <2>8, <2>9, <3>1, WaitsBoot
  <2>10. CASE Enter("main", k) /\ UNCHANGED <<tasks, armed>>
    <3>1. "main" \in Handlers
      BY DEF Handlers
    <3>2. /\ \A u \in Handlers : u # "main" => handler'[u] = handler[u]
          /\ \A j : ~HandlerWaits("main", j)
      BY <2>1, <2>10, <3>1, WaitEnter
    <3>3. ASSUME NEW i, i = k, Pending(tasks[i]) PROVE Awaited(i)'
      <4>1. HandlerWaits("main", i)'
        BY <2>1, <2>10, <3>1, <3>3, WaitEnter
      <4> QED
        BY <3>1, <4>1 DEF Awaited
    <3> QED
      BY <1>2, <1>4, <2>1, <2>5, <2>8, <2>10, <3>2, <3>3, WaitsBoot
  <2>11. CASE armed' = armed \cup {k} /\ UNCHANGED <<tasks, handler>>
    <3>1. \A i : i = k => Awaited(i)'
      BY <1>3, <2>11 DEF Awaited
    <3> QED
      BY <1>2, <1>4, <2>1, <2>5, <2>8, <2>11, <3>1, WaitsBoot
  <2> QED
    BY <2>6, <2>9, <2>10, <2>11
<1>7. CASE BootSchedule
  <2>1. /\ UNCHANGED <<tasks, armed, handler>> /\ boot.pc = "restore" /\ boot.todo = {}
        /\ boot'.ok /\ boot'.pc \in {"insert", "done"}
    BY <1>1, <1>7 DEF BootSchedule, storage, timing, Booting
  <2> QED
    BY <1>2, <1>4, <2>1, WaitsBoot
<1>8. CASE BootInsert
  <2> DEFINE r == NewTask(chainSeq + 1, 1, sched.start)
  <2>1. tasks' = Append(tasks, r) /\ boot'.pc = "register" /\ boot'.ok
    BY <1>1, <1>8 DEF BootInsert, Booting
  <2>2. r \in Task
    BY <1>1, ReminderAssumption DEF Schedule, NewTask, Task, Business, Timer
  <2> HIDE DEF r
  <2>3. Kept
    BY <1>1, <2>1, <2>2, KeptByAdding
  <2> QED
    BY <1>2, <2>1, <2>3, WaitsBoot DEF Awaited
<1>9. CASE BootRegister
  <2>1. /\ boot.pc = "register" /\ tasks' = tasks /\ armed' = armed \cup {Len(tasks)}
        /\ boot'.ok /\ boot'.pc = "done"
    BY <1>1, <1>9 DEF BootRegister, Booting
  <2>2. DOMAIN tasks = {1} /\ Len(tasks) = 1
    <3>1. Len(tasks) = 1
      BY <1>1, <2>1 DEF PhaseInv
    <3> QED
      BY <1>1, <3>1
  <2>3. \A i \in DOMAIN tasks : Awaited(i)'
    BY <1>3, <2>1, <2>2 DEF Awaited
  <2> QED
    BY <1>2, <1>4, <2>1, <2>3, WaitsBoot
<1>10. CASE BootDone
  <2>1. /\ UNCHANGED <<tasks, armed, handler>> /\ boot.pc = "done" /\ boot.todo = {}
        /\ boot' = [Down EXCEPT !.pc = "up"]
    BY <1>1, <1>10 DEF BootDone, storage, timing, PhaseInv
  <2>2. boot'.ok /\ boot'.pc = "up"
    BY <2>1 DEF Down
  <2> QED
    BY <1>2, <1>4, <2>1, <2>2, WaitsBoot
<1> QED
  BY <1>5, <1>6, <1>7, <1>8, <1>9, <1>10 DEF BootStep

\* The other steps; after a power failure all rows wait for Start.
LEMMA WaitOtherSteps ==
    ASSUME IInv, Waits, Tick \/ Crash \/ TimingStep \/ UNCHANGED vars
    PROVE  Waits'
<1>1. tasks \in Seq(Task)
  BY DEF IInv, Typed, BaseOK
<1>2. tasks' = tasks
  BY DEF Tick, Crash, TimingStep, ApplyCancel, Fire, vars, storage
<1>3. Kept /\ DOMAIN tasks' = DOMAIN tasks
  BY <1>1, <1>2, KeptByStuttering
<1>4. CASE Tick \/ UNCHANGED vars
  <2>1. UNCHANGED <<sched, armed, cancelling, boot, handler, edit, action>>
    BY <1>4 DEF Tick, vars, storage, timing
  <2>2. \A i : EditWaits(i)' = EditWaits(i)
    BY <2>1 DEF EditWaits
  <2> QED
    BY <1>2, <1>3, <2>1, <2>2, WaitsOutside DEF Awaited
<1>5. CASE Crash
  <2>1. boot' = Down /\ action' = NoAction /\ cancelling' = {}
    BY <1>5 DEF Crash
  <2>2. boot'.pc = "down" /\ boot'.ok /\ action'.pc = "idle"
    BY <2>1, Defaults DEF Down
  <2> QED
    BY <2>1, <2>2 DEF Waits, WaitBoot, WaitCancel, WaitAction, WaitRows, Awaited
<1>6. ASSUME NEW k \in DOMAIN tasks, Fire(k) PROVE Waits'
  <2>1. /\ handler["runner"].pc = "idle" /\ armed' = armed \ {k} /\ Enter("runner", k)
        /\ UNCHANGED <<sched, cancelling, boot, edit, action>>
    BY <1>6 DEF Fire, storage
  <2>2. "runner" \in Handlers
    BY DEF Handlers
  <2>3. /\ \A u \in Handlers : u # "runner" => handler'[u] = handler[u]
        /\ Pending(tasks[k]) => HandlerWaits("runner", k)'
        /\ \A j : ~HandlerWaits("runner", j)
    BY <2>1, <2>2, WaitEnter
  <2>4. Pending(tasks[k]) => Awaited(k)'
    BY <2>2, <2>3 DEF Awaited
  <2> QED
    BY <1>2, <1>3, <2>1, <2>2, <2>3, <2>4, WaitsInside
<1>7. ASSUME NEW k \in DOMAIN tasks, ApplyCancel(k) PROVE Waits'
  <2>1. /\ UNCHANGED <<sched, boot, handler, edit, action>> /\ k \in cancelling
        /\ armed' = armed \ {k} /\ cancelling' = cancelling \ {k}
    BY <1>7 DEF ApplyCancel, storage
  <2>2. \A i : Closing(i)' = Closing(i) /\ EditWaits(i)' = EditWaits(i)
    BY <2>1 DEF Closing, SameChain, EditWaits
  <2>3. \A i, t : HandlerWaits(t, i)' = HandlerWaits(t, i)
    BY <1>2, <2>1 DEF HandlerWaits
  <2>4. WaitBoot' /\ WaitCancel'
    BY <1>2, <2>1, <2>2 DEF Waits, WaitBoot, WaitCancel
  <2>5. WaitAction'
    BY <1>2, <2>1 DEF Waits, WaitAction, SameChain
  <2>6. \A i : Awaited(i) => Awaited(i)'
    BY <2>1, <2>2, <2>3 DEF Awaited
  <2> QED
    BY <1>2, <2>4, <2>5, <2>6 DEF Waits, WaitRows
<1> QED
  BY <1>4, <1>5, <1>6, <1>7 DEF TimingStep

\* While no command is refused, somebody waits for every pending row.
LEMMA WaitAlways == Spec => []WaitInv
<1>1. Init => WaitInv
  BY Defaults DEF Init, WaitInv, Spent, Waits, WaitBoot, WaitCancel, WaitAction, WaitRows, Down
<1>2. IInv /\ WaitInv /\ [Next]_vars => WaitInv'
  <2> SUFFICES ASSUME IInv, WaitInv, [Next]_vars PROVE WaitInv'
    OBVIOUS
  <2>1. spent' \in Spent /\ (NoneRefused' => NoneRefused /\ ~Refused)
    BY SpentSteps DEF WaitInv
  <2>2. ASSUME NoneRefused' PROVE Waits'
    <3>1. Waits /\ ~Refused
      BY <2>1, <2>2 DEF WaitInv
    <3> QED
      BY <3>1, WaitActionSteps, WaitHandleSteps, WaitBootSteps, WaitEditSteps, WaitOtherSteps
         DEF Next
  <2> QED
    BY <2>1, <2>2 DEF WaitInv
<1> QED
  BY <1>1, <1>2, Inductive, PTL DEF Spec

\* Who may close the pending row i.
Closes(i) ==
    \/ Refused \/ sched.status # "active" \/ CancelPendingTask
    \/ \E t \in Handlers : handler[t].pc = "update" /\ handler[t].id = i
    \/ action.pc = "others" /\ i \in action.todo
    \/ action.pc \in {"snooze", "finish"} /\ i = action.id

\* A new row begins a chain, or follows the attempt of a handler.
Begins(r) == r.attempt = 1 /\ r.chain = chainSeq + 1

Follows(r) ==
    \E t \in Handlers : /\ handler[t].pc = "insert"
                        /\ r.chain = handler[t].copy.chain
                        /\ r.attempt = handler[t].copy.attempt + 1

\* What a step does to the rows.
RowStep ==
    /\ Kept
    /\ \A i \in DOMAIN tasks : Pending(tasks[i]) => Pending(tasks'[i]) \/ Closes(i)
    /\ \A n \in DOMAIN tasks' : n \notin DOMAIN tasks => Begins(tasks'[n]) \/ Follows(tasks'[n])

\* No row changes.
LEMMA RowStepNone ==
    ASSUME tasks \in Seq(Task), tasks' = tasks
    PROVE  RowStep
  BY KeptByStuttering DEF RowStep

\* One row is closed.
LEMMA RowStepWrite ==
    ASSUME tasks \in Seq(Task), NEW i \in DOMAIN tasks, NEW r \in Task,
           tasks' = [tasks EXCEPT ![i] = r], Same(r, tasks[i]), ~Pending(r), Closes(i)
    PROVE  RowStep
<1>1. Kept /\ DOMAIN tasks' = DOMAIN tasks
  BY KeptByWriting
<1>2. \A j \in DOMAIN tasks : j # i => tasks'[j] = tasks[j]
  BY RowWritten
<1> QED
  BY <1>1, <1>2 DEF RowStep

\* One row is added.
LEMMA RowStepAdd ==
    ASSUME tasks \in Seq(Task), NEW r \in Task, tasks' = Append(tasks, r), Begins(r) \/ Follows(r)
    PROVE  RowStep
<1> DEFINE n == Len(tasks) + 1
<1>1. Kept
  BY KeptByAdding
<1>2. /\ DOMAIN tasks' = DOMAIN tasks \cup {n} /\ tasks'[n] = r
      /\ \A j \in DOMAIN tasks : tasks'[j] = tasks[j]
  BY RowAdded
<1> HIDE DEF n
<1>3. \A j \in DOMAIN tasks' : j \notin DOMAIN tasks => tasks'[j] = r
  BY <1>2
<1> QED
  BY <1>1, <1>2, <1>3 DEF RowStep

\* The steps of a handler.
LEMMA RowStepHandle ==
    ASSUME IInv, NEW t \in Handlers, Handle(t)
    PROVE  RowStep
<1>1. /\ handler \in [Handlers -> Handling] /\ tasks \in Seq(Task) /\ now \in Nat /\ HandlerInv
  BY DEF IInv, Typed, BaseOK
<1> DEFINE h == handler[t]
<1>2. h \in Handling /\ Stands(t) /\ h.copy \in Task
  BY <1>1 DEF HandlerInv, Handling
<1>3. CASE HandleUpdate(t)
  <2> DEFINE r == Triggered(h.copy)
  <2>1. tasks' = [tasks EXCEPT ![h.id] = r] /\ h.pc = "update"
    BY <1>3 DEF HandleUpdate
  <2>2. PICK i \in DOMAIN tasks : i = h.id /\ Same(h.copy, tasks[i])
    BY <1>2, <2>1 DEF Stands, Busy
  <2>3. r \in Task /\ ~Pending(r) /\ Same(r, tasks[i])
    BY <1>2, <2>2 DEF Triggered, Task, Business, Timer, Pending, Same
  <2> HIDE DEF r
  <2>4. Closes(i)
    BY <2>1, <2>2 DEF Closes
  <2> QED
    BY <1>1, <2>1, <2>2, <2>3, <2>4, RowStepWrite
<1>4. CASE HandleInsert(t)
  <2> DEFINE r == NewTask(h.copy.chain, h.copy.attempt + 1, now + FollowUpDelay)
  <2>1. h.pc = "insert" /\ h.copy.attempt < MaximumAttempts
    BY <1>2, <1>4 DEF HandleInsert, Stands
  <2>2. r \in Task /\ r.chain = h.copy.chain /\ r.attempt = h.copy.attempt + 1
    <3>1. /\ h.copy.chain \in Nat /\ h.copy.attempt \in 1 .. MaximumAttempts
          /\ MaximumAttempts \in Nat
      BY <1>2, ReminderAssumption DEF Task
    <3>2. h.copy.attempt + 1 \in 1 .. MaximumAttempts
      BY <2>1, <3>1
    <3>3. now + FollowUpDelay \in Nat
      BY <1>1, ReminderAssumption
    <3> QED
      BY <3>1, <3>2, <3>3 DEF NewTask, Task, Business, Timer
  <2>3. tasks' = tasks \/ tasks' = Append(tasks, r)
    BY <1>4 DEF HandleInsert
  <2> HIDE DEF r
  <2>4. Follows(r)
    BY <2>1, <2>2 DEF Follows
  <2> QED
    BY <1>1, <2>2, <2>3, <2>4, RowStepNone, RowStepAdd
<1>5. CASE HandleRegister(t)
  <2> DEFINE j == RowOf(h.copy)
             r == [h.copy EXCEPT !.timer = "failed"]
  <2>1. /\ h.pc = "register"
        /\ tasks' = tasks \/ (Refused /\ tasks' = [tasks EXCEPT ![j] = r])
    BY <1>5 DEF HandleRegister
  <2>2. j \in DOMAIN tasks /\ Same(h.copy, tasks[j])
    <3>1. \E k \in DOMAIN tasks :
            tasks[k].chain = h.copy.chain /\ tasks[k].attempt = h.copy.attempt
      BY <1>2, <2>1 DEF Stands, Same
    <3> QED
      BY <3>1 DEF RowOf, Same
  <2> HIDE DEF j
  <2>3. r \in Task /\ ~Pending(r) /\ Same(r, tasks[j])
    BY <1>2, <2>2 DEF Task, Timer, Pending, Same
  <2> HIDE DEF r
  <2>4. Refused => Closes(j)
    BY DEF Closes
  <2> QED
    BY <1>1, <2>1, <2>2, <2>3, <2>4, RowStepNone, RowStepWrite
<1>6. CASE HandleLoadSchedule(t) \/ HandleAnnounce(t)
  BY <1>1, <1>6, RowStepNone DEF HandleLoadSchedule, HandleAnnounce, storage
<1> QED
  BY <1>3, <1>4, <1>5, <1>6 DEF Handle

\* The steps of Start.
LEMMA RowStepBoot ==
    ASSUME IInv, BootStep
    PROVE  RowStep
<1>1. /\ tasks \in Seq(Task) /\ chainSeq \in Nat /\ sched \in Schedule /\ boot \in Booting
      /\ PhaseInv /\ BootInv
  BY DEF IInv, Typed, BaseOK
<1>2. CASE BootRestore
  <2> DEFINE i == Smallest(boot.todo)
             r == [boot.snap[i] EXCEPT !.timer = "cancelled", !.business = "cancelled"]
  <2>1. boot.todo # {} /\ boot.todo \in SUBSET Nat /\ boot.todo \subseteq DOMAIN boot.snap
        /\ boot.snap \in Seq(Task) /\ Copies(boot.snap)
    BY <1>1, <1>2 DEF BootRestore, Booting, BootInv
  <2>2. i \in boot.todo
    BY <2>1, SmallestIsIn
  <2>3. i \in DOMAIN tasks /\ boot.snap[i] \in Task /\ Same(boot.snap[i], tasks[i])
    BY <2>1, <2>2 DEF Copies
  <2>4. tasks' = tasks \/ (sched.status # "active" /\ tasks' = [tasks EXCEPT ![i] = r])
    BY <1>2 DEF BootRestore
  <2> HIDE DEF i
  <2>5. r \in Task /\ ~Pending(r) /\ Same(r, tasks[i])
    BY <2>3 DEF Task, Business, Timer, Pending, Same
  <2> HIDE DEF r
  <2>6. sched.status # "active" => Closes(i)
    BY DEF Closes
  <2> QED
    BY <1>1, <2>3, <2>4, <2>5, <2>6, RowStepNone, RowStepWrite
<1>3. CASE BootInsert
  <2> DEFINE r == NewTask(chainSeq + 1, 1, sched.start)
  <2>1. tasks' = Append(tasks, r)
    BY <1>3 DEF BootInsert
  <2>2. r \in Task /\ r.chain = chainSeq + 1 /\ r.attempt = 1
    BY <1>1, ReminderAssumption DEF Schedule, NewTask, Task, Business, Timer
  <2> HIDE DEF r
  <2> QED
    BY <1>1, <2>1, <2>2, RowStepAdd DEF Begins
<1>4. CASE BootRegister
  <2> DEFINE n == Len(tasks)
             r == [tasks[n] EXCEPT !.timer = "failed"]
  <2>1. /\ boot.pc = "register"
        /\ tasks' = tasks \/ (Refused /\ tasks' = [tasks EXCEPT ![n].timer = "failed"])
    BY <1>4 DEF BootRegister
  <2>2. Len(tasks) = 1
    BY <1>1, <2>1 DEF PhaseInv
  <2>3. n \in DOMAIN tasks /\ tasks[n] \in Task
    BY <1>1, <2>2
  <2>4. CASE Refused /\ tasks' = [tasks EXCEPT ![n].timer = "failed"]
    <3>1. tasks' = [tasks EXCEPT ![n] = r]
      BY <1>1, <2>3, <2>4
    <3> HIDE DEF n
    <3>2. r \in Task /\ ~Pending(r) /\ Same(r, tasks[n])
      BY <2>3 DEF Task, Timer, Pending, Same
    <3> HIDE DEF r
    <3>3. Closes(n)
      BY <2>4 DEF Closes
    <3> QED
      BY <1>1, <2>3, <3>1, <3>2, <3>3, RowStepWrite
  <2> QED
    BY <1>1, <2>1, <2>4, RowStepNone
<1>5. CASE BootBegin \/ BootSchedule \/ BootDone
  BY <1>1, <1>5, RowStepNone DEF BootBegin, BootSchedule, BootDone, storage
<1> QED
  BY <1>2, <1>3, <1>4, <1>5 DEF BootStep

\* The steps of the MCP worker.
LEMMA RowStepEdit ==
    ASSUME IInv, UpdateBegin \/ Delete \/ EditStep
    PROVE  RowStep
<1>1. tasks \in Seq(Task) /\ chainSeq \in Nat /\ edit \in Editing /\ EditInv /\ OwnInv
  BY DEF IInv, Typed, BaseOK
<1>2. CASE CancelPendingTask
  <2> DEFINE i == Smallest(edit.todo)
             r == [edit.snap[i] EXCEPT !.timer = "cancelled", !.business = "cancelled"]
  <2>1. edit.todo # {} /\ edit.todo \in SUBSET Nat /\ edit.todo \subseteq DOMAIN edit.snap
        /\ edit.snap \in Seq(Task) /\ Copies(edit.snap)
    BY <1>1, <1>2 DEF CancelPendingTask, Editing, EditInv
  <2>2. i \in edit.todo
    BY <2>1, SmallestIsIn
  <2>3. i \in DOMAIN tasks /\ edit.snap[i] \in Task /\ Same(edit.snap[i], tasks[i])
    BY <2>1, <2>2 DEF Copies
  <2>4. tasks' = tasks \/ tasks' = [tasks EXCEPT ![i] = r]
    BY <1>2 DEF CancelPendingTask
  <2> HIDE DEF i
  <2>5. r \in Task /\ ~Pending(r) /\ Same(r, tasks[i])
    BY <2>3 DEF Task, Business, Timer, Pending, Same
  <2> HIDE DEF r
  <2>6. Closes(i)
    BY <1>2 DEF Closes
  <2> QED
    BY <1>1, <2>3, <2>4, <2>5, <2>6, RowStepNone, RowStepWrite
<1>3. edit.copy.start \in Nat /\ 1 \in 1 .. MaximumAttempts
  BY <1>1, ReminderAssumption DEF Editing, Schedule
<1>4. CASE SyncInsert
  <2> DEFINE r == NewTask(chainSeq + 1, 1, edit.copy.start)
  <2>1. tasks' = Append(tasks, r)
    BY <1>4 DEF SyncInsert
  <2>2. r \in Task /\ r.chain = chainSeq + 1 /\ r.attempt = 1
    BY <1>1, <1>3 DEF NewTask, Task, Business, Timer
  <2> HIDE DEF r
  <2> QED
    BY <1>1, <2>1, <2>2, RowStepAdd DEF Begins
<1>5. CASE SyncRegister
  <2> DEFINE f == NewTask(chainSeq, 1, edit.copy.start)
             r == [f EXCEPT !.timer = "failed"]
  <2>1. PICK n \in DOMAIN tasks : /\ edit.todo = {n} /\ tasks[n].chain = chainSeq
                                  /\ tasks[n].attempt = 1
    BY <1>1, <1>5 DEF OwnInv, SyncRegister
  <2>2. \/ tasks' = tasks
        \/ /\ Refused
           /\ tasks' = [i \in DOMAIN tasks |-> IF i \in edit.todo THEN r ELSE tasks[i]]
    BY <1>5 DEF SyncRegister
  <2>3. f \in Task /\ f.chain = chainSeq /\ f.attempt = 1
    BY <1>1, <1>3 DEF NewTask, Task, Business, Timer
  <2> HIDE DEF f
  <2>4. r \in Task /\ ~Pending(r) /\ Same(r, tasks[n])
    BY <2>1, <2>3 DEF Task, Timer, Pending, Same
  <2> HIDE DEF r
  <2>5. tasks' = tasks \/ (Refused /\ tasks' = [tasks EXCEPT ![n] = r])
    BY <1>1, <2>1, <2>2
  <2>6. Refused => Closes(n)
    BY DEF Closes
  <2> QED
    BY <1>1, <2>1, <2>4, <2>5, <2>6, RowStepNone, RowStepWrite
<1>6. CASE UpdateBegin \/ Delete \/ (\E s \in Starts : UpdateWrite(s)) \/ SyncLoad \/ SyncSnapshot
           \/ SyncDone
  BY <1>1, <1>6, RowStepNone DEF UpdateBegin, Delete, UpdateWrite, SyncLoad, SyncSnapshot, SyncDone,
                                 storage
<1> QED
  BY <1>2, <1>4, <1>5, <1>6 DEF EditStep

\* The steps of an action.
LEMMA RowStepAction ==
    ASSUME IInv,
           ActionStep \/ \E i \in DOMAIN tasks, k \in {"acknowledge", "snooze"},
                            via \in {"voice", "im"} : ActionBegin(i, k, via)
    PROVE  RowStep
<1>1. tasks \in Seq(Task) /\ action \in Acting /\ ActionInv
  BY DEF IInv, Typed, BaseOK
<1>2. CASE \/ ActionSnapshot \/ AcknowledgeCancel \/ AcknowledgeLoad \/ CompleteLoad \/ CompleteStore
           \/ \E i \in DOMAIN tasks, k \in {"acknowledge", "snooze"},
                 via \in {"voice", "im"} : ActionBegin(i, k, via)
  <2>1. tasks' = tasks
    BY <1>2 DEF ActionSnapshot, AcknowledgeCancel, AcknowledgeLoad, CompleteLoad, CompleteStore,
                ActionBegin, storage
  <2> QED
    BY <1>1, <2>1, RowStepNone
<1>3. CASE AcknowledgeOthers
  <2>1. /\ action.pc = "others" /\ action.todo \in SUBSET Nat
        /\ action.todo \subseteq DOMAIN action.snap /\ action.snap \in Seq(Task)
        /\ Copies(action.snap)
    BY <1>1, <1>3 DEF AcknowledgeOthers, ActionInv, Acting
  <2> DEFINE i == Smallest(action.todo)
             s == action.snap[i]
             r == Closed(s)
  <2>2. tasks' = tasks \/ (action.todo # {} /\ tasks' = [tasks EXCEPT ![i] = r])
    BY <1>3 DEF AcknowledgeOthers
  <2>3. CASE action.todo # {} /\ tasks' = [tasks EXCEPT ![i] = r]
    <3>1. i \in action.todo
      BY <2>1, <2>3, SmallestIsIn
    <3>2. i \in DOMAIN tasks /\ s \in Task /\ Same(s, tasks[i])
      BY <2>1, <3>1 DEF Copies
    <3> HIDE DEF i, s
    <3>3. r \in Task /\ ~Pending(r) /\ Same(r, tasks[i])
      BY <3>2 DEF Closed, Task, Pending, Business, Timer, Same
    <3> HIDE DEF r
    <3>4. Closes(i)
      BY <2>1, <3>1 DEF Closes
    <3> QED
      BY <1>1, <2>3, <3>2, <3>3, <3>4, RowStepWrite
  <2> QED
    BY <1>1, <2>2, <2>3, RowStepNone
<1>4. ASSUME NEW r \in Task, action.pc \in {"snooze", "finish"}, ~Pending(r),
             Same(r, action.copy), tasks' = [tasks EXCEPT ![action.id] = r]
      PROVE  RowStep
  <2>1. PICK i \in DOMAIN tasks : i = action.id /\ Same(r, tasks[i])
    BY <1>1, <1>4 DEF ActionInv, Same
  <2>2. Closes(i)
    BY <1>4, <2>1 DEF Closes
  <2> QED
    BY <1>1, <1>4, <2>1, <2>2, RowStepWrite
<1>5. CASE SnoozeWrite
  <2> DEFINE r == [action.copy EXCEPT !.business = "snoozed", !.action = "snooze"]
  <2>1. tasks' = [tasks EXCEPT ![action.id] = r] /\ action.pc = "snooze"
    BY <1>5 DEF SnoozeWrite
  <2>2. r \in Task /\ ~Pending(r) /\ Same(r, action.copy)
    BY <1>1, <2>1 DEF Acting, Task, Business, ActionInv, Pending, Same
  <2> HIDE DEF r
  <2> QED
    BY <1>4, <2>1, <2>2
<1>6. CASE AcknowledgeFinish
  <2> DEFINE r == [action.copy EXCEPT !.business = "acknowledged", !.action = "acknowledge"]
  <2>1. tasks' = [tasks EXCEPT ![action.id] = r] /\ action.pc = "finish"
    BY <1>6 DEF AcknowledgeFinish
  <2>2. r \in Task /\ ~Pending(r) /\ Same(r, action.copy)
    BY <1>1, <2>1 DEF Acting, Task, Business, ActionInv, Pending, Same
  <2> HIDE DEF r
  <2> QED
    BY <1>4, <2>1, <2>2
<1> QED
  BY <1>2, <1>3, <1>5, <1>6 DEF ActionStep

\* Every step.
LEMMA RowSteps ==
    ASSUME IInv, [Next]_vars
    PROVE  RowStep
<1>1. CASE Tick \/ Crash \/ TimingStep \/ UNCHANGED vars
  <2>1. tasks' = tasks /\ tasks \in Seq(Task)
    BY <1>1 DEF Tick, Crash, TimingStep, ApplyCancel, Fire, vars, storage, IInv, Typed, BaseOK
  <2> QED
    BY <2>1, RowStepNone
<1> QED
  BY <1>1, RowStepHandle, RowStepBoot, RowStepEdit, RowStepAction DEF Next

\* The first task of the start that is still to come.
Covers(i) == Pending(tasks[i]) /\ tasks[i].attempt = 1 /\ tasks[i].at = sched.start

\* A handler takes a pending row when it is due.
DueInv ==
    /\ \A t \in Handlers : Busy(t) /\ Pending(tasks[handler[t].id]) => tasks[handler[t].id].at <= now
    /\ \A i \in boot.todo : Pending(tasks[i]) => boot.snap[i] = tasks[i]

\* The first task of a chain is not pending when there is a second.
FirstInv ==
    \A i, j \in DOMAIN tasks :
        tasks[i].chain = tasks[j].chain /\ tasks[i].attempt > 1 /\ tasks[j].attempt = 1
          => ~Pending(tasks[j])

\* A synchronisation of an active schedule works on its current row.
SyncInv ==
    /\ edit.ok
    /\ edit.pc = "write" => edit.op = "update"
    /\ sched.status = "active" =>
         /\ edit.pc \in {"load", "snapshot", "cancel", "insert", "register"} => edit.op = "update"
         /\ edit.pc \in {"snapshot", "cancel", "insert", "register"} => edit.copy = sched

\* A start still to come has its task, or will have.
StartInv ==
    sched.status = "active" /\ sched.start > now =>
        \/ \E i \in DOMAIN tasks : Covers(i)
        \/ edit.pc \in {"load", "snapshot", "cancel", "insert"}
        \/ tasks = <<>> /\ boot.pc \in {"down", "restore", "insert"}

CoverInv ==
    /\ DueInv /\ FirstInv
    /\ MaxEdits = 0 => edit.pc = "idle"
    /\ NoneRefused => SyncInv /\ StartInv

\* How the threads move: a handler keeps its row or takes one that is due, Start works off
\* what it has read.
Moves ==
    /\ now \in Nat /\ now' \in Nat /\ now <= now'
    /\ \A t \in Handlers : Busy(t)' =>
         \/ Busy(t) /\ handler'[t].id = handler[t].id
         \/ /\ handler'[t].id \in DOMAIN tasks
            /\ Pending(tasks[handler'[t].id]) => tasks[handler'[t].id].at <= now
    /\ \/ boot'.todo = {}
       \/ boot'.todo \subseteq boot.todo /\ boot'.snap = boot.snap
       \/ boot'.todo \subseteq DOMAIN tasks /\ boot'.snap = tasks

\* A handler that enters takes a row that is due.
LEMMA MoveEnter ==
    ASSUME IInv, NEW t \in Handlers, NEW i \in DOMAIN tasks, Enter(t, i), 
           Pending(tasks[i]) => tasks[i].at <= now
    PROVE  \A u \in Handlers : Busy(u)' =>
             \/ Busy(u) /\ handler'[u].id = handler[u].id
             \/ /\ handler'[u].id \in DOMAIN tasks
                /\ Pending(tasks[handler'[u].id]) => tasks[handler'[u].id].at <= now
<1>1. handler \in [Handlers -> Handling]
  BY DEF IInv, Typed
<1>2. CASE Pending(tasks[i])
  <2> DEFINE x == [pc |-> "schedule", id |-> i, copy |-> tasks[i], stale |-> tasks[i].chain \in acked]
  <2>1. handler' = [handler EXCEPT ![t] = x] /\ x.pc = "schedule" /\ x.id = i
    BY <1>2 DEF Enter
  <2> HIDE DEF x
  <2>2. handler'[t] = x /\ \A u \in Handlers : u # t => handler'[u] = handler[u]
    BY <1>1, <2>1
  <2> QED
    BY <2>1, <2>2 DEF Busy
<1>3. CASE ~Pending(tasks[i])
  BY <1>3 DEF Enter, Busy
<1> QED
  BY <1>2, <1>3

\* Every step moves so.
LEMMA MoveSteps ==
    ASSUME IInv, DueInv, [Next]_vars
    PROVE  Moves
<1>1. /\ handler \in [Handlers -> Handling] /\ tasks \in Seq(Task) /\ now \in Nat
      /\ boot \in Booting /\ armed \subseteq DOMAIN tasks /\ BootInv
  BY DEF IInv, Typed, BaseOK
<1>2. handler' = handler => \A t \in Handlers : Busy(t)' => Busy(t) /\ handler'[t].id = handler[t].id
  BY DEF Busy
<1>3. CASE Tick \/ UNCHANGED vars \/ (\E k \in DOMAIN tasks : ApplyCancel(k))
           \/ UpdateBegin \/ Delete \/ EditStep
  <2>1. handler' = handler /\ boot' = boot /\ (now' = now \/ now' = now + 1)
    BY <1>3 DEF Tick, vars, ApplyCancel, UpdateBegin, Delete, EditStep, UpdateWrite, SyncLoad,
                SyncSnapshot, CancelPendingTask, SyncDone, SyncInsert, SyncRegister
  <2> QED
    BY <1>1, <1>2, <2>1 DEF Moves
<1>4. CASE ActionStep \/ \E i \in DOMAIN tasks, k \in {"acknowledge", "snooze"},
                            via \in {"voice", "im"} : ActionBegin(i, k, via)
  <2>1. handler' = handler /\ boot' = boot /\ now' = now
    BY <1>4 DEF ActionStep, ActionSnapshot, SnoozeWrite, AcknowledgeCancel, AcknowledgeOthers,
                AcknowledgeLoad, CompleteLoad, CompleteStore, AcknowledgeFinish, ActionBegin
  <2> QED
    BY <1>1, <1>2, <2>1 DEF Moves
<1>5. CASE Crash
  <2>1. boot' = Down /\ now' = now /\ \A t \in Handlers : handler'[t] = Idle
    BY <1>5 DEF Crash
  <2> QED
    BY <1>1, <2>1, Defaults DEF Moves, Busy
<1>6. ASSUME NEW k \in DOMAIN tasks, Fire(k) PROVE Moves
  <2>1. Enter("runner", k) /\ tasks[k].at <= now /\ boot' = boot /\ now' = now
    BY <1>6 DEF Fire
  <2>2. "runner" \in Handlers
    BY DEF Handlers
  <2> QED
    BY <1>1, <2>1, <2>2, MoveEnter DEF Moves
<1>7. ASSUME NEW t \in Handlers, Handle(t) PROVE Moves
  <2> DEFINE h == handler[t]
  <2>1. h \in Handling /\ boot' = boot /\ now' = now
    BY <1>1, <1>7 DEF Handle, HandleLoadSchedule, HandleUpdate, HandleInsert, HandleRegister,
                      HandleAnnounce
  <2>2. h.pc # "idle"
    BY <1>7 DEF Handle, HandleLoadSchedule, HandleUpdate, HandleInsert, HandleRegister,
                HandleAnnounce
  <2>3. \A u \in Handlers : u # t => handler'[u] = handler[u]
    BY <1>1, <1>7 DEF Handle, HandleLoadSchedule, HandleUpdate, HandleInsert, HandleRegister,
                      HandleAnnounce
  <2>4. handler'[t] = Idle \/ handler'[t].id = h.id
    <3>1. CASE HandleLoadSchedule(t)
      BY <1>1, <2>1, <3>1 DEF HandleLoadSchedule, Handling
    <3>2. CASE HandleUpdate(t)
      BY <1>1, <2>1, <3>2 DEF HandleUpdate, Handling
    <3>3. CASE HandleInsert(t)
      BY <1>1, <2>1, <3>3 DEF HandleInsert, Handling
    <3>4. CASE HandleRegister(t)
      BY <1>1, <2>1, <3>4 DEF HandleRegister, Handling
    <3>5. CASE HandleAnnounce(t)
      BY <1>1, <3>5 DEF HandleAnnounce
    <3> QED
      BY <1>7, <3>1, <3>2, <3>3, <3>4, <3>5 DEF Handle
  <2>5. \A u \in Handlers : Busy(u)' => Busy(u) /\ handler'[u].id = handler[u].id
    BY <2>2, <2>3, <2>4, Defaults DEF Busy
  <2> QED
    BY <1>1, <2>1, <2>5 DEF Moves
<1>8. CASE BootRestore
  <2> DEFINE k == Smallest(boot.todo)
  <2>1. /\ boot.todo # {} /\ boot.todo \in SUBSET Nat /\ boot.todo \subseteq DOMAIN boot.snap
        /\ Copies(boot.snap)
    BY <1>1, <1>8 DEF BootRestore, Booting, BootInv
  <2>2. k \in boot.todo
    BY <2>1, SmallestIsIn
  <2>3. /\ handler' = handler \/ (Enter("main", k) /\ boot.snap[k].at <= now)
        /\ now' = now
    BY <1>8 DEF BootRestore
  <2>4. boot'.todo = boot.todo \ {k} /\ boot'.snap = boot.snap
    BY <1>1, <1>8 DEF BootRestore, Booting
  <2>5. k \in DOMAIN tasks /\ (Pending(tasks[k]) => boot.snap[k] = tasks[k])
    BY <2>1, <2>2 DEF Copies, DueInv
  <2> HIDE DEF k
  <2>6. "main" \in Handlers
    BY DEF Handlers
  <2> QED
    BY <1>1, <1>2, <2>3, <2>4, <2>5, <2>6, MoveEnter DEF Moves
<1>9. CASE BootBegin
  <2>1. handler' = handler /\ now' = now /\ boot'.snap = tasks /\ boot'.todo = PendingIn(tasks)
    BY <1>9 DEF BootBegin
  <2> QED
    BY <1>1, <1>2, <2>1 DEF Moves, PendingIn
<1>10. CASE BootSchedule \/ BootInsert \/ BootRegister
  <2>1. handler' = handler /\ now' = now /\ boot'.snap = boot.snap /\ boot'.todo = boot.todo
    BY <1>1, <1>10 DEF BootSchedule, BootInsert, BootRegister, Booting
  <2> QED
    BY <1>1, <1>2, <2>1 DEF Moves
<1>11. CASE BootDone
  <2>1. handler' = handler /\ now' = now /\ boot'.todo = {}
    BY <1>11 DEF BootDone, Down
  <2> QED
    BY <1>1, <1>2, <2>1 DEF Moves
<1> QED
  BY <1>3, <1>4, <1>5, <1>6, <1>7, <1>8, <1>9, <1>10, <1>11 DEF Next, TimingStep, BootStep

\* A handler's pending row stays due, what Start has read of a pending row stays true.
LEMMA DueSteps ==
    ASSUME IInv, DueInv, RowStep, [Next]_vars
    PROVE  DueInv'
<1>1. Moves /\ Kept /\ tasks \in Seq(Task) /\ BootInv
  BY MoveSteps DEF RowStep, IInv, Typed, BaseOK
<1>2. ASSUME NEW t \in Handlers, Busy(t)', Pending(tasks'[handler'[t].id])
      PROVE  tasks'[handler'[t].id].at <= now'
  <2> DEFINE i == handler'[t].id
  <2>1. i \in DOMAIN tasks /\ (Pending(tasks[i]) => tasks[i].at <= now)
    BY <1>1, <1>2 DEF Moves, DueInv, IInv, HandlerInv, Stands
  <2> HIDE DEF i
  <2>2. Pending(tasks[i]) /\ tasks'[i] = tasks[i] /\ tasks[i] \in Task
    BY <1>1, <1>2, <2>1 DEF Kept, i
  <2>3. tasks[i].at \in Nat
    BY <2>2 DEF Task
  <2> QED
    BY <1>1, <2>1, <2>2, <2>3 DEF Moves, i
<1>3. ASSUME NEW i \in boot'.todo, Pending(tasks'[i]) PROVE boot'.snap[i] = tasks'[i]
  <2>1. i \in DOMAIN tasks /\ (Pending(tasks[i]) => boot'.snap[i] = tasks[i])
    BY <1>1, <1>3 DEF Moves, DueInv, BootInv, Copies
  <2> QED
    BY <1>1, <1>3, <2>1 DEF Kept
<1> QED
  BY <1>2, <1>3 DEF DueInv

\* The first row of a chain is closed before the second is added.
LEMMA FirstSteps ==
    ASSUME IInv, FirstInv, RowStep
    PROVE  FirstInv'
<1>1. /\ Kept /\ tasks \in Seq(Task) /\ RowInv /\ HandlerInv /\ chainSeq \in Nat
      /\ handler \in [Handlers -> Handling]
  BY DEF RowStep, IInv, Typed, BaseOK
<1>2. \A i \in DOMAIN tasks : tasks[i].chain \in Nat /\ tasks[i].chain <= chainSeq
  <2> SUFFICES ASSUME NEW i \in DOMAIN tasks PROVE tasks[i].chain \in Nat /\ tasks[i].chain <= chainSeq
    OBVIOUS
  <2>1. tasks[i] \in Task
    BY <1>1
  <2> QED
    BY <1>1, <2>1 DEF RowInv, Task
<1>3. ASSUME NEW t \in Handlers, handler[t].pc = "insert"
      PROVE  /\ handler[t].id \in DOMAIN tasks /\ Same(handler[t].copy, tasks[handler[t].id])
             /\ ~Pending(tasks[handler[t].id]) /\ handler[t].copy.attempt \in Nat \ {0}
  <2>1. handler[t].copy \in Task
    BY <1>1 DEF Handling
  <2>2. handler[t].copy.attempt \in 1 .. MaximumAttempts /\ MaximumAttempts \in Nat
    BY <2>1, ReminderAssumption DEF Task
  <2>3. Stands(t)
    BY <1>1 DEF HandlerInv
  <2> QED
    BY <1>3, <2>2, <2>3 DEF Stands, Busy
<1>4. ASSUME NEW i \in DOMAIN tasks', NEW j \in DOMAIN tasks', tasks'[i].chain = tasks'[j].chain,
             tasks'[i].attempt > 1, tasks'[j].attempt = 1, Pending(tasks'[j])
      PROVE  FALSE
  <2>1. CASE j \notin DOMAIN tasks
    <3>1. Begins(tasks'[j])
      <4>1. ASSUME Follows(tasks'[j]) PROVE FALSE
        BY <1>3, <1>4, <4>1 DEF Follows
      <4> QED
        BY <2>1, <4>1 DEF RowStep
    <3>2. CASE i \in DOMAIN tasks
      BY <1>1, <1>2, <1>4, <3>1, <3>2 DEF Begins, Kept, Same
    <3>3. CASE i \notin DOMAIN tasks
      <4>1. Follows(tasks'[i])
        BY <1>4, <3>3 DEF RowStep, Begins
      <4>2. PICK t \in Handlers : handler[t].pc = "insert" /\ tasks'[i].chain = handler[t].copy.chain
        BY <4>1 DEF Follows
      <4> QED
        BY <1>1, <1>2, <1>3, <1>4, <3>1, <4>2 DEF Begins, Same
    <3> QED
      BY <3>2, <3>3
  <2>2. CASE j \in DOMAIN tasks
    <3>1. tasks'[j] = tasks[j] /\ Pending(tasks[j])
      BY <1>1, <1>4, <2>2 DEF Kept
    <3>2. CASE i \in DOMAIN tasks
      BY <1>1, <1>4, <2>2, <3>1, <3>2 DEF FirstInv, Kept, Same
    <3>3. CASE i \notin DOMAIN tasks
      <4>1. Follows(tasks'[i])
        BY <1>4, <3>3 DEF RowStep, Begins
      <4>2. PICK t \in Handlers : /\ handler[t].pc = "insert"
                                  /\ tasks'[i].chain = handler[t].copy.chain
        BY <4>1 DEF Follows
      <4> DEFINE k == handler[t].id
      <4>3. /\ k \in DOMAIN tasks /\ tasks[k].chain = tasks[j].chain
            /\ tasks[k].attempt \in Nat \ {0} /\ ~Pending(tasks[k])
        BY <1>3, <1>4, <3>1, <4>2 DEF Same
      <4> HIDE DEF k
      <4>4. CASE tasks[k].attempt = 1
        <5>1. k = j
          BY <1>1, <1>4, <2>2, <3>1, <4>3, <4>4 DEF RowInv, Same
        <5> QED
          BY <3>1, <4>3, <5>1
      <4>5. CASE tasks[k].attempt > 1
        BY <1>4, <2>2, <3>1, <4>3, <4>5 DEF FirstInv
      <4> QED
        BY <4>3, <4>4, <4>5
    <3> QED
      BY <3>2, <3>3
  <2> QED
    BY <2>1, <2>2
<1> QED
  BY <1>4 DEF FirstInv

\* How the schedule's row and the MCP worker move.
LEMMA EditMoves ==
    ASSUME IInv, SyncInv, [Next]_vars, ~Refused
    PROVE  SyncInv'
<1>1. edit \in Editing /\ sched \in Schedule /\ action \in Acting
  BY DEF IInv, Typed, BaseOK
<1>2. CASE TimingStep \/ Tick \/ UNCHANGED vars \/ (\E t \in Handlers : Handle(t)) \/ BootStep
  <2>1. edit' = edit /\ sched' = sched
    BY <1>2 DEF TimingStep, ApplyCancel, Fire, Tick, vars, storage, Handle, HandleLoadSchedule,
                HandleUpdate, HandleInsert, HandleRegister, HandleAnnounce, BootStep, BootBegin,
                BootRestore, BootSchedule, BootInsert, BootRegister, BootDone
  <2> QED
    BY <2>1 DEF SyncInv
<1>3. CASE ActionStep \/ \E i \in DOMAIN tasks, k \in {"acknowledge", "snooze"},
                            via \in {"voice", "im"} : ActionBegin(i, k, via)
  <2>1. edit' = edit /\ (sched' = sched \/ sched'.status # "active")
    <3>1. CASE CompleteStore
      <4>1. action.row \in Schedule
        BY <1>1 DEF Acting
      <4>2. sched'.status = "completed"
        BY <3>1, <4>1 DEF CompleteStore, Schedule
      <4> QED
        BY <3>1, <4>2 DEF CompleteStore
    <3> QED
      BY <1>3, <3>1 DEF ActionStep, ActionSnapshot, SnoozeWrite, AcknowledgeCancel,
         AcknowledgeOthers, AcknowledgeLoad, CompleteLoad, AcknowledgeFinish, ActionBegin, storage
  <2> QED
    BY <2>1 DEF SyncInv
<1>4. edit' = NoEdit => SyncInv'
  BY Defaults DEF SyncInv, NoEdit
<1>5. CASE Crash
  BY <1>4, <1>5 DEF Crash
<1>6. CASE UpdateBegin
  <2>1. edit'.pc = "write" /\ edit'.op = "update" /\ edit'.ok
    BY <1>6 DEF UpdateBegin, NoEdit
  <2> QED
    BY <2>1 DEF SyncInv
<1>7. CASE Delete
  <2>1. edit'.pc = "load" /\ edit'.ok /\ sched'.status = "cancelled"
    BY <1>1, <1>7 DEF Delete, NoEdit, Schedule
  <2> QED
    BY <2>1 DEF SyncInv
<1>8. ASSUME NEW s \in Starts, UpdateWrite(s) PROVE SyncInv'
  <2>1. edit.pc = "write" /\ edit'.pc = "load" /\ edit'.ok = edit.ok /\ edit'.op = edit.op
    BY <1>1, <1>8 DEF UpdateWrite, Editing
  <2> QED
    BY <2>1 DEF SyncInv
<1>9. CASE SyncLoad
  <2>1. /\ edit.pc = "load" /\ edit'.pc = "snapshot" /\ edit'.ok = edit.ok /\ edit'.op = edit.op
        /\ edit'.copy = sched /\ sched' = sched
    BY <1>1, <1>9 DEF SyncLoad, Editing, storage
  <2> QED
    BY <2>1 DEF SyncInv
<1>10. CASE SyncSnapshot \/ CancelPendingTask \/ SyncDone \/ SyncInsert \/ SyncRegister
  <2>1. /\ sched' = sched /\ edit.pc \in {"snapshot", "cancel", "insert", "register"}
    BY <1>10 DEF SyncSnapshot, CancelPendingTask, SyncDone, SyncInsert, SyncRegister, storage
  <2>2. \/ edit' = NoEdit
        \/ /\ edit'.ok = edit.ok /\ edit'.op = edit.op /\ edit'.copy = edit.copy
           /\ edit'.pc \in {"snapshot", "cancel", "insert", "register"}
    <3>1. CASE SyncSnapshot
      BY <1>1, <3>1 DEF SyncSnapshot, Editing
    <3>2. CASE CancelPendingTask
      BY <1>1, <3>2 DEF CancelPendingTask, Editing
    <3>3. CASE SyncDone
      BY <1>1, <3>3 DEF SyncDone, Editing
    <3>4. CASE SyncInsert
      BY <1>1, <3>4 DEF SyncInsert, Editing
    <3>5. CASE SyncRegister
      BY <3>5 DEF SyncRegister
    <3> QED
      BY <1>10, <3>1, <3>2, <3>3, <3>4, <3>5
  <2> QED
    BY <1>4, <2>1, <2>2 DEF SyncInv
<1> QED
  BY <1>2, <1>3, <1>5, <1>6, <1>7, <1>8, <1>9, <1>10 DEF Next, EditStep

\* The row of a start that is still to come is closed by the synchronisation only.
LEMMA CoveredStays ==
    ASSUME IInv, WaitAction, DueInv, FirstInv, RowStep, ~Refused, sched' = sched,
           sched.status = "active", now \in Nat, sched.start > now, NEW i \in DOMAIN tasks, Covers(i)
    PROVE  Covers(i)' \/ CancelPendingTask
<1>1. tasks \in Seq(Task) /\ ActionInv /\ RowInv /\ Kept
  BY DEF IInv, Typed, BaseOK, RowStep
<1>2. tasks[i] \in Task /\ Pending(tasks[i]) /\ tasks[i].attempt = 1 /\ tasks[i].at = sched.start
  BY <1>1 DEF Covers
<1>3. CASE Pending(tasks'[i])
  <2>1. tasks'[i] = tasks[i]
    BY <1>1, <1>3 DEF Kept
  <2> QED
    BY <2>1, <1>2 DEF Covers
<1>4. CASE ~Pending(tasks'[i])
  <2>1. Closes(i)
    BY <1>2, <1>4 DEF RowStep
  <2>2. ~(\E t \in Handlers : handler[t].pc = "update" /\ handler[t].id = i)
    <3>1. tasks[i].at \in Nat
      BY <1>2 DEF Task
    <3> QED
      BY <1>2, <3>1 DEF DueInv, Busy
  <2>3. ~(action.pc \in {"snooze", "finish"} /\ i = action.id)
    BY <1>2 DEF WaitAction
  <2>4. ASSUME action.pc = "others", i \in action.todo PROVE FALSE
    <3> DEFINE k == action.id
    <3>1. k \in DOMAIN tasks /\ Same(action.copy, tasks[k]) /\ ~Pending(tasks[k])
      BY <1>1, <2>4 DEF ActionInv, WaitAction
    <3>2. tasks[i].chain = tasks[k].chain
      BY <1>1, <2>4, <3>1 DEF WaitAction, SameChain, ActionInv, Copies, Same
    <3> HIDE DEF k
    <3>3. tasks[k] \in Task /\ MaximumAttempts \in Nat
      BY <1>1, <3>1, ReminderAssumption
    <3>4. tasks[k].attempt \in 1 .. MaximumAttempts
      BY <3>3 DEF Task
    <3>5. tasks[k].attempt # 1
      BY <1>1, <1>2, <3>1, <3>2 DEF RowInv, Same
    <3>6. tasks[k].attempt > 1
      BY <3>3, <3>4, <3>5
    <3> QED
      BY <1>2, <3>1, <3>2, <3>6 DEF FirstInv
  <2> QED
    BY <2>1, <2>2, <2>3, <2>4 DEF Closes
<1> QED
  BY <1>3, <1>4

\* A row that begins with the schedule's start covers it.
LEMMA CoveredBegins ==
    ASSUME tasks \in Seq(Task), NEW r \in Task, tasks' = Append(tasks, r), Pending(r),
           r.attempt = 1, r.at = sched.start, sched' = sched
    PROVE  StartInv'
<1> DEFINE n == Len(tasks) + 1
<1>1. n \in DOMAIN tasks' /\ tasks'[n] = r
  BY RowAdded
<1> HIDE DEF n
<1>2. PICK i \in DOMAIN tasks' : i = n
  BY <1>1
<1>3. Covers(i)'
  BY <1>1, <1>2 DEF Covers
<1> QED
  BY <1>3 DEF StartInv

\* A start that is still to come keeps its row, or the synchronisation adds it.
LEMMA StartSteps ==
    ASSUME IInv, Waits, DueInv, FirstInv, SyncInv, StartInv, RowStep, [Next]_vars, ~Refused,
           Moves, ~Crash \/ edit.pc = "idle"
    PROVE  StartInv'
<1>1. /\ edit \in Editing /\ sched \in Schedule /\ action \in Acting /\ tasks \in Seq(Task)
      /\ boot \in Booting /\ chainSeq \in Nat /\ now \in Nat /\ now' \in Nat /\ now <= now'
      /\ PhaseInv /\ WaitAction
  BY DEF IInv, Typed, BaseOK, Moves, Waits
<1>2. sched' = sched \/ edit'.pc = "load" \/ sched'.status # "active"
  <2>1. CASE CompleteStore
    <3>1. action.row \in Schedule
      BY <1>1 DEF Acting
    <3> QED
      BY <2>1, <3>1 DEF CompleteStore, Schedule
  <2>2. CASE Delete \/ (\E s \in Starts : UpdateWrite(s))
    BY <1>1, <2>2 DEF Delete, UpdateWrite, Editing, NoEdit
  <2>3. CASE TimingStep \/ Tick \/ Crash \/ UNCHANGED vars \/ (\E t \in Handlers : Handle(t)) \/ BootStep
    BY <2>3 DEF TimingStep, ApplyCancel, Fire, Tick, Crash, vars, storage, Handle,
                HandleLoadSchedule, HandleUpdate, HandleInsert, HandleRegister, HandleAnnounce,
                BootStep, BootBegin, BootRestore, BootSchedule, BootInsert, BootRegister, BootDone
  <2> QED
    BY <2>1, <2>2, <2>3 DEF Next, ActionStep, ActionSnapshot, SnoozeWrite, AcknowledgeCancel,
       AcknowledgeOthers, AcknowledgeLoad, CompleteLoad, AcknowledgeFinish, ActionBegin, storage,
       UpdateBegin, EditStep, SyncLoad, SyncSnapshot, CancelPendingTask, SyncDone, SyncInsert,
       SyncRegister
<1>3. edit'.pc = "load" => StartInv'
  BY DEF StartInv
<1> SUFFICES ASSUME sched' = sched, sched.status = "active", sched.start > now' PROVE StartInv'
  BY <1>2, <1>3 DEF StartInv
<1>4. sched.start > now
  <2>1. sched.start \in Nat
    BY <1>1 DEF Schedule
  <2> QED
    BY <1>1, <2>1
<1>5. CancelPendingTask => StartInv'
  <2>1. CancelPendingTask => edit'.pc = "cancel"
    BY <1>1 DEF CancelPendingTask, Editing
  <2> QED
    BY <2>1 DEF StartInv
<1>6. ASSUME NEW i \in DOMAIN tasks, Covers(i) PROVE StartInv'
  <2>1. Covers(i)' => StartInv'
    BY DEF StartInv, RowStep, Kept
  <2> QED
    BY <1>1, <1>4, <1>5, <1>6, <2>1, CoveredStays
<1>7. ASSUME edit.pc \in {"load", "snapshot", "cancel", "insert"} PROVE StartInv'
  <2>1. edit' = edit => StartInv'
    BY <1>7 DEF StartInv
  <2>2. CASE \/ TimingStep \/ Tick \/ UNCHANGED vars \/ (\E t \in Handlers : Handle(t)) \/ BootStep
             \/ ActionStep \/ \E i \in DOMAIN tasks, k \in {"acknowledge", "snooze"},
                                via \in {"voice", "im"} : ActionBegin(i, k, via)
    <3>1. edit' = edit
      BY <2>2 DEF TimingStep, ApplyCancel, Fire, Tick, vars, storage, Handle, HandleLoadSchedule,
                HandleUpdate, HandleInsert, HandleRegister, HandleAnnounce, BootStep, BootBegin,
                BootRestore, BootSchedule, BootInsert, BootRegister, BootDone, ActionStep,
                ActionSnapshot, SnoozeWrite, AcknowledgeCancel, AcknowledgeOthers,
                AcknowledgeLoad, CompleteLoad, CompleteStore, AcknowledgeFinish, ActionBegin
    <3> QED
      BY <2>1, <3>1
  <2>3. CASE SyncLoad \/ SyncSnapshot
    <3>1. edit'.pc \in {"snapshot", "cancel"}
      BY <1>1, <2>3 DEF SyncLoad, SyncSnapshot, Editing
    <3> QED
      BY <3>1 DEF StartInv
  <2>4. CASE SyncDone
    <3>1. edit.ok /\ WantsReminder
      BY <1>4, <2>4 DEF SyncDone, SyncInv, WantsReminder
    <3>2. edit'.pc = "insert"
      BY <1>1, <2>4, <3>1 DEF SyncDone, Editing
    <3> QED
      BY <3>2 DEF StartInv
  <2>5. CASE SyncInsert
    <3> DEFINE r == NewTask(chainSeq + 1, 1, edit.copy.start)
    <3>1. tasks' = Append(tasks, r) /\ edit.copy = sched
      BY <2>5 DEF SyncInsert, SyncInv
    <3>2. edit.copy.start \in Nat /\ 1 \in 1 .. MaximumAttempts
      BY <1>1, ReminderAssumption DEF Editing, Schedule
    <3>3. r \in Task /\ Pending(r) /\ r.attempt = 1 /\ r.at = edit.copy.start
      BY <1>1, <3>2 DEF NewTask, Task, Business, Timer, Pending
    <3> HIDE DEF r
    <3> QED
      BY <1>1, <3>1, <3>3, CoveredBegins
  <2>6. CASE UpdateBegin \/ Delete \/ (\E s \in Starts : UpdateWrite(s)) \/ SyncRegister \/ Crash
    BY <1>7, <2>6 DEF UpdateBegin, Delete, McpWorkerFree, UpdateWrite, SyncRegister
  <2> QED
    BY <1>5, <2>2, <2>3, <2>4, <2>5, <2>6 DEF Next, EditStep
<1>8. ASSUME tasks = <<>>, boot.pc \in {"down", "restore", "insert"} PROVE StartInv'
  <2>1. DOMAIN tasks = {}
    BY <1>8
  <2>2. ASSUME tasks' = tasks, boot'.pc \in {"down", "restore", "insert"} PROVE StartInv'
    BY <1>8, <2>2 DEF StartInv
  <2>3. CASE Tick \/ UNCHANGED vars
    BY <1>8, <2>2, <2>3 DEF Tick, vars, storage
  <2>4. CASE Crash
    BY <1>8, <2>2, <2>4, Defaults DEF Crash, storage
  <2>5. CASE BootBegin
    BY <1>8, <2>2, <2>5 DEF BootBegin, storage
  <2>6. CASE BootRestore
    <3>1. tasks' = tasks /\ boot'.pc = "restore"
      BY <1>1, <2>6 DEF BootRestore, Booting
    <3> QED
      BY <2>2, <3>1
  <2>7. CASE BootSchedule
    <3>1. boot.snap \in Seq(Task) /\ DOMAIN boot.snap = {}
      BY <1>1, <2>1 DEF Booting, IInv, BootInv, Copies
    <3>2. boot.snap = <<>>
      BY <3>1
    <3>3. tasks' = tasks /\ boot'.pc = "insert"
      BY <1>1, <1>4, <2>7, <3>2 DEF BootSchedule, Booting, storage
    <3> QED
      BY <2>2, <3>3
  <2>8. CASE BootInsert
    <3> DEFINE r == NewTask(chainSeq + 1, 1, sched.start)
    <3>1. tasks' = Append(tasks, r)
      BY <2>8 DEF BootInsert
    <3>2. sched.start \in Nat /\ 1 \in 1 .. MaximumAttempts
      BY <1>1, ReminderAssumption DEF Schedule
    <3>3. r \in Task /\ Pending(r) /\ r.attempt = 1 /\ r.at = sched.start
      BY <1>1, <3>2 DEF NewTask, Task, Business, Timer, Pending
    <3> HIDE DEF r
    <3> QED
      BY <1>1, <3>1, <3>3, CoveredBegins
  <2>9. CASE BootRegister \/ BootDone
    BY <1>8, <2>9 DEF BootRegister, BootDone
  <2>10. ASSUME NEW t \in Handlers, Handle(t) PROVE FALSE
    <3>1. Busy(t)
      BY <2>10 DEF Handle, HandleLoadSchedule, HandleUpdate, HandleInsert, HandleRegister,
                   HandleAnnounce, Busy
    <3> QED
      BY <2>1, <3>1 DEF IInv, HandlerInv, Stands
  <2>11. CASE UpdateBegin \/ Delete \/ EditStep \/ ActionStep
    <3>1. edit.pc = "idle" /\ action.pc = "idle" /\ boot.pc # "up"
      BY <1>1, <1>8 DEF PhaseInv
    <3> QED
      BY <2>11, <3>1 DEF UpdateBegin, Delete, McpWorkerFree, EditStep, UpdateWrite, SyncLoad,
           SyncSnapshot, CancelPendingTask, SyncDone, SyncInsert, SyncRegister, ActionStep,
           ActionSnapshot, SnoozeWrite, AcknowledgeCancel, AcknowledgeOthers,
           AcknowledgeLoad, CompleteLoad, CompleteStore, AcknowledgeFinish
  <2>12. ~TimingStep /\ ~\E i \in DOMAIN tasks, k \in {"acknowledge", "snooze"},
                            via \in {"voice", "im"} : ActionBegin(i, k, via)
    BY <2>1 DEF TimingStep
  <2> QED
    BY <2>3, <2>4, <2>5, <2>6, <2>7, <2>8, <2>9, <2>10, <2>11, <2>12 DEF Next, BootStep
<1> QED
  BY <1>4, <1>6, <1>7, <1>8 DEF StartInv

\* Without edits the MCP worker is idle; without power failures none happens.
LEMMA EditSpent ==
    ASSUME spent \in Spent, MaxEdits = 0 \/ MaxCrashes = 0, MaxEdits = 0 => edit.pc = "idle",
           [Next]_vars
    PROVE  /\ MaxEdits = 0 => edit'.pc = "idle"
           /\ ~Crash \/ edit.pc = "idle"
<1>1. spent["edits"] \in Nat /\ spent["crashes"] \in Nat
  BY DEF Spent
<1>2. MaxCrashes = 0 => ~Crash
  BY <1>1 DEF Crash, Spend
<1>3. ASSUME MaxEdits = 0 PROVE edit'.pc = "idle"
  <2>1. edit.pc = "idle" /\ ~UpdateBegin /\ ~Delete
    BY <1>1, <1>3 DEF UpdateBegin, Delete, Spend
  <2>2. ~EditStep
    BY <2>1 DEF EditStep, UpdateWrite, SyncLoad, SyncSnapshot, CancelPendingTask, SyncDone,
                SyncInsert, SyncRegister
  <2>3. CASE TimingStep \/ Tick \/ Crash \/ UNCHANGED vars
    BY <2>1, <2>3, Defaults DEF TimingStep, ApplyCancel, Fire, Tick, Crash, vars
  <2>4. CASE (\E t \in Handlers : Handle(t)) \/ BootStep
    BY <2>1, <2>4 DEF Handle, HandleLoadSchedule, HandleUpdate, HandleInsert, HandleRegister,
              HandleAnnounce, BootStep, BootBegin, BootRestore, BootSchedule, BootInsert,
              BootRegister, BootDone
  <2>5. CASE ActionStep \/ \E i \in DOMAIN tasks, k \in {"acknowledge", "snooze"},
                              via \in {"voice", "im"} : ActionBegin(i, k, via)
    BY <2>1, <2>5 DEF ActionStep, ActionSnapshot, SnoozeWrite, AcknowledgeCancel,
              AcknowledgeOthers, AcknowledgeLoad, CompleteLoad, CompleteStore,
              AcknowledgeFinish, ActionBegin
  <2> QED
    BY <2>1, <2>2, <2>3, <2>4, <2>5 DEF Next
<1> QED
  BY <1>2, <1>3

\* No reminder is lost (NoReminderLost): once every thread is idle, what was triggered was told, what
\* is pending is armed and a start still to come has its task (ScheduleReminderService).  It is
\* proved for a schedule that is not edited, power failures included, and for one that is
\* edited while power holds: a power failure between the write of the schedule and the
\* synchronisation's insert does lose the task of the new start.
THEOREM RemindersAreKept ==
    ASSUME MaxEdits = 0 \/ MaxCrashes = 0
    PROVE  Spec => []NoReminderLost
<1>1. Init => CoverInv
  BY Defaults DEF Init, CoverInv, DueInv, FirstInv, SyncInv, StartInv, Busy, NoEdit
<1>2. IInv /\ WaitInv /\ CoverInv /\ [Next]_vars => CoverInv'
  <2> SUFFICES ASSUME IInv, WaitInv, CoverInv, [Next]_vars PROVE CoverInv'
    OBVIOUS
  <2>1. spent \in Spent /\ (NoneRefused' => NoneRefused /\ ~Refused)
    BY SpentSteps DEF WaitInv
  <2>2. RowStep /\ Moves
    BY RowSteps, MoveSteps DEF CoverInv
  <2>3. (MaxEdits = 0 => edit'.pc = "idle") /\ (~Crash \/ edit.pc = "idle")
    BY <2>1, EditSpent DEF CoverInv
  <2>4. DueInv' /\ FirstInv'
    BY <2>2, DueSteps, FirstSteps DEF CoverInv
  <2>5. ASSUME NoneRefused' PROVE SyncInv' /\ StartInv'
    BY <2>1, <2>2, <2>3, <2>5, EditMoves, StartSteps DEF CoverInv, WaitInv
  <2> QED
    BY <2>3, <2>4, <2>5 DEF CoverInv
<1>3. IInv /\ ToldInv /\ WaitInv /\ CoverInv => NoReminderLost
  <2> SUFFICES ASSUME IInv, ToldInv, WaitInv, CoverInv, AllIdle, sched.status = "active",
                      spent.unavailable = 0
               PROVE  /\ \A i \in DOMAIN tasks :
                           tasks[i].timer = "triggered" => WasAnnounced(i) \/ i \in torn
                      /\ PendingIn(tasks) \subseteq armed
                      /\ sched.start > now => \E i \in PendingIn(tasks) :
                                                 tasks[i].at = sched.start
    BY DEF NoReminderLost
  <2>1. Waits /\ SyncInv /\ StartInv /\ PhaseInv
    BY DEF WaitInv, CoverInv, NoneRefused, IInv
  <2>2. /\ boot.pc = "up" /\ edit.pc = "idle" /\ action.pc = "idle" /\ boot.todo = {}
        /\ \A t \in Handlers : handler[t].pc = "idle"
    BY <2>1 DEF AllIdle, PhaseInv
  <2>3. \A i \in DOMAIN tasks : tasks[i].timer = "triggered" => WasAnnounced(i) \/ i \in torn
    BY <2>2 DEF ToldInv, ToldRows, Told
  <2>4. \A i \in PendingIn(tasks) : i \in armed
    BY <2>1, <2>2 DEF PendingIn, Waits, WaitRows, Awaited, HandlerWaits, EditWaits, Closing
  <2>5. sched.start > now => \E i \in PendingIn(tasks) : tasks[i].at = sched.start
    BY <2>1, <2>2 DEF StartInv, Covers, PendingIn
  <2> QED
    BY <2>3, <2>4, <2>5
<1> QED
  BY <1>1, <1>2, <1>3, Inductive, ToldAlways, WaitAlways, PTL DEF Spec

-----------------------------------------------------------------------------
(***************************************************************************)
(* Recurring rules: for every set of recurrences, start dates, hours,      *)
(* targets and times, and every number of tools, failures and restarts.    *)
(***************************************************************************)

\* An occurrence the planner finds belongs to an active rule; it lies on a date
\* between the start and the end date of the rule and is not before the time it
\* was asked for, whatever the recurrence (NextOccurrence).
THEOREM PlannerStaysInBounds ==
    ASSUME NEW r, NEW from, NextOccurrence(r, from) # NoTime
    PROVE  /\ r.status = "active"
           /\ \E date : /\ NextOccurrence(r, from) = OccurrenceAt(r, date)
                        /\ ~Before(date, r.start) /\ ~PastEnd(r, date)
                        /\ ~(OccurrenceAt(r, date) < from)
<1> DEFINE candidate == Candidates(r, from)
           Last(n) == /\ \A m \in 0 .. n - 1 : ~Decides(r, from, candidate[m])
                      /\ Decides(r, from, candidate[n])
           turns == 0 .. MaxDateSearchSteps - 1
           k == CHOOSE n \in turns : Last(n)
           date == candidate[k]
<1>1. /\ r.status = "active"
      /\ NextOccurrence(r, from) = FirstDecided(r, from, candidate)
  BY Zenon DEF NextOccurrence
<1>2. /\ \E n \in turns : Last(n)
      /\ date # NoDate /\ ~PastEnd(r, date)
      /\ NextOccurrence(r, from) = OccurrenceAt(r, date)
  <2>1. FirstDecided(r, from, candidate) =
          IF \E n \in turns : Last(n)
            THEN IF date # NoDate /\ ~PastEnd(r, date)
                   THEN OccurrenceAt(r, date) ELSE NoTime
            ELSE NoTime
    BY Zenon DEF FirstDecided
  <2> QED  BY <1>1, <2>1, Zenon
<1>3. Last(k)
  BY <1>2, Zenon
<1>4. Decides(r, from, date)
  BY <1>3, Zenon
<1> HIDE DEF date
<1>5. ~Before(date, r.start) /\ ~(OccurrenceAt(r, date) < from)
  BY <1>2, <1>4, Zenon DEF Decides
<1> QED  BY <1>1, <1>2, <1>5, Zenon

\* In short: it is of an active rule and not before the time asked for.
LEMMA PlannerIsAhead ==
    ASSUME NEW r, NEW from, NextOccurrence(r, from) # NoTime
    PROVE  r.status = "active" /\ ~(NextOccurrence(r, from) < from)
BY PlannerStaysInBounds, Zenon

\* A sequence remains one when its elements are replaced in place.
LEMMA Replaced ==
    ASSUME NEW s, NEW t, s \in Seq({s[i] : i \in DOMAIN s}),
           DOMAIN t = DOMAIN s, t = [i \in DOMAIN s |-> t[i]]
    PROVE  t \in Seq({t[i] : i \in DOMAIN t})
<1> DEFINE S == {s[i] : i \in DOMAIN s}
           T == {t[i] : i \in DOMAIN t}
<1>1. DOMAIN s = 1 .. Len(s) /\ Len(s) \in Nat
  <2> HIDE DEF S
  <2> QED  OBVIOUS
<1>2. \A i \in 1 .. Len(s) : t[i] \in T
  BY <1>1
<1>3. t \in [1 .. Len(s) -> T]
  <2> HIDE DEF T
  <2> QED  BY <1>1, <1>2
<1> HIDE DEF T
<1>4. t \in Seq(T)
  BY <1>1, <1>3
<1> QED  BY <1>4 DEF T

\* What Append does.
LEMMA Appended ==
    ASSUME NEW s, NEW e, s \in Seq({s[i] : i \in DOMAIN s})
    PROVE  /\ Len(s) \in Nat /\ DOMAIN s = 1 .. Len(s)
           /\ DOMAIN Append(s, e) = 1 .. Len(s) + 1
           /\ \A i \in DOMAIN s : Append(s, e)[i] = s[i]
           /\ Append(s, e)[Len(s) + 1] = e
           /\ Append(s, e) \in Seq({Append(s, e)[i] : i \in DOMAIN Append(s, e)})
<1> DEFINE S == {s[i] : i \in DOMAIN s}
           t == Append(s, e)
           U == S \cup {e}
           T == {t[i] : i \in DOMAIN t}
<1>1. s \in Seq(S)
  OBVIOUS
<1>2. s \in Seq(U)
  <2> HIDE DEF S
  <2> QED  BY <1>1
<1>3. e \in U
  OBVIOUS
<1> HIDE DEF U
<1>4. /\ Len(s) \in Nat /\ DOMAIN s = 1 .. Len(s) /\ DOMAIN t = 1 .. Len(s) + 1
      /\ \A i \in DOMAIN s : t[i] = s[i]
      /\ t[Len(s) + 1] = e
  BY <1>2, <1>3
<1>7. t \in Seq(U) /\ Len(t) = Len(s) + 1
  BY <1>2, <1>3
<1>8. t = [i \in 1 .. Len(s) + 1 |-> t[i]]
  <2> HIDE DEF t
  <2> QED  BY <1>4, <1>7
<1>5. t \in [1 .. Len(s) + 1 -> T]
  <2>1. \A i \in DOMAIN t : t[i] \in T
    OBVIOUS
  <2> HIDE DEF T, t
  <2> QED  BY <1>4, <1>8, <2>1
<1>6. t \in Seq(T)
  <2> HIDE DEF T, t
  <2> QED  BY <1>4, <1>5
<1> QED  BY <1>4, <1>6

\* Rows that differ in nothing but their task, or in a status that stays live.
Alike(row, other) ==
    /\ DOMAIN row = RowFields
    /\ row.start = other.start /\ row.orig = other.orig
    /\ row.moved = other.moved /\ row.detached = other.detached
    /\ row.generated = other.generated
    /\ Live(row) <=> Live(other)

SameRows ==
    /\ rows' = [i \in DOMAIN rows |-> rows'[i]]
    /\ \A i \in DOMAIN rows : Alike(rows'[i], rows[i])

\* SynchronizeSchedule and SuspendReminders change the task of a row alone.
LEMMA TaskOnly ==
    ASSUME NEW row, DOMAIN row = RowFields
    PROVE  /\ Alike(Synchronized(row), row) /\ Synchronized(row).status = row.status
           /\ Alike(Suspended(row), row) /\ Suspended(row).status = row.status
           /\ \A task : /\ Alike([row EXCEPT !.task = task], row)
                        /\ [row EXCEPT !.task = task].status = row.status
                        /\ [row EXCEPT !.task = task].task = task
<1>1. \A task : /\ Alike([row EXCEPT !.task = task], row)
                /\ [row EXCEPT !.task = task].status = row.status
                /\ [row EXCEPT !.task = task].task = task
  BY DEF Alike, RowFields, Live
<1> QED  BY <1>1 DEF Synchronized, Suspended

\* Rows that keep all but their tasks are where they were.
LEMMA SameRowsKeep ==
    ASSUME WellFormed, SameRows
    PROVE  /\ rows' \in Seq({rows'[i] : i \in DOMAIN rows'})
           /\ \A i \in DOMAIN rows' : DOMAIN rows'[i] = RowFields
           /\ DOMAIN rows' = DOMAIN rows
           /\ \A time : Held(time)' <=> Held(time)
           /\ \A i \in DOMAIN rows : \A time : Holds(i, time)' <=> Holds(i, time)
           /\ \A time : Materialized(time)' <=> Materialized(time)
<1>1. DOMAIN rows' = DOMAIN rows
  BY DEF SameRows
<1>2. rows' \in Seq({rows'[i] : i \in DOMAIN rows'})
  BY <1>1, Replaced DEF SameRows, WellFormed
<1>3. \A i \in DOMAIN rows : \A time : Holds(i, time)' <=> Holds(i, time)
  BY DEF SameRows, Alike, Holds
<1>4. \A time : Held(time)' <=> Held(time)
  BY <1>1, <1>3 DEF Held
<1>5. \A time : Materialized(time)' <=> Materialized(time)
  BY <1>1 DEF Materialized, SameRows, Alike
<1> QED  BY <1>1, <1>2, <1>3, <1>4, <1>5 DEF SameRows, Alike

\* They make no second instance either.
LEMMA SameRowsOnce ==
    ASSUME SameRows, OncePerOccurrence, raced => raced'
    PROVE  OncePerOccurrence'
<1>1. DOMAIN rows' = DOMAIN rows
  BY DEF SameRows
<1> QED  BY <1>1 DEF SameRows, Alike, OncePerOccurrence

\* They keep the link between an instance and its exception.
LEMMA SameRowsPlaces ==
    ASSUME WellFormed, SameRows, exceptions' = exceptions
    PROVE  /\ Linked => Linked'
           /\ Unlinked => Unlinked'
           /\ Upserting /\ mcp' = mcp => Upserting'
           /\ Generating /\ gen' = gen => Generating'
           /\ \A time : ExceptionAt(time)' = ExceptionAt(time)
<1>1. /\ DOMAIN rows' = DOMAIN rows
      /\ \A time : Held(time)' <=> Held(time)
      /\ \A i \in DOMAIN rows : \A time : Holds(i, time)' <=> Holds(i, time)
  BY SameRowsKeep
<1>2. \A time : ExceptionAt(time)' = ExceptionAt(time)
  BY DEF ExceptionAt
<1>3. Linked => Linked'
  BY <1>1 DEF Linked, SameRows, Alike
<1>4. Unlinked => Unlinked'
  BY <1>1 DEF Unlinked
<1>5. ASSUME Upserting, mcp' = mcp PROVE Upserting'
  BY <1>1, <1>2, <1>5 DEF Upserting
<1>6. ASSUME Generating, gen' = gen PROVE Generating'
  BY <1>1, <1>2, <1>6 DEF Generating
<1> QED  BY <1>2, <1>3, <1>4, <1>5, <1>6

\* Rows that do not change at all are such rows.
LEMMA NoChange ==
    ASSUME WellFormed, rows' = rows
    PROVE  SameRows
<1>1. rows = [i \in DOMAIN rows |-> rows[i]]
  <2> DEFINE S == {rows[i] : i \in DOMAIN rows}
  <2>1. rows \in Seq(S)  BY DEF WellFormed
  <2> HIDE DEF S
  <2> QED  BY <2>1
<1> QED  BY <1>1 DEF SameRows, Alike, WellFormed

\* What a sequence of one element is.
LEMMA Single ==
    ASSUME NEW s, NEW e, s = <<e>>
    PROVE  /\ DOMAIN s = {1} /\ s[1] = e
           /\ s \in Seq({s[i] : i \in DOMAIN s})
<1>1. DOMAIN s = {1} /\ s[1] = e
  OBVIOUS
<1>2. s \in Seq({e})
  OBVIOUS
<1>3. {s[i] : i \in DOMAIN s} = {e}
  BY <1>1
<1> QED  BY <1>1, <1>2, <1>3

\* The fields of the records a thread at rest leaves behind.
LEMMA RecordFields ==
    /\ DOMAIN GenIdle = GenFields /\ DOMAIN McpIdle = McpFields
    /\ GenIdle.pc = "idle" /\ McpIdle.pc = "idle" /\ McpIdle.op = "none"
    /\ GenIdle.failures = 0 /\ GenIdle.exception = NoException
    /\ DOMAIN NoException = ExceptionFields
    /\ NoException.type = "none" /\ NoException.row = 0
    /\ NoRule.status = "none" /\ DOMAIN NoRule = {"status"}
BY DEF GenIdle, GenFields, McpIdle, McpFields, NoException, ExceptionFields, NoRule

\* The tables start empty and the threads at rest.
LEMMA RuleInitIInv == RuleInit => RuleIInv
<1> SUFFICES ASSUME RuleInit PROVE RuleIInv
  OBVIOUS
<1> USE DEF RuleInit
<1>1. <<>> \in Seq({<<>>[i] : i \in DOMAIN <<>>}) /\ DOMAIN <<>> = {}
  OBVIOUS
<1>2. WellFormed
  BY <1>1, RecordFields DEF WellFormed
<1>3. Blank /\ ToolInv /\ CancelledStays
  BY RecordFields DEF Blank, ToolInv, CancelledStays
<1>4. Places
  BY <1>1, RecordFields DEF Places, Linked, Unlinked, Upserting, Generating
<1>5. OncePerOccurrence
  BY <1>1 DEF OncePerOccurrence
<1> QED  BY <1>2, <1>3, <1>4, <1>5 DEF RuleIInv

\* create_schedule_rule makes the first instance of an empty table.
LEMMA CreateRuleIInv == ASSUME RuleIInv, CreateRule PROVE RuleIInv'
<1>0. PICK shape \in Shapes, start \in StartDates :
      LET draft == Anchored(shape, start)
          first == NextOccurrence(draft, OccurrenceAt(draft, start))
      IN  /\ first # NoTime
          /\ rule' = [draft EXCEPT !.start = LocalDateFromUtc(first)]
          /\ rows' = <<Synchronized(Instance(first, first, FALSE))>>
  BY DEF CreateRule
<1> DEFINE draft == Anchored(shape, start)
           first == NextOccurrence(draft, OccurrenceAt(draft, start))
           made  == Instance(first, first, FALSE)
           row   == Synchronized(made)
<1>1. /\ rule = NoRule /\ first # NoTime
      /\ rule' = [draft EXCEPT !.start = LocalDateFromUtc(first)]
      /\ rows' = <<row>>
      /\ UNCHANGED <<exceptions, gen, retry, mcp, raced>>
  BY <1>0 DEF CreateRule
<1>2. {"start", "status"} \subseteq DOMAIN draft
  BY DEF Anchored
<1>3. draft.status = "active"
  <2> HIDE DEF draft
  <2> QED  BY <1>1, PlannerIsAhead
<1>4. /\ DOMAIN made = RowFields /\ made.start = first /\ made.orig = first
      /\ made.generated = FALSE
  BY DEF Instance, RowFields
<1> HIDE DEF made, first
<1>5. DOMAIN row = RowFields /\ row.start = first /\ row.orig = first /\ row.generated = FALSE
  BY <1>4, TaskOnly DEF Alike
<1> HIDE DEF row
<1>6. "status" \in DOMAIN rule' /\ rule'.status = "active" /\ rule' # NoRule
  <2> HIDE DEF draft
  <2> QED  BY <1>1, <1>2, <1>3, RecordFields
<1> HIDE DEF draft
<1>7. /\ exceptions = <<>> /\ gen = GenIdle /\ mcp = McpIdle
  BY <1>1 DEF RuleIInv, Blank
<1>8. /\ DOMAIN rows' = {1} /\ rows'[1] = row
      /\ rows' \in Seq({rows'[i] : i \in DOMAIN rows'})
  <2>1. rows' = <<row>>
    BY <1>1
  <2> QED  BY ONLY <2>1, Single
<1>9. DOMAIN exceptions' = {} /\ gen'.pc = "idle" /\ mcp'.pc = "idle"
  BY <1>1, <1>7, RecordFields
<1>10. WellFormed'
  BY <1>1, <1>5, <1>6, <1>7, <1>8, <1>9, RecordFields DEF WellFormed
<1>11. Blank' /\ ToolInv' /\ CancelledStays'
  BY <1>6, <1>9 DEF Blank, ToolInv, CancelledStays
<1>12. Places'
  BY <1>5, <1>8, <1>9 DEF Places, Linked, Unlinked, Upserting, Generating
<1>13. OncePerOccurrence'
  BY <1>8 DEF OncePerOccurrence
<1> QED  BY <1>10, <1>11, <1>12, <1>13 DEF RuleIInv

\* SuspendRuleReminders touches tasks alone.
LEMMA UpdateSuspendIInv == ASSUME RuleIInv, UpdateSuspend PROVE RuleIInv'
<1>1. PICK hour \in Hours :
        mcp' = [McpIdle EXCEPT !.pc = "load", !.op = "update", !.at = hour,
                  !.lost = retry # 0 \/ \E i \in DOMAIN rows : Due(i)]
  BY DEF UpdateSuspend
<1>2. DOMAIN mcp' = McpFields /\ mcp'.pc = "load"
  BY <1>1 DEF McpIdle, McpFields
<1>3. SameRows
  BY TaskOnly DEF UpdateSuspend, SameRows, RuleIInv, WellFormed
<1>4. /\ rule # NoRule
      /\ UNCHANGED <<clock, rule, exceptions, gen, raced>>
  BY DEF UpdateSuspend, history
<1>5. WellFormed'
  BY <1>2, <1>3, <1>4, SameRowsKeep DEF RuleIInv, WellFormed
<1>6. Blank' /\ ToolInv' /\ CancelledStays'
  BY <1>2, <1>4 DEF RuleIInv, Blank, ToolInv, CancelledStays
<1>7. Off' \/ Places'
  BY <1>2, <1>3, <1>4, SameRowsPlaces DEF RuleIInv, Off, Places, Upserting
<1>8. OncePerOccurrence'
  BY <1>3, <1>4, SameRowsOnce DEF RuleIInv
<1> QED  BY <1>5, <1>6, <1>7, <1>8 DEF RuleIInv

\* An update goes on to write only for an active rule, with a first occurrence
\* that is not before now.
LEMMA UpdateLoadIInv == ASSUME RuleIInv, UpdateLoad PROVE RuleIInv'
<1> DEFINE patched == [rule EXCEPT !.hour = mcp.at]
           first   == NextOccurrence(patched, clock)
           saved   == [patched EXCEPT !.start = LocalDateFromUtc(first)]
<1>1. /\ mcp.pc = "load" /\ first # NoTime
      /\ mcp' = [mcp EXCEPT !.pc = "write", !.first = first, !.rule = saved]
      /\ UNCHANGED <<clock, rule, rows, exceptions, gen, retry, raced>>
  BY DEF UpdateLoad, tables, history
<1>2. patched.status = "active" /\ ~(first < clock)
  BY <1>1, PlannerIsAhead
<1>3. "status" \in DOMAIN rule
  BY DEF RuleIInv, WellFormed
<1>4. /\ rule.status = "active" /\ "status" \in DOMAIN saved
      /\ saved.status = "active"
  BY <1>2, <1>3
<1> HIDE DEF saved, first
<1>5. /\ DOMAIN mcp' = McpFields /\ mcp'.pc = "write" /\ mcp'.first = first
      /\ mcp'.rule = saved
  BY <1>1 DEF RuleIInv, WellFormed, McpFields
<1>6. SameRows
  BY <1>1, NoChange DEF RuleIInv
<1>7. WellFormed'
  BY <1>1, <1>5 DEF RuleIInv, WellFormed
<1>8. mcp # McpIdle
  BY <1>1, RecordFields
<1>9. Blank' /\ ToolInv' /\ CancelledStays'
  BY <1>1, <1>2, <1>4, <1>5, <1>8 DEF RuleIInv, Blank, ToolInv, CancelledStays
<1>10. Off' \/ Places'
  BY <1>1, <1>5, <1>6, SameRowsPlaces DEF RuleIInv, Off, Places, Upserting
<1>11. OncePerOccurrence'
  BY <1>1, <1>6, SameRowsOnce DEF RuleIInv
<1> QED  BY <1>7, <1>9, <1>10, <1>11 DEF RuleIInv

\* An update that fails has written nothing.
LEMMA UpdateFailsIInv == ASSUME RuleIInv, UpdateFails PROVE RuleIInv'
<1>1. /\ mcp.pc = "load" /\ mcp' = [mcp EXCEPT !.pc = "sync"]
      /\ UNCHANGED <<clock, rule, rows, exceptions, gen, retry, raced>>
  BY DEF UpdateFails, tables
<1>5. DOMAIN mcp' = McpFields /\ mcp'.pc = "sync"
  BY <1>1 DEF RuleIInv, WellFormed, McpFields
<1>6. SameRows
  BY <1>1, NoChange DEF RuleIInv
<1>7. WellFormed'
  BY <1>1, <1>5 DEF RuleIInv, WellFormed
<1>8. mcp # McpIdle
  BY <1>1, RecordFields
<1>9. Blank' /\ ToolInv' /\ CancelledStays'
  BY <1>1, <1>5, <1>8 DEF RuleIInv, Blank, ToolInv, CancelledStays
<1>10. Off' \/ Places'
  BY <1>1, <1>5, <1>6, SameRowsPlaces DEF RuleIInv, Off, Places, Upserting
<1>11. OncePerOccurrence'
  BY <1>1, <1>6, SameRowsOnce DEF RuleIInv
<1> QED  BY <1>7, <1>9, <1>10, <1>11 DEF RuleIInv

\* SynchronizeRule touches tasks alone.
LEMMA UpdateSyncIInv == ASSUME RuleIInv, UpdateSync PROVE RuleIInv'
<1>1. /\ mcp.pc = "sync" /\ mcp' = McpIdle
      /\ UNCHANGED <<clock, rule, exceptions, gen, retry, raced>>
  BY DEF UpdateSync, history
<1>2. DOMAIN mcp' = McpFields /\ mcp'.pc = "idle" /\ mcp # McpIdle
  BY <1>1, RecordFields
<1>3. SameRows
  <2>1. \A i \in DOMAIN rows : Alike(rows[i], rows[i])
    BY DEF RuleIInv, WellFormed, Alike
  <2> QED  BY <2>1, TaskOnly DEF UpdateSync, SameRows, RuleIInv, WellFormed
<1>5. WellFormed'
  BY <1>1, <1>2, <1>3, SameRowsKeep DEF RuleIInv, WellFormed
<1>6. Blank' /\ ToolInv' /\ CancelledStays'
  BY <1>1, <1>2 DEF RuleIInv, Blank, ToolInv, CancelledStays
<1>7. Off' \/ Places'
  BY <1>1, <1>2, <1>3, SameRowsPlaces DEF RuleIInv, Off, Places, Upserting
<1>8. OncePerOccurrence'
  BY <1>1, <1>3, SameRowsOnce DEF RuleIInv
<1> QED  BY <1>5, <1>6, <1>7, <1>8 DEF RuleIInv

\* CancelRuleAndInstances leaves every row live and the rule cancelled.
LEMMA CancelRuleIInv == ASSUME RuleIInv, CancelRule PROVE RuleIInv'
<1>1. /\ rule # NoRule /\ rule' = [rule EXCEPT !.status = "cancelled"]
      /\ rows' = [i \in DOMAIN rows |->
                    IF rows[i].status = "active"
                      THEN [rows[i] EXCEPT !.status = "cancelled"] ELSE rows[i]]
      /\ exceptions' = <<>>
      /\ mcp' = [McpIdle EXCEPT !.pc = "suspend", !.op = "cancel"]
      /\ raced' = (raced \/ ToolRaces)
      /\ UNCHANGED <<clock, gen, retry>>
  BY DEF CancelRule
<1>2. DOMAIN mcp' = McpFields /\ mcp'.pc = "suspend"
  BY <1>1 DEF McpIdle, McpFields
<1>3. SameRows
  <2>1. \A i \in DOMAIN rows : Alike(rows[i], rows[i])
    BY DEF RuleIInv, WellFormed, Alike
  <2>2. \A i \in DOMAIN rows :
           rows[i].status = "active" => Alike([rows[i] EXCEPT !.status = "cancelled"], rows[i])
    BY DEF RuleIInv, WellFormed, Alike, RowFields, Live
  <2> QED  BY <1>1, <2>1, <2>2 DEF SameRows
<1>4. "status" \in DOMAIN rule' /\ rule'.status = "cancelled" /\ rule' # NoRule
  BY <1>1, RecordFields DEF RuleIInv, WellFormed
<1>5. DOMAIN exceptions' = {}
  BY <1>1
<1>6. WellFormed'
  BY <1>1, <1>2, <1>3, <1>4, <1>5, SameRowsKeep DEF RuleIInv, WellFormed
<1>7. Blank' /\ ToolInv' /\ CancelledStays'
  BY <1>1, <1>2, <1>4 DEF Blank, ToolInv, CancelledStays, ToolRaces
<1>8. Off'
  BY <1>4 DEF Off
<1>9. OncePerOccurrence'
  BY <1>1, <1>3, SameRowsOnce DEF RuleIInv
<1> QED  BY <1>6, <1>7, <1>8, <1>9 DEF RuleIInv

\* The reminders of a cancelled rule are suspended.
LEMMA CancelSuspendIInv == ASSUME RuleIInv, CancelSuspend PROVE RuleIInv'
<1>1. /\ mcp.pc = "suspend" /\ mcp' = McpIdle
      /\ UNCHANGED <<clock, rule, exceptions, gen, raced>>
  BY DEF CancelSuspend, history
<1>2. DOMAIN mcp' = McpFields /\ mcp'.pc = "idle" /\ mcp # McpIdle
  BY <1>1, RecordFields
<1>3. SameRows
  BY TaskOnly DEF CancelSuspend, SameRows, RuleIInv, WellFormed
<1>5. WellFormed'
  BY <1>1, <1>2, <1>3, SameRowsKeep DEF RuleIInv, WellFormed
<1>6. Blank' /\ ToolInv' /\ CancelledStays'
  BY <1>1, <1>2 DEF RuleIInv, Blank, ToolInv, CancelledStays
<1>7. Off' \/ Places'
  BY <1>1, <1>2, <1>3, SameRowsPlaces DEF RuleIInv, Off, Places, Upserting
<1>8. OncePerOccurrence'
  BY <1>1, <1>3, SameRowsOnce DEF RuleIInv
<1> QED  BY <1>5, <1>6, <1>7, <1>8 DEF RuleIInv

\* An occurrence that has an instance, and none that stands at its time, has
\* an exception linked to that instance.
LEMMA HeldElsewhere ==
    ASSUME RuleIInv, Linked, NEW time, Held(time), ~Materialized(time)
    PROVE  ExceptionAt(time).row # 0 /\ ExceptionAt(time) # NoException
<1>1. PICK i \in DOMAIN rows : Holds(i, time)
  BY DEF Held
<1>2. rows[i].orig = time /\ rows[i].start # time
  BY <1>1 DEF Holds, Materialized
<1>3. time \in DOMAIN exceptions /\ exceptions[time].row = i
  BY <1>1, <1>2 DEF Linked
<1>4. i # 0
  <2> DEFINE S == {rows[k] : k \in DOMAIN rows}
  <2>1. rows \in Seq(S)
    BY DEF RuleIInv, WellFormed
  <2> HIDE DEF S
  <2> QED  BY <2>1
<1> QED  BY <1>3, <1>4, RecordFields DEF ExceptionAt

\* A skip goes on only for an occurrence without an instance.
LEMMA SkipCheckIInv == ASSUME RuleIInv, SkipCheck PROVE RuleIInv'
<1>1. PICK time \in Targets :
        /\ ExceptionAt(time) = NoException /\ ~Materialized(time)
        /\ mcp' = [McpIdle EXCEPT !.pc = "upsert", !.op = "skip", !.at = time,
                     !.exception = [NoException EXCEPT !.type = "skip"]]
  BY DEF SkipCheck
<1> DEFINE exception == [NoException EXCEPT !.type = "skip"]
<1>2. /\ DOMAIN exception = ExceptionFields /\ exception.type = "skip"
      /\ exception.row = 0
  BY DEF NoException, ExceptionFields
<1> HIDE DEF exception
<1>3. /\ DOMAIN mcp' = McpFields /\ mcp'.pc = "upsert" /\ mcp'.at = time
      /\ mcp'.exception = exception
  BY <1>1 DEF McpIdle, McpFields, exception
<1>4. /\ rule # NoRule
      /\ UNCHANGED <<clock, rule, rows, exceptions, gen, retry, raced>>
  BY DEF SkipCheck, tables, history
<1>6. SameRows
  BY <1>4, NoChange DEF RuleIInv
<1>7. WellFormed'
  BY <1>3, <1>4 DEF RuleIInv, WellFormed
<1>8. Blank' /\ ToolInv' /\ CancelledStays'
  BY <1>2, <1>3, <1>4 DEF RuleIInv, Blank, ToolInv, CancelledStays
<1>9. Linked => ~Held(time)
  BY <1>1, HeldElsewhere
<1>10. Off' \/ Places'
  <2>1. SUFFICES ASSUME ~Off' PROVE Places'
    OBVIOUS
  <2>2. Places
    BY <1>4, <2>1 DEF Off, RuleIInv
  <2>3. ~Held(time)' /\ ExceptionAt(time)' = NoException
    BY <1>1, <1>4, <1>6, <1>9, <2>2, SameRowsKeep, SameRowsPlaces DEF RuleIInv, Places
  <2>4. Upserting'
    BY <1>2, <1>3, <2>3, RecordFields DEF Upserting
  <2> QED  BY <1>4, <1>6, <2>2, <2>4, SameRowsPlaces DEF RuleIInv, Places
<1>11. OncePerOccurrence'
  BY <1>4, <1>6, SameRowsOnce DEF RuleIInv
<1> QED  BY <1>7, <1>8, <1>10, <1>11 DEF RuleIInv

\* A modification goes on for an occurrence without an instance, or keeps the
\* row the exception is linked to.
LEMMA ModifyCheckIInv == ASSUME RuleIInv, ModifyCheck PROVE RuleIInv'
<1>1. PICK time \in Targets, to \in Targets :
        LET existing == ExceptionAt(time) IN
        /\ IF existing.row # 0 THEN ~Live(rows[existing.row])
                               ELSE ~Materialized(time)
        /\ mcp' = [McpIdle EXCEPT !.pc = "upsert", !.op = "modify", !.at = time,
                     !.exception = [existing EXCEPT !.type = "modify", !.to = to]]
  BY DEF ModifyCheck
<1> DEFINE existing == ExceptionAt(time)
           exception == [existing EXCEPT !.type = "modify", !.to = to]
<1>a. DOMAIN existing = ExceptionFields
  BY RecordFields DEF ExceptionAt, RuleIInv, WellFormed
<1>2. /\ DOMAIN exception = ExceptionFields /\ exception.type = "modify"
      /\ exception.row = existing.row
  <2> HIDE DEF existing
  <2> QED  BY <1>a DEF ExceptionFields
<1>b. mcp' = [McpIdle EXCEPT !.pc = "upsert", !.op = "modify", !.at = time,
                !.exception = exception]
  BY <1>1
<1> HIDE DEF exception
<1>3. /\ DOMAIN mcp' = McpFields /\ mcp'.pc = "upsert" /\ mcp'.at = time
      /\ mcp'.exception = exception
  BY <1>b DEF McpIdle, McpFields
<1>4. /\ rule # NoRule
      /\ UNCHANGED <<clock, rule, rows, exceptions, gen, retry, raced>>
  BY DEF ModifyCheck, tables, history
<1>6. SameRows
  BY <1>4, NoChange DEF RuleIInv
<1>7. WellFormed'
  BY <1>3, <1>4 DEF RuleIInv, WellFormed
<1>8. Blank' /\ ToolInv' /\ CancelledStays'
  BY <1>2, <1>3, <1>4 DEF RuleIInv, Blank, ToolInv, CancelledStays
<1>9. Linked /\ existing.row = 0 => ~Held(time)
  BY <1>1, HeldElsewhere
<1>10. Off' \/ Places'
  <2>1. SUFFICES ASSUME ~Off' PROVE Places'
    OBVIOUS
  <2>2. Places
    BY <1>4, <2>1 DEF Off, RuleIInv
  <2>3. /\ Held(time)' <=> Held(time)
        /\ ExceptionAt(time)' = existing
    BY <1>4, <1>6, SameRowsKeep, SameRowsPlaces DEF RuleIInv
  <2> HIDE DEF existing
  <2>4. Upserting'
    BY <1>2, <1>3, <1>9, <2>2, <2>3 DEF Upserting, Places
  <2> QED  BY <1>4, <1>6, <2>2, <2>4, SameRowsPlaces DEF RuleIInv, Places
<1>11. OncePerOccurrence'
  BY <1>4, <1>6, SameRowsOnce DEF RuleIInv
<1> QED  BY <1>7, <1>8, <1>10, <1>11 DEF RuleIInv

\* The exception is written as it was checked: what could have come between
\* is a generation, and then the two threads raced.
LEMMA UpsertExceptionIInv == ASSUME RuleIInv, UpsertException PROVE RuleIInv'
<1>1. /\ mcp.pc = "upsert"
      /\ exceptions' = Upsert(mcp.at, mcp.exception)
      /\ mcp' = McpIdle /\ raced' = (raced \/ ToolRaces)
      /\ UNCHANGED <<clock, rule, rows, gen, retry>>
  BY DEF UpsertException
<1>2. /\ DOMAIN mcp' = McpFields /\ mcp'.pc = "idle" /\ mcp # McpIdle
  BY <1>1, RecordFields
<1>3. SameRows
  BY <1>1, NoChange DEF RuleIInv
<1>4. /\ DOMAIN exceptions' = DOMAIN exceptions \cup {mcp.at}
      /\ exceptions'[mcp.at] = mcp.exception
      /\ \A t \in DOMAIN exceptions : t # mcp.at => exceptions'[t] = exceptions[t]
  BY <1>1 DEF Upsert
<1>5. DOMAIN mcp.exception = ExceptionFields /\ mcp.exception.type # "none"
  BY <1>1 DEF RuleIInv, ToolInv
<1>6. WellFormed'
  BY <1>1, <1>2, <1>4, <1>5 DEF RuleIInv, WellFormed
<1>7. Blank' /\ ToolInv' /\ CancelledStays'
  BY <1>1, <1>2 DEF RuleIInv, Blank, ToolInv, CancelledStays
<1>8. Off' \/ Places'
  <2>1. SUFFICES ASSUME ~Off' PROVE Places'
    OBVIOUS
  <2>2. Places /\ gen.pc \notin {"scan", "lookup", "create", "sync"}
    BY <1>1, <2>1 DEF Off, RuleIInv, ToolRaces
  <2>3. \A time : Held(time)' <=> Held(time)
    BY <1>3, SameRowsKeep DEF RuleIInv
  <2>4. Upserting' /\ Generating'
    BY <1>1, <1>2, <2>2 DEF Upserting, Generating
  <2>5. Unlinked'
    BY <1>1, <1>4, <2>2, <2>3 DEF Places, Unlinked, Upserting
  <2>6. Linked'
    <3>1. SUFFICES ASSUME NEW i \in DOMAIN rows, Holds(i, rows[i].orig),
                          rows[i].start # rows[i].orig
                   PROVE  /\ rows[i].orig \in DOMAIN exceptions'
                          /\ exceptions'[rows[i].orig].row = i
      BY <1>1 DEF Linked, Holds
    <3>2. /\ rows[i].orig \in DOMAIN exceptions
          /\ exceptions[rows[i].orig].row = i
      BY <2>2, <3>1 DEF Places, Linked
    <3>3. rows[i].orig = mcp.at => mcp.exception.row = i
      BY <1>1, <2>2, <3>2 DEF Places, Upserting, ExceptionAt
    <3> QED  BY <1>4, <3>2, <3>3
  <2> QED  BY <2>4, <2>5, <2>6 DEF Places
<1>9. OncePerOccurrence'
  BY <1>1, <1>3, SameRowsOnce DEF RuleIInv
<1> QED  BY <1>6, <1>7, <1>8, <1>9 DEF RuleIInv

\* An instance the user moves no longer tells which occurrence it is for.
LEMMA MoveInstanceIInv == ASSUME RuleIInv, MoveInstance PROVE RuleIInv'
<1>1. PICK i \in DOMAIN rows, to \in Targets :
        rows' = [rows EXCEPT ![i] =
                   Synchronized([@ EXCEPT !.start = to, !.moved = TRUE])]
  BY DEF MoveInstance
<1>2. /\ mcp = McpIdle /\ raced' = (raced \/ ToolRaces)
      /\ UNCHANGED <<clock, rule, exceptions, gen, retry, mcp>>
  BY DEF MoveInstance
<1> DEFINE moved == [rows[i] EXCEPT !.start = to, !.moved = TRUE]
           row == Synchronized(moved)
<1>3. /\ DOMAIN moved = RowFields /\ moved.moved = TRUE /\ moved.orig = rows[i].orig
      /\ moved.generated = rows[i].generated /\ (Live(moved) <=> Live(rows[i]))
  BY DEF RuleIInv, WellFormed, RowFields, Live
<1> HIDE DEF moved
<1>4. /\ DOMAIN row = RowFields /\ row.moved = TRUE /\ row.orig = rows[i].orig
      /\ row.generated = rows[i].generated /\ (Live(row) <=> Live(rows[i]))
  BY <1>3, TaskOnly DEF Alike
<1> HIDE DEF row
<1>5. /\ DOMAIN rows' = DOMAIN rows /\ rows'[i] = row
      /\ \A k \in DOMAIN rows : k # i => rows'[k] = rows[k]
      /\ rows' = [k \in DOMAIN rows |-> rows'[k]]
  BY <1>1 DEF row, moved
<1>6. rows' \in Seq({rows'[k] : k \in DOMAIN rows'})
  BY <1>5, Replaced DEF RuleIInv, WellFormed
<1>7. rule # NoRule
  <2>1. ASSUME rule = NoRule PROVE FALSE
    <3>1. rows = <<>>
      BY <2>1 DEF RuleIInv, Blank
    <3> QED  BY <3>1
  <2> QED  BY <2>1
<1>8. WellFormed'
  BY <1>2, <1>4, <1>5, <1>6 DEF RuleIInv, WellFormed
<1>9. Blank' /\ ToolInv' /\ CancelledStays'
  BY <1>2, <1>7, RecordFields DEF RuleIInv, Blank, ToolInv, CancelledStays
<1>10. \A k \in DOMAIN rows : \A time : Holds(k, time)' => k # i /\ Holds(k, time)
  BY <1>4, <1>5 DEF Holds
<1>11. Off' \/ Places'
  <2>1. SUFFICES ASSUME ~Off' PROVE Places'
    OBVIOUS
  <2>2. Places /\ gen.pc \notin {"scan", "lookup", "create", "sync"}
    BY <1>2, <2>1 DEF Off, RuleIInv, ToolRaces
  <2>3. \A time : Held(time)' => Held(time)
    BY <1>5, <1>10 DEF Held
  <2>4. Upserting' /\ Generating'
    BY <1>2, <2>2, RecordFields DEF Upserting, Generating
  <2>5. Unlinked'
    BY <1>2, <2>2, <2>3 DEF Places, Unlinked
  <2>6. Linked'
    BY <1>2, <1>5, <1>10, <2>2 DEF Places, Linked
  <2> QED  BY <2>4, <2>5, <2>6 DEF Places
<1>12. OncePerOccurrence'
  <2>1. SUFFICES ASSUME NEW k \in DOMAIN rows, NEW j \in DOMAIN rows, k < j,
                        Live(rows'[k]), Live(rows'[j]), rows'[j].generated,
                        rows'[k].orig = rows'[j].orig, ~raced', k # i
                 PROVE  rows'[k].moved \/ rows'[k].detached
    BY <1>4, <1>5 DEF OncePerOccurrence
  <2>2. /\ Live(rows[k]) /\ Live(rows[j]) /\ rows[j].generated
        /\ rows[k].orig = rows[j].orig
    BY <1>4, <1>5, <2>1
  <2>3. ~raced
    BY <1>2, <2>1
  <2> QED  BY <1>5, <2>1, <2>2, <2>3 DEF RuleIInv, OncePerOccurrence
<1> QED  BY <1>8, <1>9, <1>11, <1>12 DEF RuleIInv

\* schedule.delete leaves a cancelled row, which still holds its occurrence.
LEMMA DeleteInstanceIInv == ASSUME RuleIInv, DeleteInstance PROVE RuleIInv'
<1>1. PICK i \in DOMAIN rows :
        /\ Live(rows[i])
        /\ rows' = [rows EXCEPT ![i] = Suspended([@ EXCEPT !.status = "cancelled"])]
  BY DEF DeleteInstance
<1>2. /\ mcp = McpIdle /\ raced' = (raced \/ ToolRaces)
      /\ UNCHANGED <<clock, rule, exceptions, gen, retry, mcp>>
  BY DEF DeleteInstance
<1> DEFINE cancelled == [rows[i] EXCEPT !.status = "cancelled"]
<1>3. Alike(cancelled, rows[i])
  BY <1>1 DEF RuleIInv, WellFormed, Alike, RowFields, Live
<1> HIDE DEF cancelled
<1>4. Alike(Suspended(cancelled), rows[i])
  BY <1>3, TaskOnly DEF Alike
<1>5. SameRows
  <2>1. \A k \in DOMAIN rows : Alike(rows[k], rows[k])
    BY DEF RuleIInv, WellFormed, Alike
  <2> QED  BY <1>1, <1>4, <2>1 DEF SameRows, cancelled
<1>7. rule # NoRule
  <2>1. ASSUME rule = NoRule PROVE FALSE
    <3>1. rows = <<>>
      BY <2>1 DEF RuleIInv, Blank
    <3> QED  BY <3>1
  <2> QED  BY <2>1
<1>8. WellFormed'
  BY <1>2, <1>5, SameRowsKeep DEF RuleIInv, WellFormed
<1>9. Blank' /\ ToolInv' /\ CancelledStays'
  BY <1>2, <1>7, RecordFields DEF RuleIInv, Blank, ToolInv, CancelledStays
<1>10. Off' \/ Places'
  BY <1>2, <1>5, SameRowsPlaces DEF RuleIInv, Off, Places
<1>11. OncePerOccurrence'
  BY <1>2, <1>5, SameRowsOnce DEF RuleIInv
<1> QED  BY <1>8, <1>9, <1>10, <1>11 DEF RuleIInv

\* UpdateAndRebuild drops the exceptions ahead together with the instances
\* ahead; an instance an override had put into the past loses its link.
LEMMA UpdateRewriteIInv == ASSUME RuleIInv, UpdateRewrite PROVE RuleIInv'
<1> DEFINE kept == [i \in DOMAIN rows |->
                      IF rows[i].start >= clock THEN [rows[i] EXCEPT !.status = "deleted"]
                      ELSE [rows[i] EXCEPT !.detached = @ \/ ~(rows[i].orig < clock)]]
           made == Instance(mcp.first, mcp.first, FALSE)
           n == Len(rows) + 1
<1>1. /\ mcp.pc = "write" /\ rule' = mcp.rule /\ rows' = Append(kept, made)
      /\ exceptions' = [t \in {u \in DOMAIN exceptions : u < clock} |-> exceptions[t]]
      /\ mcp' = [mcp EXCEPT !.pc = "sync"]
      /\ raced' = (raced \/ ToolRaces)
      /\ UNCHANGED <<clock, gen, retry>>
  BY DEF UpdateRewrite, Rebuilt
<1>2. /\ rule.status = "active" /\ "status" \in DOMAIN rule'
      /\ rule'.status = "active" /\ ~(mcp.first < clock)
  BY <1>1 DEF RuleIInv, ToolInv
<1>3. DOMAIN mcp' = McpFields /\ mcp'.pc = "sync" /\ mcp # McpIdle
  BY <1>1, RecordFields DEF RuleIInv, WellFormed, McpFields
<1>4. /\ DOMAIN made = RowFields /\ made.start = mcp.first /\ made.orig = mcp.first
      /\ made.generated = FALSE
  BY DEF Instance, RowFields
<1>5. \A i \in DOMAIN rows :
        /\ DOMAIN kept[i] = RowFields
        /\ kept[i].start = rows[i].start /\ kept[i].orig = rows[i].orig
        /\ kept[i].moved = rows[i].moved /\ kept[i].generated = rows[i].generated
        /\ Live(kept[i]) => Live(rows[i])
        /\ rows[i].detached => kept[i].detached
        /\ Live(kept[i]) /\ ~kept[i].detached => rows[i].orig < clock
  <2> SUFFICES ASSUME NEW i \in DOMAIN rows
               PROVE  /\ DOMAIN kept[i] = RowFields
                      /\ kept[i].start = rows[i].start /\ kept[i].orig = rows[i].orig
                      /\ kept[i].moved = rows[i].moved
                      /\ kept[i].generated = rows[i].generated
                      /\ Live(kept[i]) => Live(rows[i])
                      /\ rows[i].detached => kept[i].detached
                      /\ Live(kept[i]) /\ ~kept[i].detached => rows[i].orig < clock
    OBVIOUS
  <2>1. DOMAIN rows[i] = RowFields
    BY DEF RuleIInv, WellFormed
  <2>2. CASE rows[i].start >= clock
    BY <2>1, <2>2 DEF RowFields, Live
  <2>3. CASE ~(rows[i].start >= clock)
    BY <2>1, <2>3 DEF RowFields, Live
  <2> QED  BY <2>2, <2>3
<1>6. kept \in Seq({kept[i] : i \in DOMAIN kept}) /\ DOMAIN kept = DOMAIN rows
  BY Replaced DEF RuleIInv, WellFormed
<1> HIDE DEF made, kept
<1>7. /\ Len(kept) \in Nat /\ Len(rows) \in Nat
      /\ DOMAIN rows = 1 .. Len(rows) /\ DOMAIN kept = 1 .. Len(kept)
  BY <1>6, Appended DEF RuleIInv, WellFormed
<1>8. Len(kept) = Len(rows)
  BY <1>6, <1>7
<1>9. /\ DOMAIN rows' = 1 .. n /\ rows'[n] = made
      /\ \A i \in DOMAIN rows : rows'[i] = kept[i]
      /\ rows' \in Seq({rows'[i] : i \in DOMAIN rows'})
  <2>1. rows' = Append(kept, made)
    BY <1>1
  <2> QED  BY ONLY <2>1, <1>6, <1>8, Appended
<1>10. \A i \in DOMAIN rows' : i \in DOMAIN rows \/ i = n
  BY <1>7, <1>9
<1>11. \A t \in DOMAIN exceptions' :
          t \in DOMAIN exceptions /\ t < clock /\ exceptions'[t] = exceptions[t]
  BY <1>1
<1>12. WellFormed'
  <2>1. \A i \in DOMAIN rows' : DOMAIN rows'[i] = RowFields
    BY <1>4, <1>5, <1>9, <1>10
  <2> QED  BY <1>1, <1>2, <1>3, <1>9, <1>11, <2>1 DEF RuleIInv, WellFormed
<1>13. Blank' /\ ToolInv' /\ CancelledStays'
  BY <1>2, <1>3, RecordFields DEF Blank, ToolInv, CancelledStays
<1>14. \A i \in DOMAIN rows : \A time : Holds(i, time)' => Holds(i, time) /\ time < clock
  BY <1>5, <1>9 DEF Holds
<1>15. Off' \/ Places'
  <2>1. SUFFICES ASSUME ~Off' PROVE Places'
    OBVIOUS
  <2>2. Places /\ gen.pc \notin {"scan", "lookup", "create", "sync"}
    BY <1>1, <1>2, <2>1 DEF Off, RuleIInv, ToolRaces
  <2>3. Upserting' /\ Generating'
    BY <1>1, <1>3, <2>2 DEF Upserting, Generating
  <2>4. \A time : time < clock /\ Held(time)' => Held(time)
    <3> SUFFICES ASSUME NEW time, time < clock, NEW i \in DOMAIN rows', Holds(i, time)'
                 PROVE  Held(time)
      BY DEF Held
    <3>1. CASE i \in DOMAIN rows
      BY <1>14, <3>1 DEF Held
    <3>2. CASE i = n
      <4>1. time = mcp.first
        BY <1>4, <1>9, <3>2 DEF Holds
      <4> QED  BY <1>2, <4>1
    <3> QED  BY <1>10, <3>1, <3>2
  <2>5. Unlinked'
    BY <1>11, <2>2, <2>4 DEF Places, Unlinked
  <2>6. Linked'
    <3> SUFFICES ASSUME NEW i \in DOMAIN rows', Holds(i, rows[i].orig)',
                        rows'[i].start # rows'[i].orig
                 PROVE  /\ rows'[i].orig \in DOMAIN exceptions'
                        /\ exceptions'[rows'[i].orig].row = i
      BY DEF Linked, Holds
    <3>1. i \in DOMAIN rows
      BY <1>4, <1>9, <1>10
    <3>2. rows'[i].orig = rows[i].orig /\ rows'[i].start = rows[i].start
      BY <1>5, <1>9, <3>1
    <3>3. Holds(i, rows[i].orig) /\ rows[i].orig < clock
      BY <1>5, <1>9, <3>1 DEF Holds
    <3>4. /\ rows[i].orig \in DOMAIN exceptions
          /\ exceptions[rows[i].orig].row = i
      BY <2>2, <3>1, <3>2, <3>3 DEF Places, Linked
    <3> QED  BY <1>1, <3>2, <3>3, <3>4
  <2> QED  BY <2>3, <2>5, <2>6 DEF Places
<1>16. OncePerOccurrence'
  <2> SUFFICES ASSUME NEW i \in DOMAIN rows', NEW j \in DOMAIN rows', i < j,
                      Live(rows'[i]), Live(rows'[j]), rows'[j].generated,
                      rows'[i].orig = rows'[j].orig, ~raced'
               PROVE  rows'[i].moved \/ rows'[i].detached
    BY DEF OncePerOccurrence
  <2>1. j # n
    BY <1>4, <1>9
  <2>2. i \in DOMAIN rows /\ j \in DOMAIN rows
    BY <1>7, <1>9, <2>1
  <2>3. /\ Live(rows[i]) /\ Live(rows[j]) /\ rows[j].generated
        /\ rows[i].orig = rows[j].orig
    BY <1>5, <1>9, <2>2
  <2>4. rows[i].moved \/ rows[i].detached
    BY <1>1, <2>2, <2>3 DEF RuleIInv, OncePerOccurrence
  <2> QED  BY <1>5, <1>9, <2>2, <2>4
<1> QED  BY <1>12, <1>13, <1>15, <1>16 DEF RuleIInv

\* A reminder that fires starts a generation and changes a task.
LEMMA TaskFiresIInv == ASSUME RuleIInv, NEW i \in DOMAIN rows, TaskFires(i) PROVE RuleIInv'
<1>1. /\ gen = GenIdle /\ rows' = [rows EXCEPT ![i].task = "triggered"]
      /\ gen' = [GenIdle EXCEPT !.pc = "rule"]
      /\ UNCHANGED <<clock, rule, exceptions, retry, mcp, raced>>
  BY DEF TaskFires, history
<1>2. DOMAIN gen' = GenFields /\ gen'.pc = "rule" /\ gen'.exception = NoException
  BY <1>1 DEF GenIdle, GenFields
<1>3. SameRows
  <2>1. \A k \in DOMAIN rows : Alike(rows[k], rows[k])
    BY DEF RuleIInv, WellFormed, Alike
  <2>2. Alike([rows[i] EXCEPT !.task = "triggered"], rows[i])
    BY TaskOnly DEF RuleIInv, WellFormed
  <2> QED  BY <1>1, <2>1, <2>2 DEF SameRows
<1>4. rule # NoRule
  <2>1. ASSUME rule = NoRule PROVE FALSE
    <3>1. rows = <<>>
      BY <2>1 DEF RuleIInv, Blank
    <3> QED  BY <3>1
  <2> QED  BY <2>1
<1>5. WellFormed'
  BY <1>1, <1>2, <1>3, SameRowsKeep, RecordFields DEF RuleIInv, WellFormed
<1>6. Blank' /\ ToolInv' /\ CancelledStays'
  BY <1>1, <1>2, <1>4 DEF RuleIInv, Blank, ToolInv, CancelledStays
<1>7. Off' \/ Places'
  BY <1>1, <1>2, <1>3, SameRowsPlaces DEF RuleIInv, Off, Places, Generating
<1>8. OncePerOccurrence'
  BY <1>1, <1>3, SameRowsOnce DEF RuleIInv
<1> QED  BY <1>5, <1>6, <1>7, <1>8 DEF RuleIInv

\* Steps of the timing runner that change what it knows alone.
LEMMA RunnerOnly ==
    ASSUME RuleIInv, rule # NoRule, UNCHANGED <<clock, rule, rows, exceptions, mcp, raced>>,
           DOMAIN gen' = GenFields,
           \/ gen'.exception = gen.exception
           \/ gen'.exception = NoException
           \/ \E t \in DOMAIN exceptions : gen'.exception = exceptions[t],
           gen'.pc \in {"lookup", "create"} => ~(rule.status = "cancelled" /\ ~raced),
           gen'.pc = "scan" /\ rule.status = "cancelled" /\ ~raced
             => gen'.rule.status = "cancelled",
           Off \/ ~Places \/ Generating'
    PROVE  RuleIInv'
<1>3. SameRows
  BY NoChange DEF RuleIInv
<1>5. WellFormed'
  BY RecordFields DEF RuleIInv, WellFormed
<1>6. Blank' /\ ToolInv' /\ CancelledStays'
  BY DEF RuleIInv, Blank, ToolInv, CancelledStays
<1>7. Off' \/ Places'
  BY <1>3, SameRowsPlaces DEF RuleIInv, Off, Places
<1>8. OncePerOccurrence'
  BY <1>3, SameRowsOnce DEF RuleIInv
<1> QED  BY <1>5, <1>6, <1>7, <1>8 DEF RuleIInv

\* A retry starts a generation.
LEMMA RetryFiresIInv == ASSUME RuleIInv, RetryFires PROVE RuleIInv'
<1>1. /\ gen' = [GenIdle EXCEPT !.pc = "rule", !.failures = retry] /\ retry # 0
      /\ UNCHANGED <<clock, rule, rows, exceptions, mcp, raced>>
  BY DEF RetryFires, tables, history
<1>2. DOMAIN gen' = GenFields /\ gen'.pc = "rule" /\ gen'.exception = NoException
  BY <1>1 DEF GenIdle, GenFields
<1>3. rule # NoRule
  BY <1>1 DEF RuleIInv, Blank
<1> QED  BY <1>1, <1>2, <1>3, RunnerOnly DEF Generating

\* A generation works on a rule.
LEMMA AtWork == ASSUME RuleIInv, gen.pc # "idle" PROVE rule # NoRule /\ DOMAIN gen = GenFields
BY RecordFields DEF RuleIInv, Blank, WellFormed

\* The generation reads the rule as it is.
LEMMA GenerateRuleIInv == ASSUME RuleIInv, GenerateRule PROVE RuleIInv'
<1>1. /\ gen.pc = "rule" /\ gen' = [gen EXCEPT !.pc = "scan", !.rule = rule, !.cursor = clock]
      /\ UNCHANGED <<clock, rule, rows, exceptions, mcp, raced>>
  BY DEF GenerateRule, tables, history
<1>2. /\ DOMAIN gen' = GenFields /\ gen'.pc = "scan" /\ gen'.rule = rule
      /\ gen'.exception = gen.exception
  BY <1>1, AtWork DEF GenFields
<1> QED  BY <1>1, <1>2, AtWork, RunnerOnly DEF Generating

\* A generation may end at any time without a write.
LEMMA ToIdle ==
    ASSUME RuleIInv, rule # NoRule, gen' = GenIdle,
           UNCHANGED <<clock, rule, rows, exceptions, mcp, raced>>
    PROVE  RuleIInv'
<1>1. DOMAIN gen' = GenFields /\ gen'.pc = "idle" /\ gen'.exception = NoException
  BY RecordFields
<1> QED  BY <1>1, RunnerOnly DEF Generating

\* A generation that fails has written nothing.
LEMMA GenerateFailsIInv == ASSUME RuleIInv, GenerateFails \/ GenerateGivesUp PROVE RuleIInv'
<1>1. /\ gen.pc \in {"rule", "scan", "lookup", "create"} /\ gen' = GenIdle
      /\ UNCHANGED <<clock, rule, rows, exceptions, mcp, raced>>
  BY DEF GenerateFails, GenerateGivesUp, tables, history
<1> QED  BY <1>1, AtWork, ToIdle

\* The scan stops at an occurrence that is neither skipped nor linked to a
\* row, so that none holds it unless an instance stands there.
LEMMA GenerateScanIInv == ASSUME RuleIInv, GenerateScan PROVE RuleIInv'
<1> DEFINE next == NextOccurrence(gen.rule, gen.cursor)
           exception == ExceptionAt(next)
<1>1. /\ gen.pc = "scan"
      /\ UNCHANGED <<clock, rule, rows, exceptions, mcp, raced>>
  BY DEF GenerateScan, tables, history
<1>2. rule # NoRule /\ DOMAIN gen = GenFields
  BY <1>1, AtWork
<1>3. CASE next = NoTime /\ gen' = GenIdle
  BY <1>1, <1>2, <1>3, ToIdle
<1>4. CASE next # NoTime /\ Passed(exception) /\ gen' = [gen EXCEPT !.cursor = next + 1]
  <2> HIDE DEF next
  <2>1. /\ DOMAIN gen' = GenFields /\ gen'.pc = "scan" /\ gen'.rule = gen.rule
        /\ gen'.exception = gen.exception
    BY <1>1, <1>2, <1>4 DEF GenFields
  <2>2. rule.status = "cancelled" /\ ~raced => gen.rule.status = "cancelled"
    BY <1>1 DEF RuleIInv, CancelledStays
  <2> QED  BY <1>1, <1>2, <2>1, <2>2, RunnerOnly DEF Generating
<1>5. CASE /\ next # NoTime /\ ~Passed(exception)
           /\ gen' = [gen EXCEPT !.next = next, !.exception = exception,
                        !.pc = IF exception = NoException THEN "lookup" ELSE "create"]
  <2>1. gen.rule.status = "active"
    BY <1>5, PlannerIsAhead
  <2>2. ~(rule.status = "cancelled" /\ ~raced)
    BY <1>1, <2>1 DEF RuleIInv, CancelledStays
  <2>3. exception.row = 0
    BY <1>5 DEF Passed
  <2>4. exception # NoException => next \in DOMAIN exceptions /\ exception = exceptions[next]
    BY DEF ExceptionAt
  <2>a. PICK n : n = next
    OBVIOUS
  <2>5. ExceptionAt(n)' = exception
    BY <1>1, <2>a DEF ExceptionAt
  <2>b. Places /\ exception # NoException => ~Held(n)
    BY <2>3, <2>4, <2>a DEF Places, Unlinked
  <2>6. Places /\ exception # NoException => ~Held(n)'
    BY <1>1, <2>b DEF Held, Holds
  <2>c. exception = NoException \/ \E t \in DOMAIN exceptions : exception = exceptions[t]
    BY DEF ExceptionAt
  <2> HIDE DEF next, exception
  <2>7. /\ DOMAIN gen' = GenFields /\ gen'.next = n /\ gen'.exception = exception
        /\ gen'.pc = IF exception = NoException THEN "lookup" ELSE "create"
    BY <1>2, <1>5, <2>a DEF GenFields
  <2>8. Places => Generating'
    BY <2>5, <2>6, <2>7 DEF Generating
  <2> QED  BY <1>1, <1>2, <2>2, <2>7, <2>8, <2>c, RunnerOnly
<1> QED  BY <1>3, <1>4, <1>5 DEF GenerateScan

\* FindMaterializedScheduleOccurrence finds the instance that stands there.
LEMMA GenerateLookupIInv == ASSUME RuleIInv, GenerateLookup PROVE RuleIInv'
<1>1. /\ gen.pc = "lookup"
      /\ UNCHANGED <<clock, rule, rows, exceptions, mcp, raced>>
  BY DEF GenerateLookup, tables, history
<1>2. rule # NoRule /\ DOMAIN gen = GenFields
  BY <1>1, AtWork
<1>3. ~(rule.status = "cancelled" /\ ~raced)
  BY <1>1 DEF RuleIInv, CancelledStays
<1>4. CASE /\ Materialized(gen.next)
           /\ gen' = [gen EXCEPT !.pc = "scan", !.cursor = gen.next + 1]
  <2>1. DOMAIN gen' = GenFields /\ gen'.pc = "scan" /\ gen'.exception = gen.exception
    BY <1>2, <1>4 DEF GenFields
  <2> QED  BY <1>1, <1>2, <1>3, <2>1, RunnerOnly DEF Generating
<1>5. CASE ~Materialized(gen.next) /\ gen' = [gen EXCEPT !.pc = "create"]
  <2>1. /\ DOMAIN gen' = GenFields /\ gen'.pc = "create" /\ gen'.next = gen.next
        /\ gen'.exception = gen.exception
    BY <1>2, <1>5 DEF GenFields
  <2>2. Places => /\ ~Held(gen.next)
                  /\ gen.exception = ExceptionAt(gen.next)
    BY <1>1, <1>5, HeldElsewhere DEF Places, Generating
  <2>a. PICK n : n = gen.next
    OBVIOUS
  <2>3. Places => ~Held(n)' /\ gen.exception = ExceptionAt(n)'
    BY <1>1, <2>2, <2>a DEF Held, Holds, ExceptionAt
  <2>4. Places => Generating'
    BY <2>1, <2>3, <2>a DEF Generating
  <2> QED  BY <1>1, <1>2, <1>3, <2>1, <2>4, RunnerOnly
<1> QED  BY <1>4, <1>5 DEF GenerateLookup

\* CreateNextInstance makes the only instance of the occurrence, and links
\* it when the override puts it elsewhere.
LEMMA GenerateCreateIInv == ASSUME RuleIInv, GenerateCreate PROVE RuleIInv'
<1> DEFINE to == gen.exception.to
           start == IF to # NoTime THEN to ELSE gen.next
           id == Len(rows) + 1
           made == Instance(start, gen.next, TRUE)
           linked == [gen.exception EXCEPT !.row = id]
<1>1. /\ gen.pc = "create" /\ rows' = Append(rows, made)
      /\ exceptions' = IF gen.exception = NoException THEN exceptions
                       ELSE Upsert(gen.next, linked)
      /\ gen' = [gen EXCEPT !.pc = "sync", !.row = id]
      /\ raced' = (raced \/ RunnerRaces)
      /\ UNCHANGED <<clock, rule, retry, mcp>>
  BY DEF GenerateCreate
<1>2. rule # NoRule /\ DOMAIN gen = GenFields
  BY <1>1, AtWork
<1>3. DOMAIN gen' = GenFields /\ gen'.pc = "sync"
  BY <1>1, <1>2 DEF GenFields
<1>4. /\ DOMAIN made = RowFields /\ made.start = start /\ made.orig = gen.next
      /\ made.generated = TRUE
  BY DEF Instance, RowFields
<1> HIDE DEF made, start
<1>5. /\ Len(rows) \in Nat /\ DOMAIN rows = 1 .. Len(rows)
      /\ DOMAIN rows' = 1 .. id /\ rows'[id] = made
      /\ \A i \in DOMAIN rows : rows'[i] = rows[i]
      /\ rows' \in Seq({rows'[i] : i \in DOMAIN rows'})
  <2>1. rows' = Append(rows, made)
    BY <1>1
  <2>2. rows \in Seq({rows[i] : i \in DOMAIN rows})
    BY DEF RuleIInv, WellFormed
  <2> QED  BY ONLY <2>1, <2>2, Appended
<1>6. id # 0 /\ id \notin DOMAIN rows
  BY <1>5
<1>7. \A i \in DOMAIN rows' : i \in DOMAIN rows \/ i = id
  BY <1>5
<1> HIDE DEF id
<1>8. ~raced' => /\ ~raced /\ ~Off /\ Places /\ mcp.pc \notin {"write", "upsert"}
                 /\ gen.exception = ExceptionAt(gen.next) /\ ~Held(gen.next)
  BY <1>1 DEF RuleIInv, Off, CancelledStays, Places, Generating, RunnerRaces
<1>9. exceptions' = exceptions \/ ~(gen.exception = NoException)
  BY <1>1
<1>10. /\ DOMAIN linked = ExceptionFields /\ linked.row = id
       /\ linked.type = gen.exception.type
  BY DEF RuleIInv, WellFormed, ExceptionFields
<1>11. gen'.exception = gen.exception
  BY <1>1, <1>2 DEF GenFields
<1> HIDE DEF linked
<1>12. gen.exception # NoException =>
         /\ DOMAIN exceptions' = DOMAIN exceptions \cup {gen.next}
         /\ exceptions'[gen.next] = linked
         /\ \A t \in DOMAIN exceptions : t # gen.next => exceptions'[t] = exceptions[t]
  BY <1>1 DEF Upsert
<1>13. WellFormed'
  <2>1. \A t \in DOMAIN exceptions' : /\ DOMAIN exceptions'[t] = ExceptionFields
                                     /\ exceptions'[t].type # "none"
    <3>1. CASE gen.exception = NoException
      BY <1>1, <3>1 DEF RuleIInv, WellFormed
    <3>2. CASE gen.exception # NoException
      BY <1>10, <1>12, <3>2 DEF RuleIInv, WellFormed
    <3> QED  BY <3>1, <3>2
  <2>2. \A i \in DOMAIN rows' : DOMAIN rows'[i] = RowFields
    BY <1>4, <1>5, <1>7 DEF RuleIInv, WellFormed
  <2> QED  BY <1>1, <1>3, <1>5, <1>11, <2>1, <2>2 DEF RuleIInv, WellFormed
<1>14. Blank' /\ ToolInv' /\ CancelledStays'
  BY <1>1, <1>2, <1>3 DEF RuleIInv, Blank, ToolInv, CancelledStays
<1>15. \A i \in DOMAIN rows : \A time : Holds(i, time)' <=> Holds(i, time)
  BY <1>5, <1>6 DEF Holds
<1>16. \A i \in DOMAIN rows' : \A time : i = id /\ Holds(i, time)' => time = gen.next
  BY <1>4, <1>5 DEF Holds
<1>17. Off' \/ Places'
  <2>1. SUFFICES ASSUME ~raced' PROVE Places'
    BY DEF Off
  <2>2. /\ Places /\ mcp.pc \notin {"write", "upsert"}
        /\ gen.exception = ExceptionAt(gen.next) /\ ~Held(gen.next)
    BY <1>8, <2>1
  <2>3. Upserting' /\ Generating'
    BY <1>1, <1>3, <2>2 DEF Upserting, Generating
  <2>4. \A t : t # gen.next /\ Held(t)' => Held(t)
    BY <1>7, <1>15, <1>16 DEF Held
  <2>5. gen.exception = NoException => gen.next \notin DOMAIN exceptions
    BY <2>2, RecordFields DEF ExceptionAt, RuleIInv, WellFormed
  <2>6. \A t \in DOMAIN exceptions' :
           \/ t = gen.next /\ exceptions'[t].row = id
           \/ t # gen.next /\ t \in DOMAIN exceptions /\ exceptions'[t] = exceptions[t]
    BY <1>1, <1>10, <1>12, <2>5
  <2>7. Unlinked'
    BY <1>6, <2>2, <2>4, <2>6 DEF Places, Unlinked
  <2>8. Linked'
    <3> SUFFICES ASSUME NEW i \in DOMAIN rows', Holds(i, rows[i].orig)',
                        rows'[i].start # rows'[i].orig
                 PROVE  /\ rows'[i].orig \in DOMAIN exceptions'
                        /\ exceptions'[rows'[i].orig].row = i
      BY DEF Linked
    <3>1. CASE i \in DOMAIN rows
      <4>1. /\ rows'[i].orig = rows[i].orig /\ rows'[i].start = rows[i].start
            /\ Holds(i, rows[i].orig)
        BY <1>5, <3>1 DEF Holds
      <4>2. /\ rows[i].orig \in DOMAIN exceptions
            /\ exceptions[rows[i].orig].row = i
        BY <2>2, <3>1, <4>1 DEF Places, Linked
      <4>3. rows[i].orig # gen.next
        BY <2>2, <3>1, <4>1 DEF Held
      <4>4. rows[i].orig \in DOMAIN exceptions'
        BY <1>1, <1>12, <4>2
      <4> QED  BY <2>6, <4>1, <4>2, <4>3, <4>4
    <3>2. CASE i = id
      <4>1. rows'[i].orig = gen.next /\ rows'[i].start = start
        BY <1>4, <1>5, <3>2
      <4>2. to # NoTime
        BY <4>1 DEF start
      <4>3. gen.exception # NoException
        BY <4>2 DEF NoException
      <4> QED  BY <1>10, <1>12, <3>2, <4>1, <4>3
    <3> QED  BY <1>7, <3>1, <3>2
  <2> QED  BY <2>3, <2>7, <2>8 DEF Places
<1>18. OncePerOccurrence'
  <2> SUFFICES ASSUME NEW i \in DOMAIN rows', NEW j \in DOMAIN rows', i < j,
                      Live(rows'[i]), Live(rows'[j]), rows'[j].generated,
                      rows'[i].orig = rows'[j].orig, ~raced'
               PROVE  rows'[i].moved \/ rows'[i].detached
    BY DEF OncePerOccurrence
  <2>1. i \in DOMAIN rows
    BY <1>5 DEF id
  <2>2. CASE j \in DOMAIN rows
    BY <1>5, <1>8, <2>1, <2>2 DEF RuleIInv, OncePerOccurrence
  <2>3. CASE j = id
    <3>1. rows'[i].orig = gen.next
      BY <1>4, <1>5, <2>3
    <3>2. ~Holds(i, gen.next)
      BY <1>8, <2>1 DEF Held
    <3> QED  BY <1>5, <2>1, <3>1, <3>2 DEF Holds
  <2> QED  BY <1>7, <2>2, <2>3
<1> QED  BY <1>13, <1>14, <1>17, <1>18 DEF RuleIInv

\* The new row gets its reminder.
LEMMA GenerateSyncIInv == ASSUME RuleIInv, GenerateSync PROVE RuleIInv'
<1>1. /\ gen.pc = "sync" /\ gen' = GenIdle
      /\ rows' = IF Live(rows[gen.row]) THEN [rows EXCEPT ![gen.row] = Synchronized(@)]
                 ELSE rows
      /\ UNCHANGED <<clock, rule, exceptions, mcp, raced>>
  BY DEF GenerateSync
<1>2. DOMAIN gen' = GenFields /\ gen'.pc = "idle" /\ gen'.exception = NoException
  BY <1>1, RecordFields
<1>3. SameRows
  <2>1. \A k \in DOMAIN rows : Alike(rows[k], rows[k])
    BY DEF RuleIInv, WellFormed, Alike
  <2>2. \A k \in DOMAIN rows : Alike(Synchronized(rows[k]), rows[k])
    BY TaskOnly DEF RuleIInv, WellFormed
  <2>3. CASE rows' = rows
    BY <2>3, NoChange DEF RuleIInv
  <2>4. CASE rows' = [rows EXCEPT ![gen.row] = Synchronized(rows[gen.row])]
    BY <2>1, <2>2, <2>4 DEF SameRows
  <2> QED  BY <1>1, <2>3, <2>4
<1>4. rule # NoRule
  BY <1>1, AtWork
<1>5. WellFormed'
  BY <1>1, <1>2, <1>3, SameRowsKeep, RecordFields DEF RuleIInv, WellFormed
<1>6. Blank' /\ ToolInv' /\ CancelledStays'
  BY <1>1, <1>2, <1>4 DEF RuleIInv, Blank, ToolInv, CancelledStays
<1>7. Off' \/ Places'
  BY <1>1, <1>2, <1>3, SameRowsPlaces DEF RuleIInv, Off, Places, Generating
<1>8. OncePerOccurrence'
  BY <1>1, <1>3, SameRowsOnce DEF RuleIInv
<1> QED  BY <1>5, <1>6, <1>7, <1>8 DEF RuleIInv

\* Time passes between two pieces of work.
LEMMA ClockMovesIInv == ASSUME RuleIInv, ClockMoves PROVE RuleIInv'
<1>1. /\ rule # NoRule /\ gen = GenIdle /\ mcp = McpIdle
      /\ UNCHANGED <<rule, rows, exceptions, gen, retry, mcp, raced>>
  BY DEF ClockMoves, tables, history
<1>2. gen'.pc = "idle" /\ mcp'.pc = "idle"
  BY <1>1, RecordFields
<1>3. SameRows
  BY <1>1, NoChange DEF RuleIInv
<1>5. WellFormed'
  BY <1>1 DEF RuleIInv, WellFormed
<1>6. Blank' /\ ToolInv' /\ CancelledStays'
  BY <1>1, <1>2 DEF RuleIInv, Blank, ToolInv, CancelledStays
<1>7. Off' \/ Places'
  BY <1>1, <1>3, SameRowsPlaces DEF RuleIInv, Off, Places
<1>8. OncePerOccurrence'
  BY <1>1, <1>3, SameRowsOnce DEF RuleIInv
<1> QED  BY <1>5, <1>6, <1>7, <1>8 DEF RuleIInv

\* A restart forgets what the threads knew and changes tasks alone.
LEMMA RestartIInv == ASSUME RuleIInv, Restart PROVE RuleIInv'
<1>1. /\ rule # NoRule /\ gen' = GenIdle /\ mcp' = McpIdle
      /\ UNCHANGED <<rule, exceptions, raced>>
  BY DEF Restart
<1>2. /\ gen'.pc = "idle" /\ mcp'.pc = "idle" /\ gen'.exception = NoException
      /\ DOMAIN gen' = GenFields /\ DOMAIN mcp' = McpFields
  BY <1>1, RecordFields
<1>3. SameRows
  <2>0. PICK t \in Times :
          rows' = [i \in DOMAIN rows |->
              CASE rows[i].task = "pending" /\ rows[i].status # "active"
                     -> Suspended(rows[i])
                [] rows[i].task = "none" /\ rows[i].status = "active"
                     /\ rows[i].start > t
                     -> [rows[i] EXCEPT !.task = "pending"]
                [] OTHER -> rows[i]]
    BY DEF Restart
  <2>1. \A k \in DOMAIN rows : /\ Alike(rows[k], rows[k])
                              /\ Alike(Suspended(rows[k]), rows[k])
                              /\ Alike([rows[k] EXCEPT !.task = "pending"], rows[k])
    <3>1. \A k \in DOMAIN rows : DOMAIN rows[k] = RowFields
      BY DEF RuleIInv, WellFormed
    <3>2. \A k \in DOMAIN rows : Alike(rows[k], rows[k])
      BY <3>1 DEF Alike
    <3> QED  BY <3>1, <3>2, TaskOnly
  <2> HIDE DEF Alike, Suspended
  <2>2. \A i \in DOMAIN rows : rows'[i] \in {rows[i], Suspended(rows[i]),
                                            [rows[i] EXCEPT !.task = "pending"]}
    BY <2>0
  <2>3. rows' = [i \in DOMAIN rows |-> rows'[i]]
    BY <2>0
  <2> QED  BY <2>1, <2>2, <2>3 DEF SameRows
<1>5. WellFormed'
  BY <1>1, <1>2, <1>3, SameRowsKeep, RecordFields DEF RuleIInv, WellFormed
<1>6. Blank' /\ ToolInv' /\ CancelledStays'
  BY <1>1, <1>2 DEF RuleIInv, Blank, ToolInv, CancelledStays
<1>7. Off' \/ Places'
  BY <1>1, <1>2, <1>3, SameRowsPlaces DEF RuleIInv, Off, Places, Generating, Upserting
<1>8. OncePerOccurrence'
  BY <1>1, <1>3, SameRowsOnce DEF RuleIInv
<1> QED  BY <1>5, <1>6, <1>7, <1>8 DEF RuleIInv

\* Every step of every thread preserves the invariant.
LEMMA RuleNextIInv == ASSUME RuleIInv, [RuleNext]_ruleVars PROVE RuleIInv'
<1>1. CASE UNCHANGED ruleVars
  <2>1. UNCHANGED <<clock, rule, rows, exceptions, gen, retry, mcp, raced>>
    BY <1>1 DEF ruleVars, tables, history
  <2>2. SameRows
    BY <2>1, NoChange DEF RuleIInv
  <2>3. WellFormed' /\ Blank' /\ ToolInv' /\ CancelledStays'
    BY <2>1 DEF RuleIInv, WellFormed, Blank, ToolInv, CancelledStays
  <2>4. (Off' \/ Places') /\ OncePerOccurrence'
    BY <2>1, <2>2, SameRowsPlaces, SameRowsOnce DEF RuleIInv, Off, Places
  <2> QED  BY <2>3, <2>4 DEF RuleIInv
<1>2. CASE RuleNext
  BY <1>2, CreateRuleIInv, UpdateSuspendIInv, UpdateLoadIInv, UpdateFailsIInv,
     UpdateRewriteIInv, UpdateSyncIInv, CancelRuleIInv, CancelSuspendIInv,
     SkipCheckIInv, ModifyCheckIInv, UpsertExceptionIInv, MoveInstanceIInv,
     DeleteInstanceIInv, TaskFiresIInv, RetryFiresIInv, GenerateRuleIInv,
     GenerateScanIInv, GenerateLookupIInv, GenerateCreateIInv, GenerateSyncIInv,
     GenerateFailsIInv, ClockMovesIInv, RestartIInv DEF RuleNext
<1> QED  BY <1>1, <1>2

\* generate_next_schedule_instance makes no second instance of an occurrence,
\* through every sequence of the tools, retries and restarts, unless it
\* overlapped with a tool, the user moved the first instance, or update_rule
\* dropped its override.  No assumption on the constants is needed.
THEOREM OncePerOccurrenceHolds == RuleSpec => []OncePerOccurrence
<1>1. RuleInit => RuleIInv
  BY RuleInitIInv
<1>2. RuleIInv /\ [RuleNext]_ruleVars => RuleIInv'
  BY RuleNextIInv
<1>3. RuleIInv => OncePerOccurrence
  BY DEF RuleIInv
<1> QED  BY <1>1, <1>2, <1>3, PTL DEF RuleSpec

\* What SynchronizeSchedule and SuspendReminders make of the task of a row.
LEMMA ReminderTasks ==
    ASSUME NEW row, DOMAIN row = RowFields
    PROVE  /\ row.status = "active" /\ Ahead(row.start) => Synchronized(row).task = "pending"
           /\ ~(row.status = "active" /\ Ahead(row.start))
                => Synchronized(row).task = IF row.task = "pending" THEN "cancelled"
                                            ELSE row.task
           /\ Suspended(row).task = IF row.task = "pending" THEN "cancelled" ELSE row.task
<1>1. \A task : [row EXCEPT !.task = task].task = task
  BY DEF RowFields
<1> QED  BY <1>1 DEF Synchronized, Suspended

\* An occurrence does not become awaited by a change of tasks or by time.
LEMMA AwaitedLess ==
    ASSUME RuleIInv, Threads, SameRows, exceptions' = exceptions, rule' = rule,
           clock' = clock \/ (clock' \in Times /\ clock' >= clock)
    PROVE  \A t \in Times : AwaitedAt(t)' => AwaitedAt(t)
<1>1. /\ \A t : Materialized(t)' <=> Materialized(t)
      /\ \A t : ExceptionAt(t)' = ExceptionAt(t)
  BY SameRowsKeep, SameRowsPlaces DEF RuleIInv
<1>2. ASSUME NEW t \in Times, Ahead(t)' PROVE Ahead(t)
  <2>1. clock \in Nat /\ t \in Nat /\ (clock' = clock \/ (clock' \in Nat /\ clock' >= clock))
    BY DEF Threads
  <2>2. t > clock'
    BY <1>2 DEF Ahead
  <2> QED  BY <2>1, <2>2 DEF Ahead
<1> QED  BY <1>1, <1>2 DEF AwaitedAt

\* As long as nothing becomes awaited a generation has passed over nothing.
LEMMA ScanningStays ==
    ASSUME RuleIInv, Threads, gen' = gen, rule' = rule,
           \A t \in Times : AwaitedAt(t)' => AwaitedAt(t)
    PROVE  (Scanning => Scanning') /\ (NoneAwaited => NoneAwaited')
BY DEF Scanning, NoneAwaited, Reached

\* The constants are times and there is no rule yet.
LEMMA InitChainInv == ASSUME RuleInit PROVE ChainInv
<1>1. Threads
  BY RulesAssumption, RecordFields DEF RuleInit, Threads
<1>2. rule.status # "active"
  BY RecordFields DEF RuleInit
<1> QED  BY <1>1, <1>2 DEF ChainInv

\* The first instance has a reminder, or lies in the past.
LEMMA CreateRuleChain == ASSUME RuleIInv, ChainInv, CreateRule PROVE ChainInv'
<1>0. PICK first :
        /\ rows' = <<Synchronized(Instance(first, first, FALSE))>>
        /\ ended' = ~Ahead(first)
  BY DEF CreateRule
<1>1. /\ gen = GenIdle /\ mcp = McpIdle /\ UNCHANGED <<clock, gen, retry, mcp>>
  BY DEF CreateRule, RuleIInv, Blank
<1> DEFINE made == Instance(first, first, FALSE)
           row  == Synchronized(made)
<1>2. DOMAIN made = RowFields /\ made.status = "active" /\ made.start = first
  BY DEF Instance, RowFields
<1>3. Ahead(first) => row.status = "active" /\ row.task = "pending"
  <2> HIDE DEF made
  <2> QED  BY <1>2, ReminderTasks, TaskOnly
<1>4. DOMAIN rows' = {1} /\ rows'[1] = row
  <2>1. rows' = <<row>>
    BY <1>0
  <2> HIDE DEF row
  <2> QED  BY ONLY <2>1, Single
<1> HIDE DEF row
<1>5. ~ended' => Chain'
  BY <1>0, <1>3, <1>4 DEF Chain, HasReminder
<1>6. Threads'
  BY <1>1, RecordFields DEF ChainInv, Threads
<1> QED  BY <1>5, <1>6 DEF ChainInv

\* What update_rule suspends it remembers: a reminder ahead comes back with
\* SynchronizeRule, one that is due and a retry are lost unless the rule is
\* rebuilt.
LEMMA UpdateSuspendChain == ASSUME RuleIInv, ChainInv, UpdateSuspend PROVE ChainInv'
<1>1. PICK hour \in Hours :
        mcp' = [McpIdle EXCEPT !.pc = "load", !.op = "update", !.at = hour,
                  !.lost = retry # 0 \/ \E i \in DOMAIN rows : Due(i)]
  BY DEF UpdateSuspend
<1> DEFINE lost == retry # 0 \/ \E i \in DOMAIN rows : Due(i)
<1>2. mcp'.pc = "load" /\ mcp'.op = "update" /\ (lost => mcp'.lost)
  <2>1. lost \in BOOLEAN
    OBVIOUS
  <2> HIDE DEF lost
  <2>2. mcp' = [McpIdle EXCEPT !.pc = "load", !.op = "update", !.at = hour, !.lost = lost]
    BY <1>1 DEF lost
  <2> QED  BY <2>1, <2>2 DEF McpIdle
<1>3. /\ mcp = McpIdle /\ retry' = 0
      /\ rows' = [i \in DOMAIN rows |-> Suspended(rows[i])]
      /\ UNCHANGED <<clock, rule, exceptions, gen, ended>>
  BY DEF UpdateSuspend, history
<1>4. SameRows
  BY <1>3, TaskOnly DEF SameRows, RuleIInv, WellFormed
<1>5. \A i \in DOMAIN rows :
        /\ rows'[i].status = rows[i].status /\ rows'[i].start = rows[i].start
        /\ rows'[i].task = IF rows[i].task = "pending" THEN "cancelled" ELSE rows[i].task
  BY <1>3, TaskOnly, ReminderTasks DEF RuleIInv, WellFormed, Alike
<1>6. DOMAIN rows' = DOMAIN rows
  BY <1>3
<1>7. Threads'
  BY <1>2, <1>3, <1>5, <1>6 DEF ChainInv, Threads
<1>8. ASSUME rule.status = "active", ~ended PROVE Chain'
  <2>1. Chain
    BY <1>8 DEF ChainInv
  <2>2. lost => Rebuilding'
    BY <1>2 DEF Rebuilding
  <2>3. \A i \in DOMAIN rows : HasReminder(i) => lost \/ Returning'
    BY <1>2, <1>3, <1>5, <1>6 DEF HasReminder, Due, Returning, Ahead
  <2>4. (Scanning => Scanning') /\ (NoneAwaited => NoneAwaited')
    BY <1>3, <1>4, AwaitedLess, ScanningStays DEF ChainInv
  <2>5. CASE Syncing
    <3>1. gen.row \in DOMAIN rows
      BY <2>5 DEF ChainInv, Threads, Syncing
    <3>2. CASE rows[gen.row].task = "none"
      BY <1>3, <1>5, <2>5, <3>1, <3>2 DEF Syncing, Chain
    <3>3. CASE rows[gen.row].task = "pending"
      BY <2>2, <2>3, <2>5, <3>1, <3>3 DEF Syncing, HasReminder, Chain
    <3> QED  BY <2>5, <3>2, <3>3 DEF Syncing
  <2>6. ~Returning /\ ~Rebuilding
    BY <1>3, RecordFields DEF Returning, Rebuilding
  <2> QED  BY <1>3, <2>1, <2>2, <2>3, <2>4, <2>5, <2>6 DEF Chain
<1> QED  BY <1>3, <1>7, <1>8 DEF ChainInv

\* A planned update is about to make an instance.
LEMMA UpdateLoadChain == ASSUME RuleIInv, ChainInv, UpdateLoad PROVE ChainInv'
<1>1. /\ mcp.pc = "load"
      /\ \E first, saved :
           mcp' = [mcp EXCEPT !.pc = "write", !.first = first, !.rule = saved]
      /\ UNCHANGED <<clock, rows, gen, retry>>
  BY DEF UpdateLoad, tables
<1>2. mcp'.pc = "write" /\ mcp'.op = mcp.op
  BY <1>1 DEF RuleIInv, WellFormed, McpFields
<1>3. Threads'
  BY <1>1, <1>2 DEF ChainInv, Threads, Ahead
<1>4. Chain'
  BY <1>2 DEF Chain, Rebuilding
<1> QED  BY <1>3, <1>4 DEF ChainInv

\* An update that fails and had suspended what led the chain on ends it.
LEMMA UpdateFailsChain == ASSUME RuleIInv, ChainInv, UpdateFails PROVE ChainInv'
<1>1. /\ mcp.pc = "load" /\ mcp' = [mcp EXCEPT !.pc = "sync"]
      /\ ended' = (ended \/ mcp.lost)
      /\ UNCHANGED <<clock, rule, rows, exceptions, gen, retry>>
  BY DEF UpdateFails, tables
<1>2. mcp'.pc = "sync" /\ mcp'.op = mcp.op
  BY <1>1 DEF RuleIInv, WellFormed, McpFields
<1>3. Threads'
  BY <1>1, <1>2 DEF ChainInv, Threads, Ahead
<1>4. ASSUME rule.status = "active", ~ended' PROVE Chain'
  <2>1. Chain /\ ~Rebuilding
    BY <1>1, <1>4 DEF ChainInv, Rebuilding
  <2>2. (Scanning => Scanning') /\ (NoneAwaited => NoneAwaited')
    BY <1>1, NoChange, AwaitedLess, ScanningStays DEF RuleIInv, ChainInv
  <2>3. (Syncing => Syncing') /\ (Returning => Returning')
    BY <1>1, <1>2 DEF Syncing, Returning, Ahead
  <2> QED  BY <1>1, <2>1, <2>2, <2>3 DEF Chain, HasReminder
<1> QED  BY <1>1, <1>3, <1>4 DEF ChainInv

\* SynchronizeRule gives every active instance ahead its reminder back.
LEMMA UpdateSyncChain == ASSUME RuleIInv, ChainInv, UpdateSync PROVE ChainInv'
<1>1. /\ mcp.pc = "sync" /\ mcp.op = "update" /\ mcp' = McpIdle
      /\ rows' = [i \in DOMAIN rows |->
                    IF rows[i].status = "active" THEN Synchronized(rows[i]) ELSE rows[i]]
      /\ UNCHANGED <<clock, rule, exceptions, gen, retry, ended>>
  BY DEF UpdateSync, history
<1>2. mcp'.pc = "idle" /\ mcp'.op = "none"
  BY <1>1, RecordFields
<1>3. SameRows
  <2>1. \A i \in DOMAIN rows : Alike(rows[i], rows[i])
    BY DEF RuleIInv, WellFormed, Alike
  <2> QED  BY <1>1, <2>1, TaskOnly DEF SameRows, RuleIInv, WellFormed
<1>4. \A i \in DOMAIN rows : rows[i].status = "active" =>
        /\ rows'[i].status = "active"
        /\ Ahead(rows[i].start) => rows'[i].task = "pending"
        /\ ~Ahead(rows[i].start) => rows'[i].task = IF rows[i].task = "pending"
                                                      THEN "cancelled" ELSE rows[i].task
  BY <1>1, TaskOnly, ReminderTasks DEF RuleIInv, WellFormed
<1>5. DOMAIN rows' = DOMAIN rows
  BY <1>1
<1>6. Threads'
  BY <1>1, <1>2, <1>5 DEF ChainInv, Threads
<1>7. ASSUME rule.status = "active", ~ended PROVE Chain'
  <2>1. Chain
    BY <1>7 DEF ChainInv
  <2>2. ~Rebuilding
    BY <1>1 DEF Rebuilding
  <2>3. \A i \in DOMAIN rows : rows[i].task = "pending" => Ahead(rows[i].start)
    BY <1>1 DEF ChainInv, Threads
  <2>4. (\E i \in DOMAIN rows : HasReminder(i)) => \E i \in DOMAIN rows' : HasReminder(i)'
    BY <1>4, <1>5, <2>3 DEF HasReminder
  <2>5. Returning => \E i \in DOMAIN rows' : HasReminder(i)'
    BY <1>4, <1>5 DEF HasReminder, Returning
  <2>6. (Scanning => Scanning') /\ (NoneAwaited => NoneAwaited')
    BY <1>1, <1>3, AwaitedLess, ScanningStays DEF ChainInv
  <2>7. Syncing => Syncing'
    BY <1>1, <1>4, <2>3 DEF Syncing, ChainInv, Threads
  <2> QED  BY <1>1, <2>1, <2>2, <2>4, <2>5, <2>6, <2>7 DEF Chain
<1> QED  BY <1>1, <1>6, <1>7 DEF ChainInv

\* UpdateAndRebuild makes an instance, which SynchronizeRule will find.
LEMMA UpdateRewriteChain == ASSUME RuleIInv, ChainInv, UpdateRewrite PROVE ChainInv'
<1> DEFINE kept == [i \in DOMAIN rows |->
                      IF rows[i].start >= clock THEN [rows[i] EXCEPT !.status = "deleted"]
                      ELSE [rows[i] EXCEPT !.detached = @ \/ ~(rows[i].orig < clock)]]
           made == Instance(mcp.first, mcp.first, FALSE)
           n == Len(rows) + 1
<1>1. /\ mcp.pc = "write" /\ rows' = Append(kept, made)
      /\ mcp' = [mcp EXCEPT !.pc = "sync"] /\ ended' = ~Ahead(mcp.first)
      /\ UNCHANGED <<clock, gen, retry>>
  BY DEF UpdateRewrite, Rebuilt
<1>2. mcp'.pc = "sync" /\ mcp'.op = mcp.op /\ mcp.op = "update"
  BY <1>1 DEF RuleIInv, WellFormed, McpFields, ChainInv, Threads
<1>3. made.start = mcp.first /\ made.status = "active" /\ made.task = "none"
  BY DEF Instance
<1>4. \A i \in DOMAIN rows : kept[i].start = rows[i].start /\ kept[i].task = rows[i].task
  BY DEF RuleIInv, WellFormed, RowFields
<1>5. kept \in Seq({kept[i] : i \in DOMAIN kept}) /\ DOMAIN kept = DOMAIN rows
  BY Replaced DEF RuleIInv, WellFormed
<1> HIDE DEF made, kept
<1>6. /\ Len(kept) \in Nat /\ Len(rows) \in Nat
      /\ DOMAIN rows = 1 .. Len(rows) /\ DOMAIN kept = 1 .. Len(kept)
  BY <1>5, Appended DEF RuleIInv, WellFormed
<1>7. Len(kept) = Len(rows)
  BY <1>5, <1>6
<1>8. /\ DOMAIN rows' = 1 .. n /\ rows'[n] = made
      /\ \A i \in DOMAIN rows : rows'[i] = kept[i]
  <2>1. rows' = Append(kept, made)
    BY <1>1
  <2> QED  BY ONLY <2>1, <1>5, <1>7, Appended
<1>9. /\ n \in DOMAIN rows' /\ DOMAIN rows \subseteq DOMAIN rows'
      /\ \A i \in DOMAIN rows' : i \in DOMAIN rows \/ i = n
  BY <1>6, <1>8
<1> HIDE DEF n
<1>10. \A i \in DOMAIN rows' : rows'[i].task = "pending" => Ahead(rows'[i].start)
  BY <1>2, <1>3, <1>4, <1>8, <1>9 DEF ChainInv, Threads
<1>11. Threads'
  BY <1>1, <1>2, <1>9, <1>10 DEF ChainInv, Threads, Ahead
<1>12. ~ended' => Returning'
  BY <1>1, <1>2, <1>3, <1>8, <1>9 DEF Returning, Ahead
<1> QED  BY <1>11, <1>12 DEF ChainInv, Chain

\* A cancelled rule has no chain.
LEMMA CancelRuleChain == ASSUME RuleIInv, ChainInv, CancelRule PROVE ChainInv'
<1>1. /\ rule' = [rule EXCEPT !.status = "cancelled"]
      /\ mcp' = [McpIdle EXCEPT !.pc = "suspend", !.op = "cancel"]
      /\ DOMAIN rows' = DOMAIN rows
      /\ UNCHANGED <<clock, gen, retry>>
  BY DEF CancelRule
<1>2. rule'.status = "cancelled" /\ mcp'.pc = "suspend" /\ mcp'.op = "cancel"
  BY <1>1 DEF RuleIInv, WellFormed, McpIdle
<1>3. Threads'
  BY <1>1, <1>2 DEF ChainInv, Threads
<1> QED  BY <1>2, <1>3 DEF ChainInv

\* It has none while its reminders are suspended.
LEMMA CancelSuspendChain == ASSUME RuleIInv, ChainInv, CancelSuspend PROVE ChainInv'
<1>1. /\ mcp.pc = "suspend" /\ mcp' = McpIdle /\ retry' = 0
      /\ DOMAIN rows' = DOMAIN rows
      /\ UNCHANGED <<clock, rule, gen>>
  BY DEF CancelSuspend
<1>2. rule'.status = "cancelled" /\ mcp'.pc = "idle" /\ mcp'.op = "none"
  BY <1>1, RecordFields DEF RuleIInv, ToolInv
<1>3. Threads'
  BY <1>1, <1>2 DEF ChainInv, Threads
<1> QED  BY <1>2, <1>3 DEF ChainInv

\* skip_occurrence and update_occurrence read before they write.
LEMMA CheckChain == ASSUME RuleIInv, ChainInv, SkipCheck \/ ModifyCheck PROVE ChainInv'
<1>1. /\ mcp = McpIdle
      /\ \E op \in {"skip", "modify"} : \E time, exception :
           mcp' = [McpIdle EXCEPT !.pc = "upsert", !.op = op, !.at = time,
                     !.exception = exception]
      /\ UNCHANGED <<clock, rule, rows, exceptions, gen, retry, ended>>
  BY DEF SkipCheck, ModifyCheck, tables, history
<1>2. mcp'.pc = "upsert" /\ mcp'.op # "update"
  BY <1>1 DEF McpIdle
<1>3. Threads'
  BY <1>1, <1>2 DEF ChainInv, Threads
<1>4. ASSUME rule.status = "active", ~ended PROVE Chain'
  <2>1. Chain /\ ~Returning /\ ~Rebuilding
    BY <1>1, <1>4, RecordFields DEF ChainInv, Returning, Rebuilding
  <2>2. (Scanning => Scanning') /\ (NoneAwaited => NoneAwaited')
    BY <1>1, NoChange, AwaitedLess, ScanningStays DEF RuleIInv, ChainInv
  <2> QED  BY <1>1, <2>1, <2>2 DEF Chain, HasReminder, Syncing
<1> QED  BY <1>1, <1>3, <1>4 DEF ChainInv

\* A skip makes no occurrence awaited; an override that brings a skipped one
\* back does, and then something leads on or the chain has ended.
LEMMA UpsertExceptionChain == ASSUME RuleIInv, ChainInv, UpsertException PROVE ChainInv'
<1>1. /\ mcp.pc = "upsert" /\ mcp' = McpIdle
      /\ exceptions' = Upsert(mcp.at, mcp.exception)
      /\ UNCHANGED <<clock, rule, rows, gen, retry>>
      /\ ended' = (ended \/ (/\ Passed(ExceptionAt(mcp.at)) /\ ~Passed(mcp.exception)
                              /\ ~LeadsOn))
  BY DEF UpsertException
<1>2. mcp'.pc = "idle" /\ mcp'.op = "none"
  BY <1>1, RecordFields
<1>3. Threads'
  BY <1>1, <1>2 DEF ChainInv, Threads
<1>4. ASSUME rule.status = "active", ~ended' PROVE Chain'
  <2>1. Chain /\ ~Returning /\ ~Rebuilding
    BY <1>1, <1>4 DEF ChainInv, Threads, Returning, Rebuilding
  <2>2. CASE LeadsOn
    BY <1>1, <2>2 DEF LeadsOn, Chain, HasReminder
  <2>3. CASE ~LeadsOn
    <3>1. \A t : ~Passed(ExceptionAt(t))' => ~Passed(ExceptionAt(t))
      <4> SUFFICES ASSUME NEW t, ~Passed(ExceptionAt(t))' PROVE ~Passed(ExceptionAt(t))
        OBVIOUS
      <4>1. CASE t = mcp.at
        <5>1. ExceptionAt(t)' = mcp.exception
          BY <1>1, <4>1 DEF ExceptionAt, Upsert
        <5>2. ~Passed(mcp.exception)
          BY <5>1 DEF Passed
        <5> QED  BY <1>1, <1>4, <2>3, <4>1, <5>2
      <4>2. CASE t # mcp.at
        <5>1. ExceptionAt(t)' = ExceptionAt(t)
          BY <1>1, <4>2 DEF ExceptionAt, Upsert
        <5> QED  BY <5>1 DEF Passed
      <4> QED  BY <4>1, <4>2
    <3>2. \A t : Materialized(t)' <=> Materialized(t)
      BY <1>1 DEF Materialized
    <3>3. \A t \in Times : AwaitedAt(t)' => AwaitedAt(t)
      BY <1>1, <3>1, <3>2 DEF AwaitedAt, Ahead
    <3>4. (Scanning => Scanning') /\ (NoneAwaited => NoneAwaited')
      BY <1>1, <3>3, ScanningStays DEF ChainInv
    <3> QED  BY <1>1, <2>1, <3>4 DEF Chain, HasReminder, Syncing
  <2> QED  BY <2>2, <2>3
<1> QED  BY <1>1, <1>3, <1>4 DEF ChainInv

\* An instance that is moved takes its reminder along, or ends the chain; the
\* occurrence it stood at may be awaited again.
LEMMA MoveInstanceChain == ASSUME RuleIInv, ChainInv, MoveInstance PROVE ChainInv'
<1>1. PICK i \in DOMAIN rows, to \in Targets :
        /\ rows' = [rows EXCEPT ![i] =
                      Synchronized([@ EXCEPT !.start = to, !.moved = TRUE])]
        /\ ended' = (\/ ended
                     \/ Carries(i) /\ ~Ahead(to)
                     \/ Ahead(rows[i].start) /\ ~LeadsOn')
  BY DEF MoveInstance
<1>2. mcp = McpIdle /\ UNCHANGED <<clock, rule, exceptions, gen, retry, mcp>>
  BY DEF MoveInstance
<1> DEFINE moved == [rows[i] EXCEPT !.start = to, !.moved = TRUE]
           row == Synchronized(moved)
<1>3. /\ DOMAIN moved = RowFields /\ moved.start = to
      /\ moved.status = rows[i].status /\ moved.task = rows[i].task
  BY DEF RuleIInv, WellFormed, RowFields
<1> HIDE DEF moved
<1>4. /\ row.status = rows[i].status /\ row.start = to
      /\ row.status = "active" /\ Ahead(to) => row.task = "pending"
  BY <1>3, TaskOnly, ReminderTasks DEF Alike
<1> HIDE DEF row
<1>5. /\ DOMAIN rows' = DOMAIN rows /\ rows'[i] = row
      /\ \A k \in DOMAIN rows : k # i => rows'[k] = rows[k]
  BY <1>1 DEF row, moved
<1>6. mcp.op = "none" /\ mcp.pc = "idle"
  BY <1>2, RecordFields
<1>7. Threads'
  BY <1>2, <1>5, <1>6 DEF ChainInv, Threads
<1>8. ASSUME rule.status = "active", ~ended' PROVE Chain'
  <2>1. Chain /\ ~Returning /\ ~Rebuilding
    BY <1>1, <1>6, <1>8 DEF ChainInv, Returning, Rebuilding
  <2>2. Carries(i) => Ahead(to)
    BY <1>1, <1>8
  <2>3. CASE LeadsOn'
    BY <2>3 DEF LeadsOn, Chain, HasReminder
  <2>4. ASSUME NEW k \in DOMAIN rows, HasReminder(k) PROVE HasReminder(k)'
    BY <1>4, <1>5, <2>2, <2>4 DEF HasReminder, Carries
  <2>5. Syncing => Syncing'
    BY <1>2, <1>4, <1>5, <2>2 DEF Syncing, Carries, ChainInv, Threads
  <2>6. CASE ~LeadsOn'
    <3>1. ~Ahead(rows[i].start)
      BY <1>1, <1>8, <2>6
    <3>2. \A t : Ahead(t) /\ Materialized(t) => Materialized(t)'
      BY <1>5, <3>1 DEF Materialized
    <3>3. \A t : ExceptionAt(t)' = ExceptionAt(t)
      BY <1>2 DEF ExceptionAt
    <3>4. \A t \in Times : AwaitedAt(t)' => AwaitedAt(t)
      BY <1>2, <3>2, <3>3 DEF AwaitedAt, Ahead
    <3>5. (Scanning => Scanning') /\ (NoneAwaited => NoneAwaited')
      BY <1>2, <3>4, ScanningStays DEF ChainInv
    <3> QED  BY <1>2, <1>5, <2>1, <2>4, <2>5, <3>5 DEF Chain
  <2> QED  BY <2>3, <2>6
<1> QED  BY <1>2, <1>7, <1>8 DEF ChainInv

\* schedule.delete of the instance that leads the chain on ends it.
LEMMA DeleteInstanceChain == ASSUME RuleIInv, ChainInv, DeleteInstance PROVE ChainInv'
<1>1. PICK i \in DOMAIN rows :
        /\ Live(rows[i])
        /\ rows' = [rows EXCEPT ![i] = Suspended([@ EXCEPT !.status = "cancelled"])]
        /\ ended' = (ended \/ Carries(i))
  BY DEF DeleteInstance
<1>2. mcp = McpIdle /\ UNCHANGED <<clock, rule, exceptions, gen, retry, mcp>>
  BY DEF DeleteInstance
<1> DEFINE cancelled == [rows[i] EXCEPT !.status = "cancelled"]
<1>3. Alike(cancelled, rows[i])
  BY <1>1 DEF RuleIInv, WellFormed, Alike, RowFields, Live
<1> HIDE DEF cancelled
<1>4. Alike(Suspended(cancelled), rows[i])
  BY <1>3, TaskOnly DEF Alike
<1>5. SameRows
  <2>1. \A k \in DOMAIN rows : Alike(rows[k], rows[k])
    BY DEF RuleIInv, WellFormed, Alike
  <2> QED  BY <1>1, <1>4, <2>1 DEF SameRows, cancelled
<1>6. /\ DOMAIN rows' = DOMAIN rows
      /\ \A k \in DOMAIN rows : k # i => rows'[k] = rows[k]
  BY <1>1
<1>7. mcp.op = "none" /\ mcp.pc = "idle"
  BY <1>2, RecordFields
<1>8. Threads'
  BY <1>2, <1>6, <1>7 DEF ChainInv, Threads
<1>9. ASSUME rule.status = "active", ~ended' PROVE Chain'
  <2>1. Chain /\ ~Returning /\ ~Rebuilding /\ ~Carries(i)
    BY <1>1, <1>7, <1>9 DEF ChainInv, Returning, Rebuilding
  <2>2. (Scanning => Scanning') /\ (NoneAwaited => NoneAwaited')
    BY <1>2, <1>5, AwaitedLess, ScanningStays DEF ChainInv
  <2>3. (\E k \in DOMAIN rows : HasReminder(k)) => (\E k \in DOMAIN rows : HasReminder(k))'
    BY <1>6, <2>1 DEF HasReminder, Carries
  <2>4. Syncing => Syncing'
    BY <1>2, <1>6, <2>1 DEF Syncing, Carries, ChainInv, Threads
  <2> QED  BY <1>2, <2>1, <2>2, <2>3, <2>4 DEF Chain
<1> QED  BY <1>2, <1>8, <1>9 DEF ChainInv

\* A reminder that fires starts a generation.
LEMMA TaskFiresChain == ASSUME RuleIInv, ChainInv, NEW i \in DOMAIN rows, TaskFires(i) PROVE ChainInv'
<1>1. /\ rows' = [rows EXCEPT ![i].task = "triggered"]
      /\ gen' = [GenIdle EXCEPT !.pc = "rule"]
      /\ UNCHANGED <<clock, rule, retry, mcp>>
  BY DEF TaskFires
<1>2. gen'.pc = "rule" /\ gen'.failures = 0
  BY <1>1 DEF GenIdle
<1>3. /\ DOMAIN rows' = DOMAIN rows
      /\ \A k \in DOMAIN rows : rows'[k].task = "pending" =>
                                  rows[k].task = "pending" /\ rows'[k].start = rows[k].start
  BY <1>1 DEF RuleIInv, WellFormed, RowFields
<1>4. Threads'
  BY <1>1, <1>2, <1>3 DEF ChainInv, Threads, Ahead
<1> QED  BY <1>2, <1>4 DEF ChainInv, Chain

\* So does a retry.
LEMMA RetryFiresChain == ASSUME RuleIInv, ChainInv, RetryFires PROVE ChainInv'
<1>1. /\ gen' = [GenIdle EXCEPT !.pc = "rule", !.failures = retry] /\ retry' = 0
      /\ UNCHANGED <<clock, rule, rows, mcp>>
  BY DEF RetryFires, tables
<1>2. gen'.pc = "rule" /\ gen'.failures = retry
  BY <1>1 DEF GenIdle
<1>3. Threads'
  BY <1>1, <1>2 DEF ChainInv, Threads, Ahead
<1> QED  BY <1>2, <1>3 DEF ChainInv, Chain

\* A search that starts now has passed over nothing that is ahead.
LEMMA GenerateRuleChain == ASSUME RuleIInv, ChainInv, GenerateRule PROVE ChainInv'
<1>1. /\ gen.pc = "rule"
      /\ gen' = [gen EXCEPT !.pc = "scan", !.rule = rule, !.cursor = clock]
      /\ UNCHANGED <<clock, rule, rows, exceptions, retry, mcp>>
  BY DEF GenerateRule, tables
<1>2. /\ gen'.pc = "scan" /\ gen'.rule = rule /\ gen'.cursor = clock
      /\ gen'.failures = gen.failures
  BY <1>1, AtWork DEF GenFields
<1>3. Threads'
  BY <1>1, <1>2 DEF ChainInv, Threads, Ahead
<1>4. \A t \in Times : t < clock => ~Ahead(t)'
  <2>1. clock \in Nat /\ clock' = clock /\ \A t \in Times : t \in Nat
    BY <1>1 DEF ChainInv, Threads
  <2> QED  BY <2>1 DEF Ahead
<1>5. Scanning'
  BY <1>1, <1>2, <1>4 DEF Scanning, Reached, AwaitedAt
<1> QED  BY <1>3, <1>5 DEF ChainInv, Chain

\* A step of the search disturbs nothing else that leads on.
LEMMA RunnerKeeps ==
    ASSUME RuleIInv, ChainInv, rule.status = "active", ~ended,
           gen.pc \in {"scan", "lookup"},
           UNCHANGED <<clock, rule, rows, exceptions, mcp>>,
           Scanning => Scanning' \/ NoneAwaited'
    PROVE  Chain'
<1>1. Chain /\ gen # GenIdle
  BY RecordFields DEF ChainInv
<1>2. NoneAwaited => NoneAwaited'
  BY NoChange, AwaitedLess DEF RuleIInv, ChainInv, NoneAwaited
<1>3. /\ Returning => Returning'
      /\ Rebuilding => Rebuilding'
      /\ \A k \in DOMAIN rows : HasReminder(k) => HasReminder(k)'
  BY DEF Returning, Rebuilding, HasReminder, Ahead
<1> QED  BY <1>1, <1>2, <1>3 DEF Chain, Syncing

\* One turn of the search: when the planner misses nothing, neither does it.
LEMMA GenerateScanChain ==
    ASSUME RuleIInv, ChainInv, SearchMissesNothing, GenerateScan PROVE ChainInv'
<1> DEFINE next == NextOccurrence(gen.rule, gen.cursor)
           exception == ExceptionAt(next)
<1>1. /\ gen.pc = "scan"
      /\ UNCHANGED <<clock, rule, rows, exceptions, mcp, ended>>
  BY DEF GenerateScan, tables, history
<1>2. /\ gen.cursor \in Nat /\ clock \in Nat /\ \A t \in Times : t \in Nat
      /\ DOMAIN gen = GenFields
  BY <1>1, AtWork DEF ChainInv, Threads
<1>3. /\ next \in Int
      /\ \A t \in Times : t >= gen.cursor /\ NextOccurrence(gen.rule, t) = t
                          => next \in gen.cursor .. t
  BY <1>1, Zenon DEF SearchMissesNothing
<1>4. next # NoTime => ~(next < gen.cursor)
  BY PlannerIsAhead
<1> HIDE DEF next
<1>5. next # NoTime => next \in Nat
  BY <1>2, <1>3, <1>4
<1>6. ASSUME Scanning, NEW t \in Times, AwaitedAt(t)
      PROVE  next \in gen.cursor .. t /\ t \in Nat
  <2>1. gen.rule = rule /\ ~(t < gen.cursor)
    BY <1>1, <1>6 DEF Scanning, Reached
  <2>2. NextOccurrence(gen.rule, t) = t
    BY <1>6, <2>1 DEF AwaitedAt
  <2>3. t >= gen.cursor
    BY <1>2, <2>1
  <2> QED  BY <1>2, <1>3, <2>2, <2>3
<1>7. \A t \in Times : AwaitedAt(t)' => AwaitedAt(t)
  BY <1>1, NoChange, AwaitedLess DEF RuleIInv, ChainInv
<1>8. CASE next = NoTime /\ gen' = GenIdle /\ retry' = 0
  <2>1. Scanning => NoneAwaited'
    <3> SUFFICES ASSUME Scanning, NEW t \in Times, AwaitedAt(t) PROVE FALSE
      BY <1>7 DEF NoneAwaited
    <3> QED  BY <1>2, <1>6, <1>8 DEF NoTime
  <2>2. gen'.pc = "idle" /\ gen'.failures = 0
    BY <1>8, RecordFields
  <2>3. Threads'
    BY <1>1, <1>8, <2>2 DEF ChainInv, Threads, Ahead
  <2> QED  BY <1>1, <2>1, <2>3, RunnerKeeps DEF ChainInv
<1>9. CASE /\ next # NoTime /\ Passed(exception)
           /\ gen' = [gen EXCEPT !.cursor = next + 1] /\ retry' = retry
  <2>1. /\ gen'.pc = "scan" /\ gen'.rule = gen.rule /\ gen'.cursor = next + 1
        /\ gen'.failures = gen.failures
    BY <1>1, <1>2, <1>9 DEF GenFields
  <2>2. Threads'
    BY <1>1, <1>5, <1>9, <2>1 DEF ChainInv, Threads, Ahead
  <2>3. Scanning => Scanning'
    <3> SUFFICES ASSUME Scanning, NEW t \in Times, t < next + 1, AwaitedAt(t) PROVE FALSE
      BY <1>1, <1>7, <2>1 DEF Scanning, Reached
    <3>1. t = next
      BY <1>2, <1>3, <1>6
    <3> QED  BY <1>9, <3>1 DEF AwaitedAt
  <2> QED  BY <1>1, <2>2, <2>3, RunnerKeeps DEF ChainInv
<1>10. CASE /\ next # NoTime /\ retry' = retry
            /\ gen' = [gen EXCEPT !.next = next, !.exception = exception,
                         !.pc = IF exception = NoException THEN "lookup" ELSE "create"]
  <2> HIDE DEF exception
  <2>1. /\ gen'.pc \in {"lookup", "create"} /\ gen'.rule = gen.rule /\ gen'.next = next
        /\ gen'.failures = gen.failures
    BY <1>1, <1>2, <1>10 DEF GenFields
  <2>2. Threads'
    BY <1>1, <1>5, <1>10, <2>1 DEF ChainInv, Threads, Ahead
  <2>3. Scanning => Scanning'
    <3> SUFFICES ASSUME Scanning, NEW t \in Times, t < next, AwaitedAt(t) PROVE FALSE
      BY <1>1, <1>7, <2>1 DEF Scanning, Reached
    <3> QED  BY <1>2, <1>3, <1>6
  <2> QED  BY <1>1, <2>2, <2>3, RunnerKeeps DEF ChainInv
<1> QED  BY <1>8, <1>9, <1>10 DEF GenerateScan, next, exception

\* An occurrence at which an instance stands is not awaited.
LEMMA GenerateLookupChain == ASSUME RuleIInv, ChainInv, GenerateLookup PROVE ChainInv'
<1>1. /\ gen.pc = "lookup"
      /\ UNCHANGED <<clock, rule, rows, exceptions, retry, mcp, ended>>
  BY DEF GenerateLookup, tables, history
<1>2. gen.next \in Nat /\ (\A t \in Times : t \in Nat) /\ DOMAIN gen = GenFields
  BY <1>1, AtWork DEF ChainInv, Threads
<1>3. \A t \in Times : AwaitedAt(t)' => AwaitedAt(t)
  BY <1>1, NoChange, AwaitedLess DEF RuleIInv, ChainInv
<1>4. CASE /\ Materialized(gen.next)
           /\ gen' = [gen EXCEPT !.pc = "scan", !.cursor = gen.next + 1]
  <2>1. /\ gen'.pc = "scan" /\ gen'.rule = gen.rule /\ gen'.cursor = gen.next + 1
        /\ gen'.failures = gen.failures
    BY <1>2, <1>4 DEF GenFields
  <2>2. Threads'
    BY <1>1, <1>2, <2>1 DEF ChainInv, Threads, Ahead
  <2>3. Scanning => Scanning'
    <3> SUFFICES ASSUME Scanning, NEW t \in Times, t < gen.next + 1, AwaitedAt(t)
                 PROVE  FALSE
      BY <1>1, <1>3, <2>1 DEF Scanning, Reached
    <3>1. t = gen.next
      BY <1>1, <1>2 DEF Scanning, Reached
    <3> QED  BY <1>4, <3>1 DEF AwaitedAt
  <2> QED  BY <1>1, <2>2, <2>3, RunnerKeeps DEF ChainInv
<1>5. CASE gen' = [gen EXCEPT !.pc = "create"]
  <2>1. /\ gen'.pc = "create" /\ gen'.rule = gen.rule /\ gen'.next = gen.next
        /\ gen'.failures = gen.failures
    BY <1>2, <1>5 DEF GenFields
  <2>2. Threads'
    BY <1>1, <1>2, <2>1 DEF ChainInv, Threads, Ahead
  <2>3. Scanning => Scanning'
    BY <1>1, <1>3, <2>1 DEF Scanning, Reached
  <2> QED  BY <1>1, <2>2, <2>3, RunnerKeeps DEF ChainInv
<1> QED  BY <1>4, <1>5 DEF GenerateLookup

\* The new row waits for its reminder.
LEMMA GenerateCreateChain == ASSUME RuleIInv, ChainInv, GenerateCreate PROVE ChainInv'
<1> DEFINE id == Len(rows) + 1
<1>1. /\ gen.pc = "create" /\ gen' = [gen EXCEPT !.pc = "sync", !.row = id]
      /\ UNCHANGED <<clock, rule, retry, mcp>>
  BY DEF GenerateCreate
<1>2. PICK start : rows' = Append(rows, Instance(start, gen.next, TRUE))
  BY DEF GenerateCreate
<1> DEFINE made == Instance(start, gen.next, TRUE)
<1>3. made.status = "active" /\ made.task = "none"
  BY DEF Instance
<1> HIDE DEF made
<1>4. /\ Len(rows) \in Nat /\ DOMAIN rows = 1 .. Len(rows)
      /\ DOMAIN rows' = 1 .. id /\ rows'[id] = made
      /\ \A i \in DOMAIN rows : rows'[i] = rows[i]
  <2>1. rows' = Append(rows, made)
    BY <1>2 DEF made
  <2>2. rows \in Seq({rows[i] : i \in DOMAIN rows})
    BY DEF RuleIInv, WellFormed
  <2> QED  BY ONLY <2>1, <2>2, Appended
<1>5. id \in DOMAIN rows' /\ \A i \in DOMAIN rows' : i \in DOMAIN rows \/ i = id
  BY <1>4
<1> HIDE DEF id
<1>6. gen'.pc = "sync" /\ gen'.row = id /\ gen'.failures = gen.failures
  BY <1>1, AtWork DEF GenFields
<1>7. Threads'
  BY <1>1, <1>3, <1>4, <1>5, <1>6 DEF ChainInv, Threads, Ahead
<1>8. Syncing'
  BY <1>3, <1>4, <1>6 DEF Syncing
<1> QED  BY <1>7, <1>8 DEF ChainInv, Chain

\* The new row gets its reminder, or lies in the past.
LEMMA GenerateSyncChain == ASSUME RuleIInv, ChainInv, GenerateSync PROVE ChainInv'
<1>1. /\ gen.pc = "sync" /\ gen' = GenIdle /\ retry' = 0
      /\ rows' = IF Live(rows[gen.row]) THEN [rows EXCEPT ![gen.row] = Synchronized(@)]
                 ELSE rows
      /\ ended' = (ended \/ ~Ahead(rows[gen.row].start))
      /\ UNCHANGED <<clock, rule, exceptions, mcp>>
  BY DEF GenerateSync
<1>2. gen'.pc = "idle" /\ gen'.failures = 0
  BY <1>1, RecordFields
<1>3. gen.row \in DOMAIN rows
  BY <1>1 DEF ChainInv, Threads
<1>4. SameRows
  <2>1. \A k \in DOMAIN rows : Alike(rows[k], rows[k])
    BY DEF RuleIInv, WellFormed, Alike
  <2>2. \A k \in DOMAIN rows : Alike(Synchronized(rows[k]), rows[k])
    BY TaskOnly DEF RuleIInv, WellFormed
  <2>3. CASE rows' = rows
    BY <2>3, NoChange DEF RuleIInv
  <2>4. CASE rows' = [rows EXCEPT ![gen.row] = Synchronized(rows[gen.row])]
    BY <2>1, <2>2, <2>4 DEF SameRows
  <2> QED  BY <1>1, <2>3, <2>4
<1>5. /\ DOMAIN rows' = DOMAIN rows
      /\ \A k \in DOMAIN rows : k # gen.row => rows'[k] = rows[k]
      /\ rows'[gen.row] \in {rows[gen.row], Synchronized(rows[gen.row])}
      /\ rows[gen.row].status = "active" => rows'[gen.row] = Synchronized(rows[gen.row])
  BY <1>1, <1>3 DEF Live
<1>6. /\ rows'[gen.row].status = rows[gen.row].status
      /\ rows'[gen.row].start = rows[gen.row].start
      /\ rows'[gen.row].task = "pending" => \/ Ahead(rows[gen.row].start)
                                            \/ rows[gen.row].task = "pending"
  BY <1>3, <1>5, TaskOnly, ReminderTasks DEF RuleIInv, WellFormed, Alike
<1>7. rows[gen.row].status = "active" /\ Ahead(rows[gen.row].start)
        => rows'[gen.row].task = "pending"
  BY <1>3, <1>5, ReminderTasks DEF RuleIInv, WellFormed
<1>8. \A i \in DOMAIN rows : rows'[i].status = rows[i].status /\ rows'[i].start = rows[i].start
  BY <1>5, <1>6
<1>9. Threads'
  BY <1>1, <1>2, <1>5, <1>6 DEF ChainInv, Threads, Ahead
<1>10. ASSUME rule.status = "active", ~ended' PROVE Chain'
  <2>1. Chain /\ Ahead(rows[gen.row].start)
    BY <1>1, <1>10 DEF ChainInv
  <2>2. (\E k \in DOMAIN rows : HasReminder(k)) => (\E k \in DOMAIN rows : HasReminder(k))'
    BY <1>3, <1>5, <1>6, <1>7, <2>1 DEF HasReminder
  <2>3. Syncing => (\E k \in DOMAIN rows : HasReminder(k))'
    BY <1>3, <1>5, <1>6, <1>7, <2>1 DEF Syncing, HasReminder
  <2>4. /\ Returning => Returning'
        /\ Rebuilding => Rebuilding'
    BY <1>1, <1>5, <1>8 DEF Returning, Rebuilding, Ahead
  <2>5. NoneAwaited => NoneAwaited'
    BY <1>1, <1>4, AwaitedLess DEF ChainInv, NoneAwaited
  <2>6. gen # GenIdle /\ ~Scanning
    BY <1>1, RecordFields DEF Scanning
  <2> QED  BY <1>1, <2>1, <2>2, <2>3, <2>4, <2>5, <2>6 DEF Chain
<1> QED  BY <1>1, <1>9, <1>10 DEF ChainInv

\* A generation that fails leaves a retry, or gives up.
LEMMA GenerateFailsChain ==
    ASSUME RuleIInv, ChainInv, GenerateFails \/ GenerateGivesUp PROVE ChainInv'
<1>1. /\ gen' = GenIdle
      /\ (retry' = gen.failures + 1 \/ (retry' = 0 /\ ended'))
      /\ UNCHANGED <<clock, rule, rows, mcp>>
  BY DEF GenerateFails, GenerateGivesUp, tables
<1>2. gen'.pc = "idle" /\ gen'.failures = 0
  BY <1>1, RecordFields
<1>3. gen.failures + 1 \in Nat /\ gen.failures + 1 # 0
  BY DEF ChainInv, Threads
<1>4. Threads'
  BY <1>1, <1>2, <1>3 DEF ChainInv, Threads, Ahead
<1> QED  BY <1>1, <1>3, <1>4 DEF ChainInv, Chain

\* Time makes nothing awaited.
LEMMA ClockMovesChain == ASSUME RuleIInv, ChainInv, ClockMoves PROVE ChainInv'
<1>1. /\ gen = GenIdle /\ mcp = McpIdle
      /\ clock' \in Times /\ clock' > clock
      /\ UNCHANGED <<rule, rows, exceptions, gen, retry, mcp, ended>>
  BY DEF ClockMoves, tables, history
<1>2. mcp.op = "none" /\ mcp.pc = "idle" /\ gen.pc = "idle"
  BY <1>1, RecordFields
<1>3. Threads'
  BY <1>1, <1>2 DEF ChainInv, Threads
<1>4. ASSUME rule.status = "active", ~ended PROVE Chain'
  <2>1. Chain /\ ~Returning /\ ~Rebuilding
    BY <1>2, <1>4 DEF ChainInv, Returning, Rebuilding
  <2>a. clock \in Nat /\ clock' \in Nat
    BY <1>1 DEF ChainInv, Threads
  <2>2. clock' >= clock
    BY <1>1, <2>a
  <2>3. NoneAwaited => NoneAwaited'
    BY <1>1, <2>2, NoChange, AwaitedLess DEF RuleIInv, ChainInv, NoneAwaited
  <2> QED  BY <1>1, <1>2, <2>1, <2>3 DEF Chain, HasReminder, Scanning, Syncing
<1> QED  BY <1>1, <1>3, <1>4 DEF ChainInv

\* After a restart an active row ahead has a task again; what was in memory
\* alone is lost.
LEMMA RestartChain == ASSUME RuleIInv, ChainInv, Restart PROVE ChainInv'
<1>1. /\ gen' = GenIdle /\ retry' = 0 /\ mcp' = McpIdle
      /\ UNCHANGED <<rule, exceptions, raced>>
  BY DEF Restart
<1>2. PICK t \in Times :
        /\ t >= clock /\ clock' = t
        /\ rows' = [i \in DOMAIN rows |->
              CASE rows[i].task = "pending" /\ rows[i].status # "active"
                     -> Suspended(rows[i])
                [] rows[i].task = "none" /\ rows[i].status = "active"
                     /\ rows[i].start > t
                     -> [rows[i] EXCEPT !.task = "pending"]
                [] OTHER -> rows[i]]
        /\ ended' = (\/ ended
                      \/ gen.pc \in {"rule", "scan", "lookup", "create"}
                      \/ retry # 0
                      \/ mcp.op = "update"
                      \/ \E i \in DOMAIN rows : rows[i].task = "none"
                                              /\ ~(rows[i].start > t))
  BY DEF Restart
<1>3. /\ gen'.pc = "idle" /\ gen'.failures = 0 /\ mcp'.pc = "idle" /\ mcp'.op = "none"
  BY <1>1, RecordFields
<1>4. DOMAIN rows' = DOMAIN rows
  BY <1>2
<1>5. Threads'
  BY <1>1, <1>2, <1>3, <1>4 DEF ChainInv, Threads
<1>6. SameRows
  <2>1. \A k \in DOMAIN rows : /\ Alike(rows[k], rows[k])
                              /\ Alike(Suspended(rows[k]), rows[k])
                              /\ Alike([rows[k] EXCEPT !.task = "pending"], rows[k])
    <3>1. \A k \in DOMAIN rows : DOMAIN rows[k] = RowFields
      BY DEF RuleIInv, WellFormed
    <3>2. \A k \in DOMAIN rows : Alike(rows[k], rows[k])
      BY <3>1 DEF Alike
    <3> QED  BY <3>1, <3>2, TaskOnly
  <2> HIDE DEF Alike, Suspended
  <2>2. \A i \in DOMAIN rows : rows'[i] \in {rows[i], Suspended(rows[i]),
                                            [rows[i] EXCEPT !.task = "pending"]}
    BY <1>2
  <2>3. rows' = [i \in DOMAIN rows |-> rows'[i]]
    BY <1>2
  <2> QED  BY <2>1, <2>2, <2>3 DEF SameRows
<1>7. ASSUME rule.status = "active", ~ended' PROVE Chain'
  <2>1. /\ ~ended /\ gen.pc \notin {"rule", "scan", "lookup", "create"}
        /\ retry = 0 /\ mcp.op # "update"
        /\ \A i \in DOMAIN rows : rows[i].task = "none" => rows[i].start > t
    BY <1>2, <1>7
  <2>2. Chain /\ ~Scanning /\ ~Returning /\ ~Rebuilding
    BY <1>7, <2>1 DEF ChainInv, Threads, Scanning, Returning, Rebuilding
  <2>3. ASSUME NEW i \in DOMAIN rows, rows[i].status = "active",
               rows[i].task \in {"none", "pending"}
        PROVE  HasReminder(i)'
    <3>1. CASE rows[i].task = "pending"
      BY <1>2, <2>3, <3>1 DEF HasReminder
    <3>2. CASE rows[i].task = "none"
      <4>1. rows'[i] = [rows[i] EXCEPT !.task = "pending"]
        BY <1>2, <2>1, <2>3, <3>2
      <4>2. DOMAIN rows[i] = RowFields
        BY DEF RuleIInv, WellFormed
      <4> QED  BY <2>3, <4>1, <4>2, TaskOnly DEF HasReminder
    <3> QED  BY <2>3, <3>1, <3>2
  <2>4. NoneAwaited => NoneAwaited'
    BY <1>1, <1>2, <1>6, AwaitedLess DEF ChainInv, NoneAwaited
  <2>5. Syncing => (\E k \in DOMAIN rows : HasReminder(k))'
    BY <1>4, <2>3 DEF Syncing, ChainInv, Threads
  <2> QED  BY <1>4, <2>1, <2>2, <2>3, <2>4, <2>5 DEF Chain, HasReminder
<1> QED  BY <1>1, <1>5, <1>7 DEF ChainInv

\* Every step of every thread keeps the chain, when the planner misses nothing.
LEMMA NextChainInv ==
    ASSUME RuleIInv, ChainInv, SearchMissesNothing, [RuleNext]_ruleVars
    PROVE  ChainInv'
<1>1. CASE UNCHANGED ruleVars
  <2>1. UNCHANGED <<clock, rule, rows, exceptions, gen, retry, mcp, ended>>
    BY <1>1 DEF ruleVars, tables, history
  <2>2. Threads'
    BY <2>1 DEF ChainInv, Threads, Ahead
  <2>3. (Scanning => Scanning') /\ (NoneAwaited => NoneAwaited')
    BY <2>1, NoChange, AwaitedLess, ScanningStays DEF RuleIInv, ChainInv
  <2>4. Chain => Chain'
    BY <2>1, <2>3 DEF Chain, HasReminder, Syncing, Returning, Rebuilding, Ahead
  <2> QED  BY <2>1, <2>2, <2>4 DEF ChainInv
<1>2. CASE RuleNext
  BY <1>2, CreateRuleChain, UpdateSuspendChain, UpdateLoadChain, UpdateFailsChain,
     UpdateRewriteChain, UpdateSyncChain, CancelRuleChain, CancelSuspendChain,
     CheckChain, UpsertExceptionChain, MoveInstanceChain, DeleteInstanceChain,
     TaskFiresChain, RetryFiresChain, GenerateRuleChain, GenerateScanChain,
     GenerateLookupChain, GenerateCreateChain, GenerateSyncChain,
     GenerateFailsChain, ClockMovesChain, RestartChain DEF RuleNext
<1> QED  BY <1>1, <1>2

\* Provided that the planner's search misses no occurrence, skips, overrides,
\* updates that fail, retries and restarts do not break the chain of
\* instances: when nobody is at work and nothing leads on, an active rule that
\* has not met one of its known ends has no occurrence left.
THEOREM ChainLivesIfSearchIsComplete ==
    RuleSpec /\ []SearchMissesNothing => []ChainLives
<1>1. RuleInit => RuleIInv /\ ChainInv
  BY RuleInitIInv, InitChainInv
<1>2. RuleIInv /\ ChainInv /\ SearchMissesNothing /\ [RuleNext]_ruleVars
        => RuleIInv' /\ ChainInv'
  BY RuleNextIInv, NextChainInv
<1>3. RuleIInv /\ ChainInv => ChainLives
  <2> SUFFICES ASSUME ChainInv, rule.status = "active", gen = GenIdle, mcp = McpIdle,
                      ~ended, ~LeadsOn
               PROVE  NoneAwaited
    BY DEF ChainLives, NoneAwaited
  <2>1. Chain /\ gen.pc = "idle" /\ mcp.pc = "idle" /\ mcp.op = "none"
    BY RecordFields DEF ChainInv
  <2> QED  BY <2>1 DEF Chain, LeadsOn, HasReminder, Scanning, Syncing, Returning, Rebuilding
<1> QED  BY <1>1, <1>2, <1>3, PTL DEF RuleSpec
=============================================================================
