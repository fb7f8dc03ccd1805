-------------------------- MODULE ReminderService --------------------------
(***************************************************************************)
(* ScheduleReminderService of voicelife_schedule for one schedule without  *)
(* a recurrence rule: reminder chains of at most MaximumAttempts tasks,    *)
(* persisted in SQLite, driven by the timing service.                      *)
(*                                                                         *)
(* Four threads call it.  The timing runner enters HandleReminder when a   *)
(* task is due.  The main thread runs Start after a boot, and handles      *)
(* overdue tasks itself.  The MCP worker edits or deletes the schedule and *)
(* then synchronises the reminders.  An action (acknowledge or snooze)     *)
(* runs under action_mutex_: on the MCP worker when it was spoken, on the  *)
(* IM action worker when it came from a notification's card.  No lock      *)
(* spans two repository calls: every read and every write of a whole row   *)
(* is a step of its own, and a write stores the copy its thread read.      *)
(* Power may fail between any two steps.                                   *)
(***************************************************************************)
EXTENDS Integers, Sequences, FiniteSets

CONSTANTS
    MaximumAttempts,  \* kMaximumAttempts
    FollowUpDelay,    \* kFollowUpDelay, in ticks
    MaxTime,          \* bound: last instant
    Starts,           \* start times the user chooses from
    MaxEdits,         \* bound: edits and deletions of the schedule
    MaxActions,       \* bound: acknowledge and snooze commands
    MaxCrashes,       \* bound: power failures
    MaxUnavailable    \* bound: commands the timing service refuses

ASSUME ReminderAssumption ==
    /\ MaximumAttempts \in Nat \ {0}
    /\ FollowUpDelay \in Nat
    /\ MaxTime \in Nat
    /\ Starts \subseteq Nat
    /\ MaxEdits \in Nat /\ MaxActions \in Nat /\ MaxCrashes \in Nat
    /\ MaxUnavailable \in Nat

Handlers == {"runner", "main"}

VARIABLES
    now,
    sched,       \* the schedule's row: status and start_time
    tasks,       \* the rows of schedule_reminder_task, in order of id
    armed,       \* tasks the timing service will fire
    cancelling,  \* cancel commands the timing service accepted, not applied
    chainSeq,    \* chain_sequence_
    boot,        \* Start: pc, tasks read, tasks to restore, no failure so far
    handler,     \* HandleReminder on each of its threads
    edit,        \* the MCP worker: update or delete, then synchronise
    action,      \* ExecuteReminderAction
    announced,   \* history: tasks spoken and notified, in order
    acked,       \* history: chains with a successful acknowledge
    torn,        \* history: tasks triggered when power failed, not spoken
    spent        \* how much of each bound is used

storage == <<sched, tasks>>
timing  == <<armed, cancelling>>
ghosts  == <<announced, acked, torn>>
vars == <<now, storage, timing, chainSeq, boot, handler, edit, action, ghosts,
          spent>>

Business == {"scheduled", "waiting", "acknowledged", "exhausted", "cancelled",
             "snoozed"}
Timer    == {"pending", "triggered", "cancelled", "failed"}
Task == [chain : Nat, attempt : 1 .. MaximumAttempts, at : Nat,
         business : Business, timer : Timer,
         action : {"none", "acknowledge", "snooze"}]
Schedule == [status : {"active", "completed", "cancelled"}, start : Nat]

NoTask == [chain |-> 0, attempt |-> 1, at |-> 0, business |-> "cancelled",
           timer |-> "cancelled", action |-> "none"]

NewTask(chain, attempt, at) ==
    [chain |-> chain, attempt |-> attempt, at |-> at, business |-> "scheduled",
     timer |-> "pending", action |-> "none"]

Down  == [pc |-> "down", snap |-> <<>>, todo |-> {}, ok |-> TRUE]
Idle  == [pc |-> "idle", id |-> 0, copy |-> NoTask, stale |-> FALSE]
NoEdit == [pc |-> "idle", op |-> "none", copy |-> [status |-> "active", start |-> 0],
           snap |-> <<>>, todo |-> {}, ok |-> TRUE]
NoAction == [pc |-> "idle", via |-> "none", id |-> 0, kind |-> "none", copy |-> NoTask,
             snap |-> <<>>, todo |-> {},
             row |-> [status |-> "active", start |-> 0]]

\* Every row and every local copy of a row has the type of its table, the
\* history only names rows that exist.
TypeOK ==
    /\ now \in 0 .. MaxTime
    /\ sched \in Schedule
    /\ tasks \in Seq(Task)
    /\ armed \subseteq DOMAIN tasks
    /\ cancelling \subseteq DOMAIN tasks
    /\ chainSeq \in Nat
    /\ boot.pc \in {"down", "restore", "insert", "register", "done", "up",
                    "failed"}
    /\ boot.todo \subseteq DOMAIN boot.snap
    /\ \A t \in Handlers :
         /\ handler[t].pc \in {"idle", "schedule", "update", "insert",
                               "register", "announce"}
         /\ handler[t].pc # "idle" => handler[t].id \in DOMAIN tasks
         /\ handler[t].copy \in Task \cup {NoTask}
    /\ edit.pc \in {"idle", "write", "load", "snapshot", "cancel", "insert",
                    "register"}
    /\ action.pc \in {"idle", "snapshot", "snooze", "cancel", "others", "load",
                      "complete", "store", "finish"}
    /\ announced \in Seq(DOMAIN tasks)

Init ==
    /\ now = 0
    /\ \E s \in Starts : sched = [status |-> "active", start |-> s]
    /\ tasks = <<>>
    /\ armed = {} /\ cancelling = {}
    /\ chainSeq = 0
    /\ boot = Down
    /\ handler = [t \in Handlers |-> Idle]
    /\ edit = NoEdit
    /\ action = NoAction
    /\ announced = <<>> /\ acked = {} /\ torn = {}
    /\ spent = [edits |-> 0, actions |-> 0, crashes |-> 0, unavailable |-> 0]

-----------------------------------------------------------------------------
(* Helpers.                                                                *)

Pending(task) == task.timer = "pending"
PendingIn(snap) == {i \in DOMAIN snap : Pending(snap[i])}
Smallest(S) == CHOOSE i \in S : \A j \in S : i <= j
Chains == {tasks[i].chain : i \in DOMAIN tasks}
NewId == Len(tasks) + 1
HasAttempt(chain, attempt) ==
    \E i \in DOMAIN tasks : tasks[i].chain = chain /\ tasks[i].attempt = attempt

Spend(bound, limit) ==
    /\ spent[bound] < limit
    /\ spent' = [spent EXCEPT ![bound] = @ + 1]

\* The timing service refuses a command: busy mutex, full queue (kUnavailable).
Refused == Spend("unavailable", MaxUnavailable)

-----------------------------------------------------------------------------
(* The timing service, as TimingRuntime promises it: commands are applied  *)
(* by the runner thread, so not while one of its callbacks runs.           *)

ApplyCancel(i) ==
    /\ i \in cancelling
    /\ handler["runner"].pc = "idle"
    /\ armed' = armed \ {i}
    /\ cancelling' = cancelling \ {i}
    /\ UNCHANGED <<now, storage, chainSeq, boot, handler, edit, action, ghosts,
                   spent>>

-----------------------------------------------------------------------------
(* HandleReminder, on the timing runner or on the main thread.             *)

\* The task is loaded; it must still be pending.  stale records whether its
\* chain was acknowledged already when the handler began.
Enter(t, i) ==
    handler' = IF Pending(tasks[i])
               THEN [handler EXCEPT ![t] =
                        [pc |-> "schedule", id |-> i, copy |-> tasks[i],
                         stale |-> tasks[i].chain \in acked]]
               ELSE handler

Fire(i) ==
    /\ handler["runner"].pc = "idle"
    /\ i \in armed
    /\ tasks[i].at <= now
    /\ armed' = armed \ {i}
    /\ Enter("runner", i)
    /\ UNCHANGED <<now, storage, cancelling, chainSeq, boot, edit, action,
                   ghosts, spent>>

\* Mutant of HandleLoadSchedule: the status of the schedule is not checked.
HandleWithoutSchedule(t) ==
    /\ handler[t].pc = "schedule"
    /\ handler' = [handler EXCEPT ![t].pc = "update"]
    /\ UNCHANGED <<now, storage, timing, chainSeq, boot, edit, action, ghosts,
                   spent>>

HandleLoadSchedule(t) ==
    /\ handler[t].pc = "schedule"
    /\ handler' = [handler EXCEPT ![t] = IF sched.status = "active"
                                         THEN [@ EXCEPT !.pc = "update"]
                                         ELSE Idle]
    /\ UNCHANGED <<now, storage, timing, chainSeq, boot, edit, action, ghosts,
                   spent>>

\* Mutant of Triggered: the timer status is not written.
TriggeredStillPending(task) ==
    [task EXCEPT !.business = IF task.attempt >= MaximumAttempts
                              THEN "exhausted" ELSE "waiting"]

Triggered(task) ==
    [task EXCEPT !.timer = "triggered",
                 !.business = IF task.attempt >= MaximumAttempts
                              THEN "exhausted" ELSE "waiting"]

HandleUpdate(t) ==
    /\ handler[t].pc = "update"
    /\ tasks' = [tasks EXCEPT ![handler[t].id] = Triggered(handler[t].copy)]
    /\ handler' = [handler EXCEPT ![t].pc =
                     IF handler[t].copy.attempt < MaximumAttempts
                     THEN "insert" ELSE "announce"]
    /\ UNCHANGED <<now, sched, timing, chainSeq, boot, edit, action, ghosts,
                   spent>>

\* UNIQUE (chain_id, attempt): a second follow-up would not be inserted.
HandleInsert(t) ==
    /\ handler[t].pc = "insert"
    /\ LET next == NewTask(handler[t].copy.chain, handler[t].copy.attempt + 1,
                           now + FollowUpDelay)
       IN IF HasAttempt(next.chain, next.attempt)
          THEN /\ handler' = [handler EXCEPT ![t].pc = "announce"]
               /\ UNCHANGED tasks
          ELSE /\ tasks' = Append(tasks, next)
               /\ handler' = [handler EXCEPT ![t].pc = "register",
                                             ![t].copy = next]
    /\ UNCHANGED <<now, sched, timing, chainSeq, boot, edit, action, ghosts,
                   spent>>

RowOf(task) ==
    CHOOSE j \in DOMAIN tasks : /\ tasks[j].chain = task.chain
                                /\ tasks[j].attempt = task.attempt

\* Inside a callback of the timing service the command cannot be refused.
HandleRegister(t) ==
    /\ handler[t].pc = "register"
    /\ handler' = [handler EXCEPT ![t].pc = "announce"]
    /\ LET follow == handler[t].copy
           j == RowOf(follow)
       IN
       \/ /\ armed' = armed \cup {j}
          /\ UNCHANGED <<tasks, spent>>
       \/ /\ t = "main"
          /\ Refused
          /\ tasks' = [tasks EXCEPT ![j] = [follow EXCEPT !.timer = "failed"]]
          /\ UNCHANGED armed
    /\ UNCHANGED <<now, sched, cancelling, chainSeq, boot, edit, action, ghosts>>

HandleAnnounce(t) ==
    /\ handler[t].pc = "announce"
    /\ announced' = Append(announced, handler[t].id)
    /\ handler' = [handler EXCEPT ![t] = Idle]
    /\ UNCHANGED <<now, storage, timing, chainSeq, boot, edit, action, acked,
                   torn, spent>>

-----------------------------------------------------------------------------
(* Start, on the main thread, after power came on.                         *)

BootBegin ==
    /\ boot.pc = "down"
    /\ boot' = [pc |-> "restore", snap |-> tasks, todo |-> PendingIn(tasks),
                ok |-> TRUE]
    /\ chainSeq' = IF tasks = <<>> THEN 0
                   ELSE CHOOSE c \in Chains : \A d \in Chains : d <= c
    /\ UNCHANGED <<now, storage, timing, handler, edit, action, ghosts, spent>>

BootRestore ==
    /\ boot.pc = "restore"
    /\ boot.todo # {}
    /\ handler["main"].pc = "idle"
    /\ LET i == Smallest(boot.todo)
           task == boot.snap[i]
       IN
       \/ /\ sched.status # "active"
          /\ tasks' = [tasks EXCEPT ![i] = [task EXCEPT !.timer = "cancelled",
                                                        !.business = "cancelled"]]
          /\ boot' = [boot EXCEPT !.todo = @ \ {i}]
          /\ UNCHANGED <<armed, handler, spent>>
       \/ /\ sched.status = "active"
          /\ task.at <= now
          /\ Enter("main", i)
          /\ boot' = [boot EXCEPT !.todo = @ \ {i}]
          /\ UNCHANGED <<tasks, armed, spent>>
       \/ /\ sched.status = "active"
          /\ task.at > now
          /\ armed' = armed \cup {i}
          /\ boot' = [boot EXCEPT !.todo = @ \ {i}]
          /\ UNCHANGED <<tasks, handler, spent>>
       \/ /\ sched.status = "active"
          /\ task.at > now
          /\ Refused
          /\ boot' = [boot EXCEPT !.todo = @ \ {i}, !.ok = FALSE]
          /\ UNCHANGED <<tasks, armed, handler>>
    /\ UNCHANGED <<now, sched, cancelling, chainSeq, edit, action, ghosts>>

\* Only a schedule without any task gets a new chain.
BootSchedule ==
    /\ boot.pc = "restore"
    /\ boot.todo = {}
    /\ handler["main"].pc = "idle"
    /\ boot' = [boot EXCEPT !.pc = IF /\ sched.status = "active"
                                      /\ sched.start > now
                                      /\ boot.snap = <<>>
                                   THEN "insert" ELSE "done"]
    /\ UNCHANGED <<now, storage, timing, chainSeq, handler, edit, action,
                   ghosts, spent>>

BootInsert ==
    /\ boot.pc = "insert"
    /\ chainSeq' = chainSeq + 1
    /\ tasks' = Append(tasks, NewTask(chainSeq + 1, 1, sched.start))
    /\ boot' = [boot EXCEPT !.pc = "register"]
    /\ UNCHANGED <<now, sched, timing, handler, edit, action, ghosts, spent>>

\* Mutant of BootRegister: the new task is stored only.
BootWithoutRegister ==
    /\ boot.pc = "register"
    /\ boot' = [boot EXCEPT !.pc = "done"]
    /\ UNCHANGED <<now, storage, timing, chainSeq, handler, edit, action,
                   ghosts, spent>>

BootRegister ==
    /\ boot.pc = "register"
    /\ LET i == Len(tasks) IN
       \/ /\ armed' = armed \cup {i}
          /\ boot' = [boot EXCEPT !.pc = "done"]
          /\ UNCHANGED <<tasks, spent>>
       \/ /\ Refused
          /\ tasks' = [tasks EXCEPT ![i].timer = "failed"]
          /\ boot' = [boot EXCEPT !.pc = "done", !.ok = FALSE]
          /\ UNCHANGED armed
    /\ UNCHANGED <<now, sched, cancelling, chainSeq, handler, edit, action,
                   ghosts>>

\* A failed Start ends the startup: the reminder runtime is stopped.
BootDone ==
    /\ boot.pc = "done"
    /\ \/ /\ boot.ok
          /\ boot' = [Down EXCEPT !.pc = "up"]
          /\ UNCHANGED timing
       \/ /\ ~boot.ok
          /\ handler["runner"].pc = "idle"
          /\ boot' = [Down EXCEPT !.pc = "failed"]
          /\ armed' = {} /\ cancelling' = {}
    /\ UNCHANGED <<now, storage, chainSeq, handler, edit, action, ghosts,
                   spent>>

-----------------------------------------------------------------------------
(* The MCP worker.  schedule.update writes the row it read with a new      *)
(* start time; schedule.delete only sets the status.                       *)

McpWorkerFree == boot.pc = "up" /\ edit.pc = "idle" /\ action.via # "voice"

UpdateBegin ==
    /\ McpWorkerFree
    /\ Spend("edits", MaxEdits)
    /\ edit' = [NoEdit EXCEPT !.pc = "write", !.op = "update", !.copy = sched]
    /\ UNCHANGED <<now, storage, timing, chainSeq, boot, handler, action,
                   ghosts>>

UpdateWrite(start) ==
    /\ edit.pc = "write"
    /\ sched' = [edit.copy EXCEPT !.start = start]
    /\ edit' = [edit EXCEPT !.pc = "load"]
    /\ UNCHANGED <<now, tasks, timing, chainSeq, boot, handler, action, ghosts,
                   spent>>

Delete ==
    /\ McpWorkerFree
    /\ sched.status # "cancelled"
    /\ Spend("edits", MaxEdits)
    /\ sched' = [sched EXCEPT !.status = "cancelled"]
    /\ edit' = [NoEdit EXCEPT !.pc = "load", !.op = "delete"]
    /\ UNCHANGED <<now, tasks, timing, chainSeq, boot, handler, action, ghosts>>

\* SynchronizeSchedule and CancelScheduleReminder load the schedule first.
SyncLoad ==
    /\ edit.pc = "load"
    /\ edit' = [edit EXCEPT !.pc = "snapshot", !.copy = sched]
    /\ UNCHANGED <<now, storage, timing, chainSeq, boot, handler, action,
                   ghosts, spent>>

SyncSnapshot ==
    /\ edit.pc = "snapshot"
    /\ edit' = [edit EXCEPT !.pc = "cancel", !.snap = tasks,
                            !.todo = PendingIn(tasks)]
    /\ UNCHANGED <<now, storage, timing, chainSeq, boot, handler, action,
                   ghosts, spent>>

CancelPendingTask ==
    /\ edit.pc = "cancel"
    /\ edit.todo # {}
    /\ LET i == Smallest(edit.todo) IN
       \/ /\ cancelling' = cancelling \cup {i}
          /\ tasks' = [tasks EXCEPT ![i] =
                         [edit.snap[i] EXCEPT !.timer = "cancelled",
                                              !.business = "cancelled"]]
          /\ edit' = [edit EXCEPT !.todo = @ \ {i}]
          /\ UNCHANGED spent
       \/ /\ Refused
          /\ edit' = [edit EXCEPT !.todo = @ \ {i}, !.ok = FALSE]
          /\ UNCHANGED <<tasks, cancelling>>
    /\ UNCHANGED <<now, sched, armed, chainSeq, boot, handler, action, ghosts>>

WantsReminder ==
    /\ edit.op = "update"
    /\ edit.copy.status = "active"
    /\ edit.copy.start > now

SyncDone ==
    /\ edit.pc = "cancel"
    /\ edit.todo = {}
    /\ edit' = IF edit.ok /\ WantsReminder
               THEN [edit EXCEPT !.pc = "insert"] ELSE NoEdit
    /\ UNCHANGED <<now, storage, timing, chainSeq, boot, handler, action, ghosts,
                   spent>>

SyncInsert ==
    /\ edit.pc = "insert"
    /\ chainSeq' = chainSeq + 1
    /\ tasks' = Append(tasks, NewTask(chainSeq + 1, 1, edit.copy.start))
    /\ edit' = [edit EXCEPT !.pc = "register", !.todo = {NewId}]
    /\ UNCHANGED <<now, sched, timing, boot, handler, action, ghosts, spent>>

SyncRegister ==
    /\ edit.pc = "register"
    /\ \/ /\ armed' = armed \cup edit.todo
          /\ UNCHANGED <<tasks, spent>>
       \/ /\ Refused
          /\ tasks' = [i \in DOMAIN tasks |->
                         IF i \in edit.todo
                         THEN [NewTask(chainSeq, 1, edit.copy.start)
                                 EXCEPT !.timer = "failed"]
                         ELSE tasks[i]]
          /\ UNCHANGED armed
    /\ edit' = NoEdit
    /\ UNCHANGED <<now, sched, cancelling, chainSeq, boot, handler, action,
                   ghosts>>

-----------------------------------------------------------------------------
(* ExecuteReminderAction.  A replay of a recorded action and a refusal     *)
(* change nothing.                                                         *)

WasAnnounced(i) == \E p \in DOMAIN announced : announced[p] = i

CanSend(i, via) ==
    \/ via = "voice" /\ edit.pc = "idle"
    \/ via = "im" /\ WasAnnounced(i)

\* Mutant of ActionBegin: a recorded action does not prevent a second one.
ActionBeginAgain(i, kind, via) ==
    /\ boot.pc = "up"
    /\ action.pc = "idle"
    /\ CanSend(i, via)
    /\ tasks[i].business \in {"waiting", "exhausted", "snoozed"}
    /\ Spend("actions", MaxActions)
    /\ action' = [NoAction EXCEPT !.pc = "snapshot", !.via = via, !.id = i,
                                  !.kind = kind, !.copy = tasks[i]]
    /\ UNCHANGED <<now, storage, timing, chainSeq, boot, handler, edit, ghosts>>

ActionBegin(i, kind, via) ==
    /\ boot.pc = "up"
    /\ action.pc = "idle"
    /\ CanSend(i, via)
    /\ tasks[i].action = "none"
    /\ tasks[i].business \in {"waiting", "exhausted"}
    /\ Spend("actions", MaxActions)
    /\ action' = [NoAction EXCEPT !.pc = "snapshot", !.via = via, !.id = i,
                                  !.kind = kind, !.copy = tasks[i]]
    /\ UNCHANGED <<now, storage, timing, chainSeq, boot, handler, edit, ghosts>>

SameChain(snap) == {i \in DOMAIN snap : snap[i].chain = action.copy.chain}

\* Mutant of HasFollowUp: any task counts.
HasFollowUpUnchecked(snap) == snap # <<>>

HasFollowUp(snap) ==
    \E i \in SameChain(snap) : /\ snap[i].attempt > action.copy.attempt
                               /\ snap[i].business = "scheduled"
                               /\ Pending(snap[i])

ActionSnapshot ==
    /\ action.pc = "snapshot"
    /\ action' =
         IF action.kind = "acknowledge"
         THEN [action EXCEPT !.pc = "cancel", !.snap = tasks,
                             !.todo = SameChain(tasks) \cap PendingIn(tasks)]
         ELSE IF HasFollowUp(tasks) THEN [action EXCEPT !.pc = "snooze"]
         ELSE NoAction
    /\ UNCHANGED <<now, storage, timing, chainSeq, boot, handler, edit, ghosts,
                   spent>>

SnoozeWrite ==
    /\ action.pc = "snooze"
    /\ tasks' = [tasks EXCEPT ![action.id] =
                   [action.copy EXCEPT !.business = "snoozed",
                                       !.action = "snooze"]]
    /\ action' = NoAction
    /\ UNCHANGED <<now, sched, timing, chainSeq, boot, handler, edit, ghosts,
                   spent>>

\* The cancel commands go out one by one; a refusal ends the action.
AcknowledgeCancel ==
    /\ action.pc = "cancel"
    /\ \/ /\ action.todo = {}
          /\ action' = [action EXCEPT !.pc = "others",
                          !.todo = SameChain(action.snap) \ {action.id}]
          /\ UNCHANGED <<cancelling, spent>>
       \/ /\ action.todo # {}
          /\ cancelling' = cancelling \cup {Smallest(action.todo)}
          /\ action' = [action EXCEPT !.todo = @ \ {Smallest(action.todo)}]
          /\ UNCHANGED spent
       \/ /\ action.todo # {}
          /\ Refused
          /\ action' = NoAction
          /\ UNCHANGED cancelling
    /\ UNCHANGED <<now, storage, armed, chainSeq, boot, handler, edit, ghosts>>

Closed(task) ==
    [task EXCEPT !.timer = IF Pending(task) THEN "cancelled" ELSE @,
                 !.business = IF @ \in {"scheduled", "waiting", "exhausted"}
                              THEN "acknowledged" ELSE @]

AcknowledgeOthers ==
    /\ action.pc = "others"
    /\ \/ /\ action.todo = {}
          /\ action' = [action EXCEPT !.pc = "load"]
          /\ UNCHANGED tasks
       \/ /\ action.todo # {}
          /\ LET i == Smallest(action.todo) IN
             /\ tasks' = [tasks EXCEPT ![i] = Closed(action.snap[i])]
             /\ action' = [action EXCEPT !.todo = @ \ {i}]
    /\ UNCHANGED <<now, sched, timing, chainSeq, boot, handler, edit, ghosts,
                   spent>>

AcknowledgeLoad ==
    /\ action.pc = "load"
    /\ action' = CASE sched.status = "active"    -> [action EXCEPT !.pc = "complete"]
                   [] sched.status = "completed" -> [action EXCEPT !.pc = "finish"]
                   [] sched.status = "cancelled" -> NoAction
    /\ UNCHANGED <<now, storage, timing, chainSeq, boot, handler, edit, ghosts,
                   spent>>

\* complete_schedule reads the row again and writes it back.
CompleteLoad ==
    /\ action.pc = "complete"
    /\ action' = IF sched.status = "active"
                 THEN [action EXCEPT !.pc = "store", !.row = sched]
                 ELSE NoAction
    /\ UNCHANGED <<now, storage, timing, chainSeq, boot, handler, edit, ghosts,
                   spent>>

CompleteStore ==
    /\ action.pc = "store"
    /\ sched' = [action.row EXCEPT !.status = "completed"]
    /\ action' = [action EXCEPT !.pc = "finish"]
    /\ UNCHANGED <<now, tasks, timing, chainSeq, boot, handler, edit, ghosts,
                   spent>>

AcknowledgeFinish ==
    /\ action.pc = "finish"
    /\ tasks' = [tasks EXCEPT ![action.id] =
                   [action.copy EXCEPT !.business = "acknowledged",
                                       !.action = "acknowledge"]]
    /\ acked' = acked \cup {action.copy.chain}
    /\ action' = NoAction
    /\ UNCHANGED <<now, sched, timing, chainSeq, boot, handler, edit, announced,
                   torn, spent>>

-----------------------------------------------------------------------------
(* Time and power.                                                         *)

Tick ==
    /\ now < MaxTime
    /\ now' = now + 1
    /\ UNCHANGED <<storage, timing, chainSeq, boot, handler, edit, action,
                   ghosts, spent>>

Crash ==
    /\ boot.pc # "down"
    /\ Spend("crashes", MaxCrashes)
    /\ armed' = {} /\ cancelling' = {}
    /\ boot' = Down
    /\ handler' = [t \in Handlers |-> Idle]
    /\ edit' = NoEdit
    /\ action' = NoAction
    /\ torn' = torn \cup {handler[t].id :
                            t \in {u \in Handlers :
                                     handler[u].pc \in {"insert", "register",
                                                       "announce"}}}
    /\ UNCHANGED <<now, storage, chainSeq, announced, acked>>

-----------------------------------------------------------------------------
Handle(t) ==
    \/ HandleLoadSchedule(t) \/ HandleUpdate(t) \/ HandleInsert(t)
    \/ HandleRegister(t) \/ HandleAnnounce(t)

TimingStep == \E i \in DOMAIN tasks : ApplyCancel(i) \/ Fire(i)

BootStep ==
    \/ BootBegin \/ BootRestore \/ BootSchedule \/ BootInsert \/ BootRegister
    \/ BootDone

EditStep ==
    \/ \E s \in Starts : UpdateWrite(s)
    \/ SyncLoad \/ SyncSnapshot \/ CancelPendingTask \/ SyncDone \/ SyncInsert
    \/ SyncRegister

ActionStep ==
    \/ ActionSnapshot \/ SnoozeWrite \/ AcknowledgeCancel \/ AcknowledgeOthers
    \/ AcknowledgeLoad \/ CompleteLoad \/ CompleteStore \/ AcknowledgeFinish

Next ==
    \/ TimingStep
    \/ \E t \in Handlers : Handle(t)
    \/ BootStep
    \/ UpdateBegin \/ Delete \/ EditStep
    \/ \E i \in DOMAIN tasks, k \in {"acknowledge", "snooze"},
          via \in {"voice", "im"} : ActionBegin(i, k, via)
    \/ ActionStep
    \/ Tick
    \/ Crash

\* Every thread that has begun an operation goes on with it, the timing
\* service fires what is due (TimingRuntime!PendingTaskFires), time passes.
Fairness ==
    /\ WF_vars(TimingStep)
    /\ \A t \in Handlers : WF_vars(Handle(t))
    /\ WF_vars(BootStep)
    /\ WF_vars(EditStep)
    /\ WF_vars(ActionStep)
    /\ WF_vars(Tick)

Spec == Init /\ [][Next]_vars
FairSpec == Spec /\ Fairness
-----------------------------------------------------------------------------
(* Properties.                                                             *)

Announcing(t) == handler[t].pc = "announce"

\* After a successful acknowledge no handler that begins later announces a
\* task of that chain: the follow-ups are cancelled and the schedule is
\* completed.  This is so for a schedule that is not edited meanwhile;
\* update_schedule may write its older copy over the completion.
AcknowledgeSilencesChain ==
    \A t \in Handlers : Announcing(t) => ~handler[t].stale

\* No attempt of a chain is announced twice, power failures included: the row
\* is Triggered before the speech (HandleReminder).
AnnouncedOnce ==
    \A p, q \in DOMAIN announced : p # q =>
        \/ tasks[announced[p]].chain # tasks[announced[q]].chain
        \/ tasks[announced[p]].attempt # tasks[announced[q]].attempt

AllIdle ==
    /\ boot.pc = "up"
    /\ \A t \in Handlers : handler[t].pc = "idle"
    /\ edit.pc = "idle"
    /\ action.pc = "idle"

\* No reminder is lost: when all threads are idle, every task of an active
\* schedule that was triggered was announced, every pending one is armed, and
\* a start time still to come has an armed task (Start, HandleReminder,
\* SynchronizeSchedule).  A power failure costs at most the announcement whose
\* handler it cut between the write of Triggered and the speech; Start does
\* not repeat that one.
NoReminderLost ==
    AllIdle /\ sched.status = "active" /\ spent.unavailable = 0 =>
        /\ \A i \in DOMAIN tasks :
             tasks[i].timer = "triggered" => WasAnnounced(i) \/ i \in torn
        /\ PendingIn(tasks) \subseteq armed
        /\ sched.start > now => \E i \in PendingIn(tasks) :
                                   tasks[i].at = sched.start

\* A recorded action is never lost: its replay keeps returning the recorded
\* result (ExecuteReminderAction).
ActionIsKept ==
    [][\A i \in DOMAIN tasks :
         tasks[i].action # "none" => tasks'[i].action = tasks[i].action]_vars

\* A snoozed reminder comes back: its follow-up is announced, unless an
\* acknowledge closed the follow-up, the schedule is no longer active or power
\* failed in the follow-up's own handler; power failures elsewhere included (ExecuteReminderAction,
\* HandleReminder, Start).  Stated for the one chain of a schedule that is
\* never edited: row i holds attempt i.
SnoozedComesBack ==
    \A i \in 1 .. MaximumAttempts :
        (i \in DOMAIN tasks /\ tasks[i].business = "snoozed"
           /\ now + FollowUpDelay <= MaxTime)
        ~> (\/ sched.status # "active"
            \/ i + 1 \in DOMAIN tasks /\ tasks[i + 1].business = "acknowledged"
            \/ WasAnnounced(i + 1) \/ i + 1 \in torn)
=============================================================================
