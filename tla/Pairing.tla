------------------------------ MODULE Pairing ------------------------------
(***************************************************************************)
(* Pairing a board with a WeChat identity: BindingUseCase and its          *)
(* PairingSessionController, the polling task and its lease, the code on   *)
(* the display; the pairing sessions, devices, bindings and inbound events *)
(* of the gateway.                                                         *)
(*                                                                         *)
(* The board asks for a code and polls its session; a user sends the code  *)
(* to the gateway, which binds.  Start and Poll hold the use case's mutex  *)
(* over their HTTP call; a transaction of the gateway is one step from its *)
(* first row lock on, what it reads before is a step of its own.  One      *)
(* clock serves both sides.  HTTP, WeChat and texts are external.          *)
(***************************************************************************)
EXTENDS Naturals, Sequences, FiniteSets

CONSTANTS
    Devices, Board,  \* the registered devices; the one modelled in full
    Codes, Identities,
    Events,          \* messages with a code, each may be delivered repeatedly
    Posts,           \* deliveries the gateway handles at a time
    Window,          \* ticks a code is valid; a tick is the polling interval
    MaxTime, MaxSessions, MaxAttempts, MaxFaults, MaxQueue

ASSUME BoundsAssumption ==
    /\ Board \in Devices /\ Window \in Nat \ {0} /\ MaxAttempts \in Nat \ {0}
    /\ "none" \notin Codes
    /\ {MaxTime, MaxSessions, MaxFaults, MaxQueue} \subseteq Nat

VARIABLES
    now,
    faults,      \* what went wrong so far: lost answers, crashes, revocations
    sessions,    \* im_pairing_sessions, in the order of creation
    devices,     \* im_devices: status
    bindings,    \* im_bindings, in the order of creation
    admin,       \* a row read by unbind or revoke, to be written back
    message,     \* what each event says: code and identity
    inbound,     \* im_inbound_events: status
    posts,       \* handlers of deliveries
    binding,     \* BindingUseCase with its controller
    mutex,       \* who holds the mutex of the use case
    mcp,         \* the MCP worker in im.binding.start
    lease,       \* BindingPollingLease: 0 or a generation
    tasks,       \* polling tasks
    rebind,      \* "idle", or "reset" between Bind and its reset event
    queue,       \* results and resets on their way to the event loop
    display      \* the binding code shown

vars == <<now, faults, sessions, devices, bindings, admin, message, inbound, posts,
          binding, mutex, mcp, lease, tasks, rebind, queue, display>>
gateway == <<sessions, devices, bindings, admin, message, inbound, posts>>
board == <<binding, mutex, mcp, lease, tasks, rebind, queue, display>>

Tasks == 1 .. 2
NoTask == [at |-> "none", owner |-> 0, answer |-> "none", result |-> <<>>]
Idle == [at |-> "idle", attempts |-> 0, session |-> 0, refusal |-> "none", result |-> <<>>]
FreePost == [at |-> "idle", event |-> "none", candidate |-> 0]

Init ==
    /\ now = 0 /\ faults = 0
    /\ sessions = <<>> /\ bindings = <<>> /\ admin = <<>>
    /\ devices = [d \in Devices |-> "active"]
    /\ message \in [Events -> [code : Codes, identity : Identities]]
    /\ inbound = [e \in Events |-> "none"]
    /\ posts = [p \in Posts |-> FreePost]
    /\ binding = [generation |-> 0, state |-> "unavailable", active |-> FALSE,
                  bound |-> FALSE, session |-> 0, deadline |-> 0, nextPoll |-> 0,
                  finalTried |-> FALSE]
    /\ mutex = "none" /\ mcp = Idle /\ lease = 0
    /\ tasks = [t \in Tasks |-> NoTask]
    /\ rebind = "idle" /\ queue = <<>>
    /\ display = [active |-> FALSE, generation |-> 0, code |-> "none"]

\* A rare event of the environment; the runs allow MaxFaults of them.
Fault == faults < MaxFaults /\ faults' = faults + 1

-----------------------------------------------------------------------------
(* The gateway's tables.                                                    *)

PendingOf(d) ==
    {s \in DOMAIN sessions : sessions[s].device = d /\ sessions[s].status = "pending"}

Moved(ids, status) ==
    [s \in DOMAIN sessions |->
        IF s \in ids THEN [sessions[s] EXCEPT !.status = status] ELSE sessions[s]]

\* Create, one attempt: the older code of the device is cancelled even when the
\* new one collides with a pending code of another device.
CodeIsFree(d, code) ==
    \A s \in DOMAIN sessions :
        sessions[s].code = code /\ sessions[s].status = "pending" => sessions[s].device = d

WithSession(d, code) ==
    LET rest == Moved(PendingOf(d), "cancelled")
    IN  IF CodeIsFree(d, code)
        THEN Append(rest, [device |-> d, code |-> code, expires |-> now + Window,
                           status |-> "pending"])
        ELSE rest

\* Another device asks for a code.
OtherCreate == \E d \in Devices \ {Board}, code \in Codes :
    /\ devices[d] = "active" /\ Len(sessions) < MaxSessions
    /\ sessions' = WithSession(d, code)
    /\ UNCHANGED <<now, faults, devices, bindings, admin, message, inbound, posts, board>>

\* find and expireDue.
Due == {s \in DOMAIN sessions : sessions[s].status = "pending" /\ sessions[s].expires <= now}
ExpireDue ==
    /\ Due # {}
    /\ sessions' = Moved(Due, "expired")
    /\ UNCHANGED <<now, faults, devices, bindings, admin, message, inbound, posts, board>>

\* The operator revokes a device; its pending session goes, its bindings stay.
RevokeDevice == \E d \in Devices :
    /\ devices[d] = "active" /\ Fault
    /\ devices' = [devices EXCEPT ![d] = "revoked"]
    /\ sessions' = Moved(PendingOf(d), "cancelled")
    /\ UNCHANGED <<now, bindings, admin, message, inbound, posts, board>>

\* Unbind and revoke read the row, without a lock, and write it back whole.
ChangeStatusRead == \E b \in DOMAIN bindings, status \in {"unbound", "revoked"} :
    /\ admin = <<>> /\ bindings[b].status = "active" /\ Fault
    /\ admin' = <<b, status>>
    /\ UNCHANGED <<now, sessions, devices, bindings, message, inbound, posts, board>>

ChangeStatusSave ==
    /\ admin # <<>>
    /\ bindings' = [bindings EXCEPT ![admin[1]].status = admin[2]]
    /\ admin' = <<>>
    /\ UNCHANGED <<now, faults, sessions, devices, message, inbound, posts, board>>

-----------------------------------------------------------------------------
(* A delivery of an event: recordIfNew, markProcessing, confirm, the mark.  *)

At(p, at) == posts[p].at = at
Goes(p, at) ==
    posts' = [posts EXCEPT ![p] = IF at = "idle" THEN FreePost ELSE [@ EXCEPT !.at = at]]
AtGateway(p, from, to) == At(p, from) /\ Goes(p, to)
                             /\ UNCHANGED <<now, faults, devices, admin, message, board>>

\* WeChat delivers, again when it had no answer.
Deliver(p, e) ==
    /\ At(p, "idle")
    /\ posts' = [posts EXCEPT ![p] = [at |-> "record", event |-> e, candidate |-> 0]]
    /\ UNCHANGED <<now, faults, sessions, devices, bindings, admin, message, inbound, board>>

\* A duplicate is answered at once; only a failed event is taken up again.
RecordRead(p) ==
    LET known == inbound[posts[p].event] \notin {"none", "failed"} IN
    /\ AtGateway(p, "record", IF known THEN "idle" ELSE "save")
    /\ UNCHANGED <<sessions, bindings, inbound>>

Mark(p, from, status, to) ==
    /\ AtGateway(p, from, to)
    /\ inbound' = [inbound EXCEPT ![posts[p].event] = status]
    /\ UNCHANGED <<sessions, bindings>>

\* The unlocked look-up of the session by its code.
ConfirmRead(p) ==
    LET code == message[posts[p].event].code
        found == {s \in DOMAIN sessions :
                      sessions[s].code = code /\ sessions[s].status = "pending"}
    IN
    /\ At(p, "confirm")
    /\ posts' = [posts EXCEPT ![p].at = IF found = {} THEN "failed" ELSE "commit",
                              ![p].candidate = IF found = {} THEN 0
                                               ELSE CHOOSE s \in found :
                                                        \A r \in found : s <= r]
    /\ UNCHANGED <<now, faults, sessions, devices, bindings, admin, message, inbound, board>>

ActiveOf(d, i) ==
    {b \in DOMAIN bindings : /\ bindings[b].status = "active"
                             /\ bindings[b].device = d \/ bindings[b].identity = i}

\* replaceActiveBinding, under its advisory lock.
Replaced(d, i) ==
    IF \E b \in DOMAIN bindings : bindings[b] = [device |-> d, identity |-> i, status |-> "active"]
    THEN bindings
    ELSE Append([b \in DOMAIN bindings |->
                     IF b \in ActiveOf(d, i) THEN [bindings[b] EXCEPT !.status = "unbound"]
                     ELSE bindings[b]],
                [device |-> d, identity |-> i, status |-> "active"])

\* Mutant of StillConfirmable: the row read before the locks is believed.
StillConfirmableAsRead(s) == devices[sessions[s].device] = "active"

\* With the device and the session locked, both are looked at again.
StillConfirmable(s) ==
    /\ sessions[s].status = "pending" /\ now < sessions[s].expires
    /\ devices[sessions[s].device] = "active"

Confirm(p) ==
    LET s == posts[p].candidate
        ok == StillConfirmable(s)
    IN
    /\ AtGateway(p, "commit", IF ok THEN "done" ELSE "failed")
    /\ bindings' = IF ok THEN Replaced(sessions[s].device, message[posts[p].event].identity)
                   ELSE bindings
    /\ sessions' = IF ok THEN Moved({s}, "confirmed") ELSE sessions
    /\ UNCHANGED inbound

\* The gateway stops in the middle; what is recorded stays.
Crash(p) ==
    /\ ~At(p, "idle") /\ Fault
    /\ posts' = [posts EXCEPT ![p] = FreePost]
    /\ UNCHANGED <<now, sessions, devices, bindings, admin, message, inbound, board>>

PostEvent(p) ==
    \/ RecordRead(p)
    \/ Mark(p, "save", "received", "mark")
    \/ Mark(p, "mark", "processing", "confirm")
    \/ ConfirmRead(p) \/ Confirm(p)
    \/ Mark(p, "done", "processed", "idle")
    \/ Mark(p, "failed", "failed", "idle")

-----------------------------------------------------------------------------
(* The use case on the board.                                               *)

Result(state, code) == [kind |-> "result", state |-> state, code |-> code,
                        generation |-> binding.generation]
\* Finish; the controller's other fields are not read until the next Begin.
Ended(b, state) ==
    [b EXCEPT !.active = FALSE, !.state = state, !.session = 0, !.deadline = 0,
              !.nextPoll = 0, !.finalTried = FALSE]
BoardOnly == UNCHANGED <<now, gateway, rebind, display>>

\* Start: what is settled without the gateway.
StartLocal ==
    /\ mcp.at = "idle" /\ mutex = "none" /\ Len(queue) < MaxQueue
    /\ \/ /\ ~binding.bound
          /\ binding' = [binding EXCEPT !.state = "unavailable"]
          /\ mcp' = [Idle EXCEPT !.at = "post", !.result = Result("unavailable", "none")]
       \/ /\ binding.bound /\ binding.active
          /\ binding' = [binding EXCEPT !.state = "alreadyActive"]
          /\ mcp' = [Idle EXCEPT !.at = "post",
                         !.result = Result("alreadyActive", sessions[binding.session].code)]
    /\ UNCHANGED <<faults, mutex, lease, tasks, queue>> /\ BoardOnly

StartRequest ==
    /\ mcp.at = "idle" /\ mutex = "none" /\ binding.bound /\ ~binding.active
    /\ Len(sessions) < MaxSessions /\ Len(queue) < MaxQueue
    /\ mutex' = "mcp" /\ mcp' = [Idle EXCEPT !.at = "create"]
    /\ UNCHANGED <<faults, binding, lease, tasks, queue>> /\ BoardOnly

\* The gateway's create; the answer may be lost after the session is there.
StartCreate == \E code \in Codes :
    LET created == [Idle EXCEPT !.at = "answer", !.session = Len(sessions) + 1]
        refused == [Idle EXCEPT !.at = "answer", !.refusal = "failed"]
    IN
    /\ mcp.at = "create" /\ Len(sessions) < MaxSessions
    /\ IF devices[Board] = "revoked"
       THEN /\ mcp' = [refused EXCEPT !.refusal = "credentialRejected"]
            /\ UNCHANGED <<sessions, faults>>
       ELSE /\ sessions' = WithSession(Board, code)
            /\ IF CodeIsFree(Board, code)
               THEN \/ mcp' = created /\ UNCHANGED faults
                    \/ Fault /\ mcp' = refused
               ELSE /\ mcp' = IF mcp.attempts + 1 = MaxAttempts THEN refused
                              ELSE [mcp EXCEPT !.attempts = @ + 1]
                    /\ UNCHANGED faults
    /\ UNCHANGED <<now, devices, bindings, admin, message, inbound, posts,
                   binding, mutex, lease, tasks, rebind, queue, display>>

\* Begin with the answer: a window that has passed meanwhile is not entered.
StartAnswer ==
    LET s == mcp.session
        g == binding.generation + 1
        open == s # 0 /\ now < sessions[s].expires
        end == IF s = 0 THEN mcp.refusal ELSE "timedOut"
    IN
    /\ mcp.at = "answer"
    /\ mutex' = "none"
    /\ binding' = IF open
                   THEN [binding EXCEPT !.generation = g, !.state = "pending",
                             !.active = TRUE, !.session = s, !.finalTried = FALSE,
                             !.deadline = sessions[s].expires, !.nextPoll = now + 1]
                   ELSE Ended(binding, end)
    /\ mcp' = [Idle EXCEPT !.at = "post", !.result =
                   IF open THEN [kind |-> "result", state |-> "pending",
                                 code |-> sessions[s].code, generation |-> g]
                   ELSE Result(end, "none")]
    /\ UNCHANGED <<faults, lease, tasks, queue>> /\ BoardOnly

\* The tool's callback: the result is posted, then polling is started.
StartPost ==
    /\ mcp.at = "post"
    /\ queue' = Append(queue, mcp.result)
    /\ mcp' = IF mcp.result.state = "pending" THEN [mcp EXCEPT !.at = "acquire"] ELSE Idle
    /\ UNCHANGED <<faults, binding, mutex, lease, tasks>> /\ BoardOnly

\* Acquire takes the lease over from a task that is still there.
MustCreateTask(held, generation) == held = 0

StartAcquire ==
    LET g == mcp.result.generation IN
    /\ mcp.at = "acquire"
    /\ lease' = g
    /\ mcp' = IF MustCreateTask(lease, g) THEN [mcp EXCEPT !.at = "spawn"] ELSE Idle
    /\ UNCHANGED <<faults, binding, mutex, tasks, queue>> /\ BoardOnly

\* The task is created, or there is no memory for it: the lease is given back
\* and the session aborted.
StartSpawn ==
    /\ mcp.at = "spawn"
    /\ \/ \E t \in Tasks :
              /\ tasks[t] = NoTask /\ \A u \in 1 .. t - 1 : tasks[u] # NoTask
              /\ tasks' = [tasks EXCEPT ![t].at = "top"]
          /\ mcp' = Idle
          /\ UNCHANGED <<faults, lease>>
       \/ /\ Fault
          /\ lease' = IF lease = mcp.result.generation THEN 0 ELSE lease
          /\ mcp' = IF lease = mcp.result.generation THEN [mcp EXCEPT !.at = "abort"]
                    ELSE Idle
          /\ UNCHANGED tasks
    /\ UNCHANGED <<binding, mutex, queue>> /\ BoardOnly

StartAbort ==
    LET current == mcp.result.generation = binding.generation /\ binding.active IN
    /\ mcp.at = "abort" /\ mutex = "none"
    /\ binding' = IF current THEN Ended(binding, "failed") ELSE binding
    /\ mcp' = [mcp EXCEPT !.at = "post",
                   !.result = Result(IF current THEN "failed" ELSE binding.state, "none")]
    /\ UNCHANGED <<faults, mutex, lease, tasks, queue>> /\ BoardOnly

\* Bind: new client, new generation; then the reset, with the generation of then.
\* The runtime binds once; again only when the IM runtime is set up anew.
Rebind ==
    /\ mutex = "none"
    /\ \/ /\ rebind = "idle"
          /\ IF binding.bound THEN Fault ELSE UNCHANGED faults
          /\ binding' = [Ended(binding, "idle") EXCEPT !.bound = TRUE,
                             !.generation = @ + 1]
          /\ rebind' = "reset" /\ UNCHANGED queue
       \/ /\ rebind = "reset"
          /\ queue' = Append(queue, [kind |-> "reset", generation |-> binding.generation])
          /\ rebind' = "idle" /\ UNCHANGED <<binding, faults>>
    /\ UNCHANGED <<now, gateway, mutex, mcp, lease, tasks, display>>

-----------------------------------------------------------------------------
(* The polling task.                                                        *)

Waits == {"pending", "waiting", "retrying"}
Task(t, from) == tasks[t].at = from
TaskGoes(t, to) == tasks' = [tasks EXCEPT ![t].at = to]

PollTop(t) ==
    /\ Task(t, "top")
    /\ tasks' = [tasks EXCEPT ![t].at = "poll", ![t].owner = lease]
    /\ UNCHANGED <<faults, binding, mutex, mcp, lease, queue>> /\ BoardOnly

IsFinal == now >= binding.deadline
PollEnds(t, b, state) ==
    /\ binding' = b
    /\ tasks' = [tasks EXCEPT ![t].at = IF state \in Waits THEN "top" ELSE "post",
                              ![t].answer = "none",
                              ![t].result = IF state \in Waits THEN <<>>
                                            ELSE Result(state, "none")]
    /\ UNCHANGED <<faults, mcp, lease, queue>> /\ BoardOnly

\* Poll without a query: no session, or not yet time.  (The third way out, a second
\* poll after the last query, is never taken: every answer to that query ends it.)
PollLocal(t) ==
    /\ Task(t, "poll") /\ mutex = "none" /\ UNCHANGED mutex
    /\ \/ ~binding.active /\ PollEnds(t, binding, binding.state)
       \/ /\ binding.active /\ ~IsFinal /\ now < binding.nextPoll
          /\ PollEnds(t, [binding EXCEPT !.state = "waiting"], "waiting")

\* The query: the gateway expires what is due, reads, and answers, or not.
PollQuery(t) == \E lost \in BOOLEAN :
    /\ Task(t, "poll") /\ mutex = "none"
    /\ binding.active
    /\ IsFinal => ~binding.finalTried
    /\ IsFinal \/ now >= binding.nextPoll
    /\ mutex' = "task"
    /\ binding' = [binding EXCEPT !.finalTried = IsFinal,
                                  !.nextPoll = IF now < binding.deadline THEN now + 1 ELSE @]
    /\ sessions' = IF devices[Board] = "active" THEN Moved(Due, "expired") ELSE sessions
    /\ tasks' = [tasks EXCEPT ![t].at = "answer", ![t].answer =
                     IF lost THEN "lost"
                     ELSE IF devices[Board] = "revoked" THEN "credentialRejected"
                     ELSE sessions'[binding.session].status]
    /\ IF lost THEN Fault ELSE UNCHANGED faults
    /\ UNCHANGED <<now, devices, bindings, admin, message, inbound, posts,
                   mcp, lease, rebind, queue, display>>

PollAnswer(t) ==
    LET answer == tasks[t].answer IN
    /\ Task(t, "answer")
    /\ mutex' = "none"
    /\ CASE answer \in {"lost", "pending"} /\ binding.finalTried ->
                PollEnds(t, Ended(binding, "timedOut"), "timedOut")
         [] answer = "lost" /\ ~binding.finalTried ->
                PollEnds(t, [binding EXCEPT !.state = "retrying"], "retrying")
         [] answer = "pending" /\ ~binding.finalTried ->
                PollEnds(t, [binding EXCEPT !.state = "pending"], "pending")
         [] OTHER -> PollEnds(t, Ended(binding, answer), answer)

PollPost(t) ==
    /\ Task(t, "post")
    /\ queue' = Append(queue, tasks[t].result)
    /\ tasks' = [tasks EXCEPT ![t].at = "active", ![t].result = <<>>]
    /\ UNCHANGED <<faults, binding, mutex, mcp, lease>> /\ BoardOnly

PollActive(t) ==
    /\ Task(t, "active") /\ mutex = "none"
    /\ TaskGoes(t, IF binding.active THEN "top" ELSE "release")
    /\ UNCHANGED <<faults, binding, mutex, mcp, lease, queue>> /\ BoardOnly

\* Mutant of MayRelease: the lease is given up whoever holds it.
MayReleaseAny(held, owner) == TRUE

\* Release succeeds only for the generation the task still holds.
MayRelease(held, owner) == held = owner

PollRelease(t) ==
    /\ Task(t, "release")
    /\ IF MayRelease(lease, tasks[t].owner)
       THEN lease' = 0 /\ tasks' = [tasks EXCEPT ![t] = NoTask]
       ELSE TaskGoes(t, "top") /\ UNCHANGED lease
    /\ UNCHANGED <<faults, binding, mutex, mcp, queue>> /\ BoardOnly

-----------------------------------------------------------------------------
(* The event loop.                                                          *)

\* Mutant of IsCurrentBindingResult: any result is shown.
IsCurrentBindingResultAny(item) == TRUE

IsCurrentBindingResult(item) == item.generation = binding.generation

Silent == Waits \cup {"idle"}

\* ProcessBindingResult, and the reset: what is shown from now on.
Shown(item) ==
    IF item.kind = "reset"
    THEN [active |-> FALSE, generation |-> item.generation, code |-> "none"]
    ELSE IF item.state \in {"pending", "alreadyActive"} /\ item.code # "none"
    THEN [active |-> TRUE, generation |-> item.generation, code |-> item.code]
    ELSE IF item.state \in Silent \cup {"alreadyActive"} THEN display
    ELSE [active |-> FALSE, generation |-> item.generation, code |-> "none"]

ProcessBinding ==
    LET item == Head(queue) IN
    /\ queue # <<>> /\ mutex = "none"
    /\ display' = IF IsCurrentBindingResult(item) THEN Shown(item) ELSE display
    /\ queue' = Tail(queue)
    /\ UNCHANGED <<now, faults, gateway, binding, mutex, mcp, lease, tasks, rebind>>

\* Three seconds.
Tick ==
    /\ now < MaxTime
    /\ now' = now + 1
    /\ UNCHANGED <<faults, gateway, board>>

StartWork == StartCreate \/ StartAnswer \/ StartPost \/ StartAcquire \/ StartSpawn \/ StartAbort
Mcp == StartLocal \/ StartRequest \/ StartWork
Poll(t) == PollTop(t) \/ PollLocal(t) \/ PollQuery(t) \/ PollAnswer(t) \/ PollPost(t)
               \/ PollActive(t) \/ PollRelease(t)
Gateway ==
    \/ OtherCreate \/ ExpireDue \/ RevokeDevice \/ ChangeStatusRead \/ ChangeStatusSave
    \/ \E p \in Posts, e \in Events : Deliver(p, e)
    \/ \E p \in Posts : PostEvent(p) \/ Crash(p)

Next ==
    \/ Gateway \/ Mcp \/ Rebind \/ ProcessBinding \/ Tick
    \/ \E t \in Tasks : Poll(t)

Spec == Init /\ [][Next]_vars

-----------------------------------------------------------------------------
(* Properties.                                                              *)

\* A session the board has open is polled by exactly one task, whichever old
\* task was just ending when the session was started (BindingPollingLease,
\* BindingPollLoop, StartBindingPolling): never by two, and by none only while
\* im.binding.start is still on its way to create the task.
PolledByOne ==
    LET alive == {t \in Tasks : tasks[t] # NoTask} IN
    /\ Cardinality(alive) <= 1
    /\ binding.active => alive # {} \/ mcp.at \in {"post", "acquire", "spawn", "abort"}

\* The code of an older session does not stay on the display, nor come back: when
\* the display shows another generation than the use case has, the reset or the
\* result that replaces it is on its way (ProcessBindingResult, the reset of the
\* event loop, EnqueueBindingReset).
OldCodeIsTakenDown ==
    display.active =>
        \/ display.generation = binding.generation
        \/ rebind = "reset"
        \/ \E i \in DOMAIN queue : queue[i].generation = binding.generation
        \/ mcp.at = "post" /\ mcp.result.generation = binding.generation

\* A session is confirmed only while it is pending and its window open, for a
\* device that is not revoked, and only if no newer code was issued to that
\* device; the binding of device and identity is active with it, and is the only
\* active one of either (DefaultPairingApplication.confirm: the session found by
\* its code is looked at again under the locks).
ConfirmedIsCurrent ==
    [][\A s \in DOMAIN sessions :
          sessions'[s].status = "confirmed" /\ sessions[s].status # "confirmed" =>
              /\ sessions[s].status = "pending" /\ now < sessions[s].expires
              /\ devices[sessions[s].device] = "active"
              /\ \A r \in DOMAIN sessions :
                     r > s => sessions[r].device # sessions[s].device
              /\ \E b \in DOMAIN bindings' :
                     /\ bindings'[b].status = "active"
                     /\ bindings'[b].device = sessions[s].device
                     /\ \A c \in DOMAIN bindings' \ {b} :
                            /\ bindings'[c].status = "active"
                            => /\ bindings'[c].device # bindings'[b].device
                               /\ bindings'[c].identity # bindings'[b].identity
      ]_vars
=============================================================================
