--------------------------- MODULE TimingRuntime ---------------------------
(***************************************************************************)
(* The one-shot timing service on the device: the task registry            *)
(* InMemoryTimingTaskRunner, the orchestration TimingTaskRuntime and their *)
(* FreeRTOS adapter EspTimingTaskRuntime.                                  *)
(*                                                                         *)
(* Four kinds of thread share this state.  Clients enqueue commands under  *)
(* a submission mutex.  The runner task sleeps on a task notification,     *)
(* moves the commands to the registry, runs the callbacks that are due and *)
(* re-arms the single one-shot timer.  The esp_timer task enters           *)
(* TimerEntry when that timer expires.  One thread destroys the service    *)
(* (Stop).  A submission that is refused (mutex busy, queue full, service  *)
(* closing) returns kUnavailable and changes nothing: it is a stuttering   *)
(* step.                                                                   *)
(***************************************************************************)
EXTENDS Integers, Sequences

CONSTANTS
    Ids,              \* task ids; their order is the order of the id strings
    QueueDepth,       \* kCommandQueueDepth
    MaxTime,          \* bound: last instant of the wall clock
    MaxSubmissions,   \* bound: commands accepted from clients
    MaxCallbackOps,   \* bound: commands issued from inside callbacks
    MaxClockSteps,    \* bound: times SNTP sets the wall clock
    MaxTimerFailures  \* bound: times esp_timer_start_once is out of memory

ASSUME IdsAssumption == Ids \subseteq Nat \ {0}
ASSUME BoundsAssumption ==
    /\ QueueDepth \in Nat \ {0}
    /\ MaxTime \in Nat
    /\ MaxSubmissions \in Nat
    /\ MaxCallbackOps \in Nat
    /\ MaxClockSteps \in Nat
    /\ MaxTimerFailures \in Nat

Times == 0 .. MaxTime
Off == -1             \* the timer is not armed
NoTask == 0           \* no callback is running

Commands == [op : {"register"}, id : Ids, at : Times]
            \cup [op : {"cancel"}, id : Ids, at : {0}]

VARIABLES
    now,         \* the wall clock
    queue,       \* command_queue_, from the clients to the runner task
    submitting,  \* a client holds submission_mutex_ between send and Notify
    notified,    \* the runner task's notification is pending
    rpc,         \* where the runner task is
    commands,    \* commands_ of the registry
    status,      \* used_task_ids_, pending_tasks_ and terminal_tasks_
    trigger,     \* trigger_at of every task that was registered
    boundary,    \* the clock value RunDueTasks was called with
    batch,       \* the rest of due_task_ids
    active,      \* the task whose callback runs
    armed,       \* ticks until the one-shot timer expires, or Off
    tpc,         \* where the esp_timer task is in TimerEntry
    accessing,   \* callback_accessing_owner_
    quiescing,   \* quiescing_
    barrier,     \* barrier_armed_
    quiesced,    \* the semaphore quiesced_
    bound,       \* callback_ is set
    accepting,   \* accepting_
    stopping,    \* stopping_
    stopped,     \* the semaphore stopped_
    spc,         \* where the destroying thread is in Stop
    accepted,    \* history: commands accepted from clients
    applied,     \* history: of those, the ones applied to the registry
    callbackOps, clockSteps, timerFailures   \* spent of the bounds

registry == <<commands, status, trigger, boundary, batch, active>>
timer    == <<armed, tpc, accessing, quiescing, barrier, quiesced, bound>>
life     == <<accepting, stopping, stopped, spc>>
history  == <<accepted, applied>>
spent    == <<callbackOps, clockSteps, timerFailures>>
vars == <<now, queue, submitting, notified, rpc, registry, timer, life,
          history, spent>>

RunnerPCs == {"take", "check", "drain", "loop", "clock", "commands", "batch",
              "callback", "arm", "stopdrain", "stopapply", "quiesce",
              "stoptimer", "barrier", "await", "access", "exit", "exited"}
TimerPCs  == {"idle", "dispatched", "accessing", "owner", "barrier", "give",
              "leave"}
StopPCs   == {"idle", "closed", "flagged", "waiting", "done"}

FlagsOK ==
    /\ submitting \in BOOLEAN /\ notified \in BOOLEAN
    /\ accessing \in BOOLEAN /\ quiescing \in BOOLEAN
    /\ barrier \in BOOLEAN /\ quiesced \in BOOLEAN /\ bound \in BOOLEAN
    /\ accepting \in BOOLEAN /\ stopping \in BOOLEAN /\ stopped \in BOOLEAN

StateOK ==
    /\ now \in Times
    /\ queue \in Seq(Commands)
    /\ Len(queue) <= QueueDepth
    /\ commands \in Seq(Commands)
    /\ rpc \in RunnerPCs
    /\ tpc \in TimerPCs
    /\ spc \in StopPCs
    /\ status \in [Ids -> {"unused", "pending", "executing", "cancelled",
                           "completed"}]
    /\ trigger \in [Ids -> Times]
    /\ boundary \in Times
    /\ batch \in SUBSET Ids
    /\ active \in Ids \cup {NoTask}
    /\ armed \in Nat \cup {Off}
    /\ accepted \in Nat /\ applied \in Nat
    /\ callbackOps \in Nat /\ clockSteps \in Nat /\ timerFailures \in Nat

\* Every variable has the type its declaration in the classes gives it, and
\* the command queue is never longer than its depth.
TypeOK == StateOK /\ FlagsOK

\* The state after EspTimingTaskRuntime::Create.
Init ==
    /\ now \in Times
    /\ queue = <<>> /\ submitting = FALSE /\ notified = FALSE
    /\ rpc = "take"
    /\ commands = <<>>
    /\ status = [i \in Ids |-> "unused"]
    /\ trigger = [i \in Ids |-> 0]
    /\ boundary = 0 /\ batch = {} /\ active = NoTask
    /\ armed = Off /\ tpc = "idle" /\ accessing = FALSE
    /\ quiescing = FALSE /\ barrier = FALSE /\ quiesced = FALSE
    /\ bound = TRUE
    /\ accepting = TRUE /\ stopping = FALSE /\ stopped = FALSE
    /\ spc = "idle"
    /\ accepted = 0 /\ applied = 0
    /\ callbackOps = 0 /\ clockSteps = 0 /\ timerFailures = 0

-----------------------------------------------------------------------------
(* Clients: RegisterTask and CancelTask outside a callback.                *)

\* Mutant of EnqueueSend: a full queue is not refused.
EnqueueSendUnbounded(cmd) ==
    /\ accepted < MaxSubmissions
    /\ ~submitting
    /\ accepting
    /\ queue' = Append(queue, cmd)
    /\ submitting' = TRUE
    /\ accepted' = accepted + 1
    /\ UNCHANGED <<now, notified, rpc, registry, timer, life, applied, spent>>

EnqueueSend(cmd) ==
    /\ accepted < MaxSubmissions
    /\ ~submitting
    /\ accepting
    /\ Len(queue) < QueueDepth
    /\ queue' = Append(queue, cmd)
    /\ submitting' = TRUE
    /\ accepted' = accepted + 1
    /\ UNCHANGED <<now, notified, rpc, registry, timer, life, applied, spent>>

EnqueueNotify ==
    /\ submitting
    /\ notified' = TRUE
    /\ submitting' = FALSE
    /\ UNCHANGED <<now, queue, rpc, registry, timer, life, history, spent>>

-----------------------------------------------------------------------------
(* The registry.  An id that was ever used is refused; only a pending task *)
(* can be cancelled.                                                       *)

\* Mutant of ApplyRegisterTask: the id of a finished task is accepted again.
RegisterFinishedIdAgain(cmd) ==
    IF status[cmd.id] # "pending"
    THEN /\ status' = [status EXCEPT ![cmd.id] = "pending"]
         /\ trigger' = [trigger EXCEPT ![cmd.id] = cmd.at]
    ELSE UNCHANGED <<status, trigger>>

ApplyRegisterTask(cmd) ==
    IF status[cmd.id] = "unused"
    THEN /\ status' = [status EXCEPT ![cmd.id] = "pending"]
         /\ trigger' = [trigger EXCEPT ![cmd.id] = cmd.at]
    ELSE UNCHANGED <<status, trigger>>

ApplyCancelTask(cmd) ==
    /\ status' = IF status[cmd.id] = "pending"
                 THEN [status EXCEPT ![cmd.id] = "cancelled"]
                 ELSE status
    /\ UNCHANGED trigger

Apply(cmd) ==
    \/ cmd.op = "register" /\ ApplyRegisterTask(cmd)
    \/ cmd.op = "cancel"   /\ ApplyCancelTask(cmd)

Pending == {i \in Ids : status[i] = "pending"}

\* pending_tasks_ is kept sorted by trigger_at, then by id.
Before(i, j) ==
    \/ trigger[i] < trigger[j]
    \/ trigger[i] = trigger[j] /\ i <= j

IsFirst(i, S) == i \in S /\ \A j \in S : Before(i, j)

-----------------------------------------------------------------------------
(* The runner task.                                                        *)

Take ==
    /\ rpc = "take"
    /\ notified
    /\ notified' = FALSE
    /\ rpc' = "check"
    /\ UNCHANGED <<now, queue, submitting, registry, timer, life, history, spent>>

Check ==
    /\ rpc = "check"
    /\ rpc' = IF stopping THEN "stopdrain" ELSE "drain"
    /\ UNCHANGED <<now, queue, submitting, notified, registry, timer, life,
                   history, spent>>

DrainCommand ==
    /\ rpc \in {"drain", "stopdrain"}
    /\ queue # <<>>
    /\ commands' = Append(commands, Head(queue))
    /\ queue' = Tail(queue)
    /\ UNCHANGED <<now, submitting, notified, rpc, status, trigger, boundary,
                   batch, active, timer, life, history, spent>>

DrainDone ==
    /\ rpc \in {"drain", "stopdrain"}
    /\ queue = <<>>
    /\ rpc' = IF rpc = "drain" THEN "loop" ELSE "stopapply"
    /\ UNCHANGED <<now, queue, submitting, notified, registry, timer, life,
                   history, spent>>

Loop ==
    /\ rpc = "loop"
    /\ rpc' = IF stopping THEN "take" ELSE "clock"
    /\ UNCHANGED <<now, queue, submitting, notified, registry, timer, life,
                   history, spent>>

ReadClock ==
    /\ rpc = "clock"
    /\ boundary' = now
    /\ rpc' = "commands"
    /\ UNCHANGED <<now, queue, submitting, notified, commands, status, trigger,
                   batch, active, timer, life, history, spent>>

ProcessPendingCommand ==
    /\ rpc \in {"commands", "stopapply"}
    /\ commands # <<>>
    /\ Apply(Head(commands))
    /\ commands' = Tail(commands)
    /\ applied' = applied + 1
    /\ UNCHANGED <<now, queue, submitting, notified, rpc, boundary, batch,
                   active, timer, life, accepted, spent>>

SnapshotDue ==
    /\ rpc = "commands"
    /\ commands = <<>>
    /\ batch' = {i \in Pending : trigger[i] <= boundary}
    /\ rpc' = "batch"
    /\ UNCHANGED <<now, queue, submitting, notified, commands, status, trigger,
                   boundary, active, timer, life, history, spent>>

BeginDue ==
    /\ rpc = "batch"
    /\ \E i \in batch :
       /\ IsFirst(i, batch)
       /\ batch' = batch \ {i}
       /\ \/ /\ status[i] = "pending"
             /\ status' = [status EXCEPT ![i] = "executing"]
             /\ active' = i
             /\ rpc' = "callback"
          \/ /\ status[i] # "pending"      \* an earlier callback cancelled it
             /\ UNCHANGED <<status, active, rpc>>
    /\ UNCHANGED <<now, queue, submitting, notified, commands, trigger,
                   boundary, timer, life, history, spent>>

\* A callback that registers or cancels is applied to the registry at once.
CallbackCommand(cmd) ==
    /\ rpc = "callback"
    /\ callbackOps < MaxCallbackOps
    /\ callbackOps' = callbackOps + 1
    /\ Apply(cmd)
    /\ UNCHANGED <<now, queue, submitting, notified, rpc, commands, boundary,
                   batch, active, timer, life, history,
                   clockSteps, timerFailures>>

CallbackDone ==
    /\ rpc = "callback"
    /\ status' = [status EXCEPT ![active] = "completed"]
    /\ active' = NoTask
    /\ rpc' = "batch"
    /\ UNCHANGED <<now, queue, submitting, notified, commands, trigger,
                   boundary, batch, timer, life, history, spent>>

BatchDone ==
    /\ rpc = "batch"
    /\ batch = {}
    /\ rpc' = "arm"
    /\ UNCHANGED <<now, queue, submitting, notified, registry, timer, life,
                   history, spent>>

\* Mutant of Disarm: tasks that became due during the batch are ignored.
DisarmWithDueTasksLeft ==
    /\ rpc = "arm"
    /\ {i \in Pending : trigger[i] > boundary} = {}
    /\ armed' = Off
    /\ rpc' = "take"
    /\ UNCHANGED <<now, queue, submitting, notified, registry, tpc, accessing,
                   quiescing, barrier, quiesced, bound, life, history, spent>>

Disarm ==
    /\ rpc = "arm"
    /\ Pending = {}
    /\ armed' = Off
    /\ rpc' = "take"
    /\ UNCHANGED <<now, queue, submitting, notified, registry, tpc, accessing,
                   quiescing, barrier, quiesced, bound, life, history, spent>>

Delay(t) == IF t > now THEN t - now ELSE 0

\* Mutant of ArmAfter: the clock is not read again after the callbacks.
ArmAfterFromBoundary ==
    /\ rpc = "arm"
    /\ \E i \in Pending :
         /\ IsFirst(i, Pending)
         /\ armed' = IF trigger[i] > boundary THEN trigger[i] - boundary ELSE 0
    /\ rpc' = "take"
    /\ UNCHANGED <<now, queue, submitting, notified, registry, tpc, accessing,
                   quiescing, barrier, quiesced, bound, life, history, spent>>

ArmAfter ==
    /\ rpc = "arm"
    /\ \E i \in Pending : /\ IsFirst(i, Pending)
                          /\ armed' = Delay(trigger[i])
    /\ rpc' = "take"
    /\ UNCHANGED <<now, queue, submitting, notified, registry, tpc, accessing,
                   quiescing, barrier, quiesced, bound, life, history, spent>>

\* Mutant of ArmUnavailable: no retry.
ArmUnavailableGivesUp ==
    /\ rpc = "arm"
    /\ Pending # {}
    /\ timerFailures < MaxTimerFailures
    /\ timerFailures' = timerFailures + 1
    /\ armed' = Off
    /\ rpc' = "take"
    /\ UNCHANGED <<now, queue, submitting, notified, registry, tpc, accessing,
                   quiescing, barrier, quiesced, bound, life, history,
                   callbackOps, clockSteps>>

\* ESP_ERR_NO_MEM: the old timer is stopped already; Run drains and retries.
ArmUnavailable ==
    /\ rpc = "arm"
    /\ Pending # {}
    /\ timerFailures < MaxTimerFailures
    /\ timerFailures' = timerFailures + 1
    /\ armed' = Off
    /\ rpc' = "drain"
    /\ UNCHANGED <<now, queue, submitting, notified, registry, tpc, accessing,
                   quiescing, barrier, quiesced, bound, life, history,
                   callbackOps, clockSteps>>

-----------------------------------------------------------------------------
(* ClearExpiryCallbackAndWait, run by the runner task before it exits: a   *)
(* barrier expiry is sent through the esp_timer task, so that an expiry    *)
(* already under way has left TimerEntry when the callback is dropped.     *)

\* Mutant of StopApplied: drained commands are dropped.
StopWithoutApplying ==
    /\ rpc = "stopapply"
    /\ rpc' = "quiesce"
    /\ UNCHANGED <<now, queue, submitting, notified, registry, timer, life,
                   history, spent>>

StopApplied ==
    /\ rpc = "stopapply"
    /\ commands = <<>>
    /\ rpc' = "quiesce"
    /\ UNCHANGED <<now, queue, submitting, notified, registry, timer, life,
                   history, spent>>

Quiesce ==
    /\ rpc = "quiesce"
    /\ quiescing' = TRUE
    /\ rpc' = "stoptimer"
    /\ UNCHANGED <<now, queue, submitting, notified, registry, armed, tpc,
                   accessing, barrier, quiesced, bound, life, history, spent>>

StopTimer ==
    /\ rpc = "stoptimer"
    /\ armed' = Off
    /\ quiesced' = FALSE
    /\ rpc' = "barrier"
    /\ UNCHANGED <<now, queue, submitting, notified, registry, tpc, accessing,
                   quiescing, barrier, bound, life, history, spent>>

ArmBarrier ==
    /\ rpc = "barrier"
    /\ barrier' = TRUE
    /\ armed' = 0
    /\ rpc' = "await"
    /\ UNCHANGED <<now, queue, submitting, notified, registry, tpc, accessing,
                   quiescing, quiesced, bound, life, history, spent>>

AwaitBarrier ==
    /\ rpc = "await"
    /\ quiesced
    /\ quiesced' = FALSE
    /\ rpc' = "access"
    /\ UNCHANGED <<now, queue, submitting, notified, registry, armed, tpc,
                   accessing, quiescing, barrier, bound, life, history, spent>>

\* Mutant of DropCallback: the expiry under way is not awaited.
DropCallbackAtOnce ==
    /\ rpc = "access"
    /\ bound' = FALSE
    /\ rpc' = "exit"
    /\ UNCHANGED <<now, queue, submitting, notified, registry, armed, tpc,
                   accessing, quiescing, barrier, quiesced, life, history, spent>>

DropCallback ==
    /\ rpc = "access"
    /\ ~accessing
    /\ bound' = FALSE
    /\ rpc' = "exit"
    /\ UNCHANGED <<now, queue, submitting, notified, registry, armed, tpc,
                   accessing, quiescing, barrier, quiesced, life, history, spent>>

Exit ==
    /\ rpc = "exit"
    /\ stopped' = TRUE
    /\ rpc' = "exited"
    /\ UNCHANGED <<now, queue, submitting, notified, registry, timer, accepting,
                   stopping, spc, history, spent>>

-----------------------------------------------------------------------------
(* The esp_timer task: one expiry at a time goes through TimerEntry.       *)

Expire ==
    /\ tpc = "idle"
    /\ armed = 0
    /\ armed' = Off
    /\ tpc' = "dispatched"
    /\ UNCHANGED <<now, queue, submitting, notified, rpc, registry, accessing,
                   quiescing, barrier, quiesced, bound, life, history, spent>>

EnterOwner ==
    /\ tpc = "dispatched"
    /\ accessing' = TRUE
    /\ tpc' = "accessing"
    /\ UNCHANGED <<now, queue, submitting, notified, rpc, registry, armed,
                   quiescing, barrier, quiesced, bound, life, history, spent>>

LoadQuiescing ==
    /\ tpc = "accessing"
    /\ tpc' = IF quiescing THEN "barrier" ELSE "owner"
    /\ UNCHANGED <<now, queue, submitting, notified, rpc, registry, armed,
                   accessing, quiescing, barrier, quiesced, bound, life,
                   history, spent>>

ExpiryCallback ==
    /\ tpc = "owner"
    /\ notified' = IF bound THEN TRUE ELSE notified
    /\ tpc' = "leave"
    /\ UNCHANGED <<now, queue, submitting, rpc, registry, armed, accessing,
                   quiescing, barrier, quiesced, bound, life, history, spent>>

CompleteBarrier ==
    /\ tpc = "barrier"
    /\ \/ /\ barrier
          /\ barrier' = FALSE
          /\ armed' = Off
          /\ tpc' = "give"
       \/ /\ ~barrier
          /\ tpc' = "leave"
          /\ UNCHANGED <<barrier, armed>>
    /\ UNCHANGED <<now, queue, submitting, notified, rpc, registry, accessing,
                   quiescing, quiesced, bound, life, history, spent>>

GiveQuiesced ==
    /\ tpc = "give"
    /\ quiesced' = TRUE
    /\ tpc' = "leave"
    /\ UNCHANGED <<now, queue, submitting, notified, rpc, registry, armed,
                   accessing, quiescing, barrier, bound, life, history, spent>>

LeaveOwner ==
    /\ tpc = "leave"
    /\ accessing' = FALSE
    /\ tpc' = "idle"
    /\ UNCHANGED <<now, queue, submitting, notified, rpc, registry, armed,
                   quiescing, barrier, quiesced, bound, life, history, spent>>

-----------------------------------------------------------------------------
(* Stop, on the thread that destroys the service.                          *)

\* Mutant of StopClose: submission_mutex_ is not taken.
StopCloseWithoutMutex ==
    /\ spc = "idle"
    /\ accepting' = FALSE
    /\ spc' = "closed"
    /\ UNCHANGED <<now, queue, submitting, notified, rpc, registry, timer,
                   stopping, stopped, history, spent>>

StopClose ==
    /\ spc = "idle"
    /\ ~submitting                       \* waits for submission_mutex_
    /\ accepting' = FALSE
    /\ spc' = "closed"
    /\ UNCHANGED <<now, queue, submitting, notified, rpc, registry, timer,
                   stopping, stopped, history, spent>>

StopFlag ==
    /\ spc = "closed"
    /\ stopping' = TRUE
    /\ spc' = "flagged"
    /\ UNCHANGED <<now, queue, submitting, notified, rpc, registry, timer,
                   accepting, stopped, history, spent>>

\* Mutant of StopNotify: the runner task is not woken.
StopSilently ==
    /\ spc = "flagged"
    /\ spc' = "waiting"
    /\ UNCHANGED <<now, queue, submitting, notified, rpc, registry, timer,
                   accepting, stopping, stopped, history, spent>>

StopNotify ==
    /\ spc = "flagged"
    /\ notified' = TRUE
    /\ spc' = "waiting"
    /\ UNCHANGED <<now, queue, submitting, rpc, registry, timer, accepting,
                   stopping, stopped, history, spent>>

\* What is still queued goes to a registry that nobody runs any more.
StopFinish ==
    /\ spc = "waiting"
    /\ stopped
    /\ stopped' = FALSE
    /\ commands' = commands \o queue
    /\ queue' = <<>>
    /\ spc' = "done"
    /\ UNCHANGED <<now, submitting, notified, rpc, status, trigger, boundary,
                   batch, active, timer, accepting, stopping, history, spent>>

-----------------------------------------------------------------------------
(* Time.  A tick moves the wall clock and the timer; SNTP moves the wall   *)
(* clock alone.  At MaxTime only the timer goes on.                        *)

Tick ==
    /\ now < MaxTime \/ armed > 0
    /\ now' = IF now < MaxTime THEN now + 1 ELSE now
    /\ armed' = IF armed > 0 THEN armed - 1 ELSE armed
    /\ UNCHANGED <<queue, submitting, notified, rpc, registry, tpc, accessing,
                   quiescing, barrier, quiesced, bound, life, history, spent>>

SetClock(t) ==
    /\ clockSteps < MaxClockSteps
    /\ clockSteps' = clockSteps + 1
    /\ now' = t
    /\ UNCHANGED <<queue, submitting, notified, rpc, registry, timer, life,
                   history, callbackOps, timerFailures>>

-----------------------------------------------------------------------------
RunnerStep ==
    \/ Take \/ Check \/ DrainCommand \/ DrainDone \/ Loop \/ ReadClock
    \/ ProcessPendingCommand \/ SnapshotDue \/ BeginDue \/ CallbackDone
    \/ BatchDone \/ Disarm \/ ArmAfter \/ StopApplied \/ Quiesce \/ StopTimer
    \/ ArmBarrier \/ AwaitBarrier \/ DropCallback \/ Exit

TimerStep ==
    \/ Expire \/ EnterOwner \/ LoadQuiescing \/ ExpiryCallback
    \/ CompleteBarrier \/ GiveQuiesced \/ LeaveOwner

StopStep == StopFlag \/ StopNotify \/ StopFinish

Next ==
    \/ \E cmd \in Commands : EnqueueSend(cmd) \/ CallbackCommand(cmd)
    \/ EnqueueNotify
    \/ RunnerStep
    \/ ArmUnavailable
    \/ TimerStep
    \/ StopClose
    \/ StopStep
    \/ Tick
    \/ \E t \in Times : SetClock(t)

\* FreeRTOS runs every ready task: the runner, the esp_timer task, the client
\* that holds the mutex and the destroying thread once it began; time passes.
Fairness ==
    /\ WF_vars(EnqueueNotify)
    /\ WF_vars(RunnerStep)
    /\ WF_vars(TimerStep)
    /\ WF_vars(StopStep)
    /\ WF_vars(Tick)

Spec == Init /\ [][Next]_vars
FairSpec == Spec /\ Fairness
-----------------------------------------------------------------------------
(* Properties.                                                             *)

\* The timer task is on its way to ExpiryCallback.
ExpiryUnderWay == tpc \in {"dispatched", "accessing", "owner"}

\* No wake-up is lost: while the runner task sleeps without a notification,
\* a pending task has the timer armed or an expiry under way, and a queued
\* command has a client that is about to notify (Run, Enqueue, ProcessWake).
WakeIsComing ==
    rpc = "take" /\ ~notified =>
        /\ Pending # {} => armed # Off \/ ExpiryUnderWay \/ stopping
        /\ queue # <<>> \/ commands # <<>> => submitting \/ stopping

\* The armed timer never expires later than the earliest pending task is due
\* by the wall clock: a trigger is a point of the wall clock (TimingTask), and
\* ProcessWake arms the timer for the front of pending_tasks_.
FiresByWallClock ==
    rpc = "take" /\ ~notified
        => \A i \in Pending : armed <= Delay(trigger[i])

\* As long as SNTP has not moved the wall clock, the armed timer never expires
\* later than the earliest pending task is due, in whatever order tasks were
\* registered, cancelled or became due while callbacks ran (ProcessWake).
TimerIsNotLate == clockSteps = 0 => FiresByWallClock

\* Destroying the service loses no command that was accepted: when the runner
\* task has left Run, all of them were applied (Enqueue, Stop, Run).
AcceptedCommandsApplied == rpc = "exited" => applied = accepted

\* When the runner task drops the expiry callback, no expiry is inside
\* TimerEntry and none can start (ClearExpiryCallbackAndWait): the objects it
\* uses may be destroyed.
TimerIsQuiet ==
    rpc \in {"exit", "exited"} => tpc = "idle" /\ armed = Off /\ ~accessing

\* Nobody notifies the runner task after Stop returned: its handle is gone
\* (FreeRtosRunnerWake::Notify asserts it).
NoNotifyAfterStop == spc = "done" => ~submitting /\ tpc # "owner"

\* The registry implements the life cycle of TimingTasks.
Tasks == INSTANCE TimingTasks WITH Ids <- Ids, status <- status
ImplementsTasks == Tasks!Spec

\* A pending task runs or is cancelled, unless the service is destroyed.
PendingTaskFires ==
    \A i \in Ids : status[i] = "pending" ~> status[i] # "pending" \/ stopping

\* Stop returns: the runner task sees the flag and the barrier is completed.
StopReturns == spc = "closed" ~> spc = "done"
=============================================================================
