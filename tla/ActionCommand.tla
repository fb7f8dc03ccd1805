--------------------------- MODULE ActionCommand ---------------------------
(***************************************************************************)
(* One reminder action from the notification's card to the device and      *)
(* back: the gateway's ActionApplication over PostgreSQL, its SSE hub and  *)
(* stream controller, and the device's ImActionChannel.                    *)
(*                                                                         *)
(* The user's click creates a row of im_actions and publishes a command to *)
(* the streams of the reminder's window.  The device executes it and posts *)
(* the result.  A worker expires actions and recovers those that stay in   *)
(* processing.  The user may also answer by voice, which the device        *)
(* reports as a fact of its own.  Transactions run at PostgreSQL's default *)
(* isolation (read committed) and lock nothing: each one is a step that    *)
(* reads the row and a later step that writes the whole row back.          *)
(*                                                                         *)
(* The card asks for one kind of action; "same" and "other" say whether    *)
(* what the device did is of that kind.                                    *)
(***************************************************************************)
EXTENDS Integers

CONSTANTS
    MaxConnects,    \* bound: times the device opens the stream
    MaxQueue,       \* maxQueueSize of a subscription
    MaxFaults,      \* bound: executions that fail on the device
    MaxRecoveries,  \* bound: recoveries of a stale processing action
    MaxReports,     \* bound: times the device reports its voice action
    MaxDrops,       \* bound: connections or answers the network loses
    MaxCrashes      \* bound: restarts of the gateway

ASSUME ActionAssumption ==
    /\ MaxConnects \in Nat
    /\ MaxQueue \in Nat \ {0}
    /\ MaxFaults \in Nat
    /\ MaxRecoveries \in Nat
    /\ MaxReports \in Nat
    /\ MaxDrops \in Nat
    /\ MaxCrashes \in Nat

Conns == 1 .. MaxConnects

VARIABLES
    over,    \* expiresAt has passed
    row,     \* the row of im_actions: status and result
    fact,    \* the row of im_reminder_action_facts, or "none"
    closed,  \* the hub's closedActions holds the action
    sub,     \* per connection, the HubSubscription: open, queue length
    stream,  \* per connection, the SSE response
    req,     \* the other requests and the worker: pc, copy of the row, input
    wire,    \* per connection, frames on their way to the device
    dev,     \* the device's action worker: pc, connection, cached result
    local,   \* what the device has done to the reminder (SQLite)
    spent    \* how much of each bound is used

device == <<dev, local>>
vars == <<over, row, fact, closed, sub, stream, req, wire, device, spent>>

\* What runs in the gateway beside the streams: the request of the card, the
\* worker, the report of a voice action, and for each connection the request
\* that posts the result of its command, which has the connection's number.
Trigger  == 0
Worker   == -1
Voice    == -2
Requests == {Trigger, Worker, Voice} \cup Conns

Unfinished == {"pending", "dispatched", "processing"}
Terminal   == {"succeeded", "failed", "expired"}
Outcomes   == {"succeeded", "retryable_failed", "failed", "expired"}
Kinds      == {"same", "other"}
Rows == [status : {"none"} \cup Unfinished \cup Terminal,
         result : {"none"} \cup Outcomes]

NoRow == [status |-> "none", result |-> "none"]
Rest  == [pc |-> "idle", copy |-> NoRow, input |-> "none"]

RequestPCs == {"idle", "insert", "posted", "write", "expire", "dispatch",
               "mark dispatched", "publish", "close", "accepted", "refused"}

\* Rows, local copies of a row and program counters have their types; a
\* subscription's queue is within its limit.
TypeOK ==
    /\ over \in BOOLEAN
    /\ row \in Rows
    /\ fact \in {"none"} \cup Kinds
    /\ closed \in BOOLEAN
    /\ sub \in [Conns -> [open : BOOLEAN, queue : 0 .. MaxQueue]]
    /\ stream \in [Conns -> [pc : {"idle", "replay", "replay write", "send",
                                   "mark", "mark write", "wait", "ended", "cut"},
                             copy : Rows, seen : BOOLEAN]]
    /\ req \in [Requests -> [pc : RequestPCs, copy : Rows,
                              input : {"none"} \cup Outcomes \cup Kinds]]
    /\ wire \in [Conns -> 0 .. 1]
    /\ dev \in [pc : {"off", "read", "handle", "report", "done"},
                conn : 0 .. MaxConnects, cached : {"none"} \cup Outcomes]
    /\ local \in [kind : {"none"} \cup Kinds, by : {"nobody", "card", "voice"}]
    /\ spent \in [faults : 0 .. MaxFaults, recoveries : 0 .. MaxRecoveries,
                  reports : 0 .. MaxReports, drops : 0 .. MaxDrops,
                  crashes : 0 .. MaxCrashes]

Init ==
    /\ over = FALSE
    /\ row = NoRow
    /\ fact = "none"
    /\ closed = FALSE
    /\ sub = [c \in Conns |-> [open |-> FALSE, queue |-> 0]]
    /\ stream = [c \in Conns |-> [pc |-> "idle", copy |-> NoRow, seen |-> FALSE]]
    /\ req = [r \in Requests |-> Rest]
    /\ wire = [c \in Conns |-> 0]
    /\ dev = [pc |-> "off", conn |-> 0, cached |-> "none"]
    /\ local = [kind |-> "none", by |-> "nobody"]
    /\ spent = [faults |-> 0, recoveries |-> 0, reports |-> 0,
                drops |-> 0, crashes |-> 0]

Spend(bound, limit) ==
    /\ spent[bound] < limit
    /\ spent' = [spent EXCEPT ![bound] = @ + 1]

-----------------------------------------------------------------------------
(* The SSE hub.                                                            *)

NoSub == [open |-> FALSE, queue |-> 0]

\* push: a waiting stream takes the command, else it is queued, else the
\* subscription overflows and ends.
Push(c) == IF sub[c].queue < MaxQueue THEN [sub[c] EXCEPT !.queue = @ + 1]
           ELSE NoSub

HubPublish ==
    sub' = [c \in Conns |-> IF sub[c].open /\ ~over /\ ~closed
                            THEN Push(c) ELSE sub[c]]

\* The action is the only one of its window: closing it ends the streams.
HubClose ==
    /\ closed' = TRUE
    /\ sub' = [c \in Conns |-> NoSub]

SubscriptionExpires(c) ==
    /\ over
    /\ sub[c].open
    /\ sub' = [sub EXCEPT ![c] = NoSub]
    /\ UNCHANGED <<over, row, fact, closed, stream, req, wire, device, spent>>

-----------------------------------------------------------------------------
(* dispatch(command), the last part of three requests, and the close of    *)
(* the stream, the last part of three others.                              *)

After(r) == IF r \in Conns THEN "accepted" ELSE "idle"

DispatchRead(r) ==
    /\ req[r].pc = "dispatch"
    /\ req' = [req EXCEPT ![r] =
                 IF row.status = "dispatched" THEN [Rest EXCEPT !.pc = "publish"]
                 ELSE [Rest EXCEPT !.pc = "mark dispatched", !.copy = row]]
    /\ UNCHANGED <<over, row, fact, closed, sub, stream, wire, device, spent>>

DispatchWrite(r) ==
    /\ req[r].pc = "mark dispatched"
    /\ row' = [req[r].copy EXCEPT !.status = "dispatched"]
    /\ req' = [req EXCEPT ![r] = [Rest EXCEPT !.pc = "publish"]]
    /\ UNCHANGED <<over, fact, closed, sub, stream, wire, device, spent>>

Publish(r) ==
    /\ req[r].pc = "publish"
    /\ HubPublish
    /\ req' = [req EXCEPT ![r] = [Rest EXCEPT !.pc = After(r)]]
    /\ UNCHANGED <<over, row, fact, closed, stream, wire, device, spent>>

Close(r) ==
    /\ req[r].pc = "close"
    /\ HubClose
    /\ req' = [req EXCEPT ![r] = [Rest EXCEPT !.pc = After(r)]]
    /\ UNCHANGED <<over, row, fact, stream, wire, device, spent>>

-----------------------------------------------------------------------------
(* triggerPrepared: the user executes the action of the card.              *)

TriggerRead ==
    /\ req[Trigger].pc = "idle"
    /\ row.status = "none"
    /\ ~over
    /\ req' = [req EXCEPT ![Trigger] =
                          [Rest EXCEPT !.pc = "insert", !.input = fact]]
    /\ UNCHANGED <<over, row, fact, closed, sub, stream, wire, device, spent>>

\* Mutant of Decided: any answer of the user makes the card's action succeed.
DecidedByAnyAnswer(kind) == [status |-> "succeeded", result |-> "succeeded"]

\* What a fact of the device makes of the card's action.
Decided(kind) ==
    IF kind = "same" THEN [status |-> "succeeded", result |-> "succeeded"]
    ELSE [status |-> "failed", result |-> "failed"]

TriggerInsert ==
    /\ req[Trigger].pc = "insert"
    /\ LET saw == req[Trigger].input IN
       /\ row' = IF saw = "none" THEN [NoRow EXCEPT !.status = "pending"]
                 ELSE Decided(saw)
       /\ req' = [req EXCEPT ![Trigger].pc = IF saw = "none" THEN "dispatch"
                                             ELSE "idle"]
    /\ UNCHANGED <<over, fact, closed, sub, stream, wire, device, spent>>

-----------------------------------------------------------------------------
(* The SSE stream: subscribe, replay what is unfinished, then the live     *)
(* commands not yet seen on this connection; after a frame is written its  *)
(* action is marked processing.                                            *)

Connect(c) ==
    /\ dev.pc = "off"
    /\ c = dev.conn + 1
    /\ ~over
    /\ dev' = [dev EXCEPT !.pc = "read", !.conn = c]
    /\ sub' = [sub EXCEPT ![c].open = TRUE]
    /\ stream' = [stream EXCEPT ![c].pc = "replay"]
    /\ UNCHANGED <<over, row, fact, closed, req, wire, local, spent>>

\* Mutant of ReplayRead: a pending action is left to its publisher.
ReplaySkipsPending(c) ==
    /\ stream[c].pc = "replay"
    /\ stream' = [stream EXCEPT ![c] =
                    IF row.status \in {"dispatched", "processing"} /\ ~over
                    THEN [pc |-> "replay write", copy |-> row, seen |-> TRUE]
                    ELSE [@ EXCEPT !.pc = "wait"]]
    /\ UNCHANGED <<over, row, fact, closed, sub, req, wire, device, spent>>

ReplayRead(c) ==
    /\ stream[c].pc = "replay"
    /\ stream' = [stream EXCEPT ![c] =
                    IF row.status \in Unfinished /\ ~over
                    THEN [pc |-> "replay write", copy |-> row, seen |-> TRUE]
                    ELSE [@ EXCEPT !.pc = "wait"]]
    /\ UNCHANGED <<over, row, fact, closed, sub, req, wire, device, spent>>

ReplayWrite(c) ==
    /\ stream[c].pc = "replay write"
    /\ row' = IF stream[c].copy.status = "pending"
              THEN [stream[c].copy EXCEPT !.status = "dispatched"] ELSE row
    /\ stream' = [stream EXCEPT ![c] = [@ EXCEPT !.pc = "send", !.copy = NoRow]]
    /\ UNCHANGED <<over, fact, closed, sub, req, wire, device, spent>>

Attached(c) == dev.conn = c /\ dev.pc = "read"

\* A frame for a connection the device has left is lost; the gateway may or
\* may not have noticed, and ends the stream if it has.
SendFrame(c) ==
    /\ stream[c].pc = "send"
    /\ \/ /\ stream' = [stream EXCEPT ![c].pc = "mark"]
          /\ wire' = [wire EXCEPT ![c] = IF Attached(c) THEN 1 ELSE 0]
       \/ /\ ~Attached(c)
          /\ stream' = [stream EXCEPT ![c].pc = "ended"]
          /\ UNCHANGED wire
    /\ UNCHANGED <<over, row, fact, closed, sub, req, device, spent>>

MarkRead(c) ==
    /\ stream[c].pc = "mark"
    /\ stream' = [stream EXCEPT ![c] =
                    IF row.status \in {"pending", "dispatched"}
                    THEN [@ EXCEPT !.pc = "mark write", !.copy = row]
                    ELSE [@ EXCEPT !.pc = "wait"]]
    /\ UNCHANGED <<over, row, fact, closed, sub, req, wire, device, spent>>

MarkWrite(c) ==
    /\ stream[c].pc = "mark write"
    /\ row' = [stream[c].copy EXCEPT !.status = "processing"]
    /\ stream' = [stream EXCEPT ![c] = [@ EXCEPT !.pc = "wait", !.copy = NoRow]]
    /\ UNCHANGED <<over, fact, closed, sub, req, wire, device, spent>>

NextCommand(c) ==
    /\ stream[c].pc = "wait"
    /\ \/ /\ sub[c].queue > 0
          /\ sub' = [sub EXCEPT ![c].queue = @ - 1]
          /\ stream' = [stream EXCEPT ![c] =
                          IF stream[c].seen THEN @
                          ELSE [@ EXCEPT !.pc = "send", !.seen = TRUE]]
       \/ /\ ~sub[c].open
          /\ stream' = [stream EXCEPT ![c].pc = "ended"]
          /\ UNCHANGED sub
    /\ UNCHANGED <<over, row, fact, closed, req, wire, device, spent>>

-----------------------------------------------------------------------------
(* recordResult.                                                           *)

AfterResult(out) == IF out = "retryable_failed" THEN "dispatch" ELSE "close"

ResultRead(c) ==
    /\ req[c].pc = "posted"
    /\ req' = [req EXCEPT ![c].pc =
                    IF row.status \notin Terminal THEN "write"
                    ELSE IF row.result # req[c].input THEN "refused"
                    ELSE AfterResult(row.result)]
    /\ UNCHANGED <<over, row, fact, closed, sub, stream, wire, device, spent>>

ResultWrite(c) ==
    /\ req[c].pc = "write"
    /\ LET out == req[c].input IN
       /\ row' = [status |-> IF out = "retryable_failed" THEN "pending" ELSE out,
                  result |-> out]
       /\ req' = [req EXCEPT ![c].pc = AfterResult(out)]
    /\ UNCHANGED <<over, fact, closed, sub, stream, wire, device, spent>>

-----------------------------------------------------------------------------
(* expireDue and recoverStaleProcessing, run by the worker.                *)

\* Mutant of ExpireRead: what was sent to the device is not expired.
ExpirePendingOnly ==
    /\ req[Worker].pc = "idle"
    /\ over
    /\ row.status = "pending"
    /\ req' = [req EXCEPT ![Worker] =
                          [Rest EXCEPT !.pc = "expire", !.copy = row]]
    /\ UNCHANGED <<over, row, fact, closed, sub, stream, wire, device, spent>>

ExpireRead ==
    /\ req[Worker].pc = "idle"
    /\ over
    /\ row.status \in Unfinished
    /\ req' = [req EXCEPT ![Worker] =
                          [Rest EXCEPT !.pc = "expire", !.copy = row]]
    /\ UNCHANGED <<over, row, fact, closed, sub, stream, wire, device, spent>>

ExpireWrite ==
    /\ req[Worker].pc = "expire"
    /\ row' = [req[Worker].copy EXCEPT !.status = "expired"]
    /\ req' = [req EXCEPT ![Worker] = [Rest EXCEPT !.pc = "close"]]
    /\ UNCHANGED <<over, fact, closed, sub, stream, wire, device, spent>>

\* One UPDATE statement: the read and the write are one step.
RecoverStaleProcessing ==
    /\ req[Worker].pc = "idle"
    /\ ~over
    /\ row.status = "processing"
    /\ Spend("recoveries", MaxRecoveries)
    /\ row' = [row EXCEPT !.status = "pending"]
    /\ req' = [req EXCEPT ![Worker].pc = "dispatch"]
    /\ UNCHANGED <<over, fact, closed, sub, stream, wire, device>>

-----------------------------------------------------------------------------
(* recordDeviceActionStatus: the device reports what was done by voice;    *)
(* the same report may come again.                                         *)

VoiceRead ==
    /\ req[Voice].pc = "idle"
    /\ local.by = "voice"
    /\ Spend("reports", MaxReports)
    /\ req' = [req EXCEPT ![Voice] = [pc |-> "write",
                                      copy |-> IF over THEN NoRow ELSE row,
                                      input |-> local.kind]]
    /\ UNCHANGED <<over, row, fact, closed, sub, stream, wire, device>>

VoiceWrite ==
    /\ req[Voice].pc = "write"
    /\ LET kind == req[Voice].input IN
       /\ fact' = kind
       /\ IF req[Voice].copy.status \in Unfinished
          THEN /\ row' = Decided(kind)
               /\ req' = [req EXCEPT ![Voice] = [Rest EXCEPT !.pc = "close"]]
          ELSE /\ req' = [req EXCEPT ![Voice] = Rest]
               /\ UNCHANGED row
    /\ UNCHANGED <<over, closed, sub, stream, wire, device, spent>>

-----------------------------------------------------------------------------
(* The device: ImActionChannel::Run and the action worker that calls it,   *)
(* and the user who answers by voice.                                      *)

VoiceAction(kind) ==
    /\ local.kind = "none"
    /\ local' = [kind |-> kind, by |-> "voice"]
    /\ UNCHANGED <<over, row, fact, closed, sub, stream, req, wire, dev, spent>>

Receive ==
    /\ dev.pc = "read"
    /\ wire[dev.conn] = 1
    /\ wire' = [wire EXCEPT ![dev.conn] = 0]
    /\ dev' = [dev EXCEPT !.pc = "handle"]
    /\ UNCHANGED <<over, row, fact, closed, sub, stream, req, local, spent>>

\* kFinished after the end of the stream, kWindowExpired: no further connection.
RunEnds ==
    /\ dev.pc = "read"
    /\ \/ over
       \/ stream[dev.conn].pc = "ended" /\ wire[dev.conn] = 0
    /\ dev' = [dev EXCEPT !.pc = "done"]
    /\ UNCHANGED <<over, row, fact, closed, sub, stream, req, wire, local, spent>>

Post(out) == req' = [req EXCEPT ![dev.conn] =
                       [Rest EXCEPT !.pc = "posted", !.input = out]]

HandleExpired ==
    /\ dev.pc = "handle"
    /\ over
    /\ Post("expired")
    /\ dev' = [dev EXCEPT !.pc = "report"]
    /\ UNCHANGED <<over, row, fact, closed, sub, stream, wire, local, spent>>

\* Mutant of HandleCached: a replayed command is confirmed as succeeded.
HandleReplayAsDone ==
    /\ dev.pc = "handle"
    /\ ~over
    /\ dev.cached # "none"
    /\ Post("succeeded")
    /\ dev' = [dev EXCEPT !.pc = "report"]
    /\ UNCHANGED <<over, row, fact, closed, sub, stream, wire, local, spent>>

HandleCached ==
    /\ dev.pc = "handle"
    /\ ~over
    /\ dev.cached # "none"
    /\ Post(dev.cached)
    /\ dev' = [dev EXCEPT !.pc = "report"]
    /\ UNCHANGED <<over, row, fact, closed, sub, stream, wire, local, spent>>

\* ExecuteReminderAction performs the action, or replays one of the same
\* kind, or refuses because the other was performed; or it fails, as
\* unavailable or otherwise.
Execute ==
    /\ dev.pc = "handle"
    /\ ~over
    /\ dev.cached = "none"
    /\ \E out \in {"succeeded", "retryable_failed", "failed"} :
       /\ \/ /\ out = "succeeded"
             /\ local.kind \in {"none", "same"}
             /\ local' = IF local.kind = "none"
                         THEN [kind |-> "same", by |-> "card"] ELSE local
             /\ UNCHANGED spent
          \/ /\ out = "failed"
             /\ local.kind = "other"
             /\ UNCHANGED <<local, spent>>
          \/ /\ out # "succeeded"
             /\ Spend("faults", MaxFaults)
             /\ UNCHANGED local
       /\ Post(out)
       /\ dev' = [dev EXCEPT !.pc = "report", !.cached = out]
    /\ UNCHANGED <<over, row, fact, closed, sub, stream, wire>>

\* The device closes the stream; the gateway's subscription is aborted.
Leave ==
    /\ dev' = [dev EXCEPT !.pc = "off"]
    /\ sub' = [sub EXCEPT ![dev.conn] = NoSub]
    /\ wire' = [wire EXCEPT ![dev.conn] = 0]

Confirmed ==
    /\ dev.pc = "report"
    /\ req[dev.conn].pc = "accepted"
    /\ dev' = [dev EXCEPT !.pc = "read"]
    /\ UNCHANGED <<over, row, fact, closed, sub, stream, req, wire, local, spent>>

\* Refused, or the gateway went down with the request.
NotConfirmed ==
    /\ dev.pc = "report"
    /\ req[dev.conn].pc \in {"refused", "idle"}
    /\ Leave
    /\ UNCHANGED <<over, row, fact, closed, stream, req, local, spent>>

\* The request gets lost, or its answer comes too late or not at all.
AnswerLost ==
    /\ dev.pc = "report"
    /\ Spend("drops", MaxDrops)
    /\ Leave
    /\ \/ /\ req[dev.conn].pc = "posted"
          /\ req' = [req EXCEPT ![dev.conn] = Rest]
       \/ UNCHANGED req
    /\ UNCHANGED <<over, row, fact, closed, stream, local>>

\* kNetworkError on a stream whose gateway is gone.
StreamBroken ==
    /\ dev.pc = "read"
    /\ stream[dev.conn].pc = "cut"
    /\ Leave
    /\ UNCHANGED <<over, row, fact, closed, stream, req, local, spent>>

ConnectionLost ==
    /\ dev.pc = "read"
    /\ Spend("drops", MaxDrops)
    /\ Leave
    /\ UNCHANGED <<over, row, fact, closed, stream, req, local>>

-----------------------------------------------------------------------------
(* Time and restarts of the gateway.                                       *)

Expire ==
    /\ ~over
    /\ over' = TRUE
    /\ UNCHANGED <<row, fact, closed, sub, stream, req, wire, device, spent>>

Restart ==
    /\ Spend("crashes", MaxCrashes)
    /\ closed' = FALSE
    /\ sub' = [c \in Conns |-> NoSub]
    /\ stream' = [c \in Conns |-> [stream[c] EXCEPT !.pc =
                                     IF @ \in {"idle", "ended"} THEN @ ELSE "cut",
                                   !.copy = NoRow]]
    /\ req' = [r \in Requests |-> Rest]
    /\ wire' = [c \in Conns |-> 0]
    /\ UNCHANGED <<over, row, fact, device>>

\* The windows and the executed operations are in the device's memory only.
DeviceRestart ==
    /\ dev.pc \notin {"off", "done"}
    /\ dev' = [dev EXCEPT !.pc = "done", !.cached = "none"]
    /\ sub' = [sub EXCEPT ![dev.conn] = NoSub]
    /\ wire' = [wire EXCEPT ![dev.conn] = 0]
    /\ UNCHANGED <<over, row, fact, closed, stream, req, local, spent>>

-----------------------------------------------------------------------------
RequestStep ==
    \/ \E r \in Requests :
         DispatchRead(r) \/ DispatchWrite(r) \/ Publish(r) \/ Close(r)
    \/ TriggerInsert
    \/ \E c \in Conns : ResultRead(c) \/ ResultWrite(c)
    \/ ExpireRead \/ ExpireWrite
    \/ VoiceWrite

StreamStep(c) ==
    \/ ReplayRead(c) \/ ReplayWrite(c) \/ SendFrame(c) \/ MarkRead(c)
    \/ MarkWrite(c) \/ NextCommand(c) \/ SubscriptionExpires(c)

DeviceStep ==
    \/ \E c \in Conns : Connect(c)
    \/ Receive \/ RunEnds \/ HandleExpired \/ HandleCached \/ Execute
    \/ Confirmed \/ NotConfirmed \/ StreamBroken

Next ==
    \/ TriggerRead
    \/ RequestStep
    \/ \E c \in Conns : StreamStep(c)
    \/ RecoverStaleProcessing
    \/ VoiceRead
    \/ \E k \in Kinds : VoiceAction(k)
    \/ DeviceStep
    \/ AnswerLost \/ ConnectionLost
    \/ Expire
    \/ Restart \/ DeviceRestart

\* The gateway's event loop runs every request it has begun, the worker polls
\* every second, the device goes on, and the window ends some day.
Fairness ==
    /\ WF_vars(RequestStep)
    /\ \A c \in Conns : WF_vars(StreamStep(c))
    /\ WF_vars(DeviceStep)
    /\ WF_vars(Expire)

Spec == Init /\ [][Next]_vars
FairSpec == Spec /\ Fairness
-----------------------------------------------------------------------------
(* Properties.                                                             *)

\* The gateway tells the user the truth: it calls an action succeeded only if
\* the device has done it, and failed only if the device did the other one or
\* could not execute it, whatever is replayed, lost, late or overwritten
\* (recordResult, recordDeviceActionStatus, HandleCommand).
TellsTheTruth ==
    /\ row.status = "succeeded" => local.kind = "same"
    /\ row.status = "failed" => local.kind = "other" \/ spent.faults > 0

\* The gateway and the device have nothing under way, the window is open and
\* nobody has closed the action.
Quiet ==
    /\ \A r \in Requests : req[r].pc \in {"idle", "accepted", "refused"}
    /\ \A c \in Conns : stream[c].pc \in {"idle", "wait", "ended", "cut"}
    /\ \A c \in Conns : sub[c].queue = 0 /\ wire[c] = 0
    /\ ~over
    /\ ~closed

\* No command is stranded: when nothing is under way and the device listens
\* on a stream, an unfinished action was sent on that stream (the controller
\* subscribes before it replays, dispatch marks before it publishes).
DispatchedIsSent ==
    Quiet /\ dev.pc = "read" /\ sub[dev.conn].open /\ row.status \in Unfinished
        => stream[dev.conn].seen

\* Every action the user takes is settled in the end, for good: the worker
\* expires what the device never answers, also when another request reopened
\* the row (expireDue, dispatch, markProcessing).
ActionSettles == <>[](row.status \in {"none"} \cup Terminal)
=============================================================================
