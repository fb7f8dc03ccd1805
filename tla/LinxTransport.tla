--------------------------- MODULE LinxTransport ---------------------------
(***************************************************************************)
(* The sending half and the shutdown of EspWebSocketTransport, for the     *)
(* life of one client handle.                                              *)
(*                                                                         *)
(* Two callers enter the transport: the voice session, and the receive     *)
(* worker from inside its callbacks.  lifecycle_mutex_ serialises them;    *)
(* `holder' is who has it across two steps.  TxLoop runs beside them and   *)
(* takes neither that lock nor any other but the generation gate's.  An    *)
(* item is its kind and its generation; sizes, headers and sequence        *)
(* numbers are left out.  The network and the WebSocket client are         *)
(* external: a write fails exactly when the connection is lost.  What      *)
(* the session makes of an envelope is the subject of VoiceSession.        *)
(***************************************************************************)
EXTENDS Naturals, Sequences

CONSTANTS
    MediaDepth, ControlDepth,   \* capacities of tx_queue_, tx_control_queue_
    PoolSize,                   \* items of the TX pool
    MaxTurns,                   \* generations the session goes through
    MaxItems,                   \* items the callers hand over
    MaxDrops                    \* connections lost

ASSUME BoundsAssumption ==
    /\ {MediaDepth, ControlDepth, PoolSize} \subseteq Nat \ {0}
    /\ {MaxTurns, MaxItems, MaxDrops} \subseteq Nat

VARIABLES
    turn, capturing,            \* the session: its generation, its phase
    bumped, aborting,           \* per caller, a generation not yet passed on;
                                \* the session's abort not yet sent
    generation, gate,           \* generation_, and the gate's copy of it
    state, mediaOpen, running,  \* state_, media_tx_open_, running_
    media, control, used,       \* the two queues, the pool items in use
    tx, worker,                 \* TxLoop and the receive worker
    holder, closing,            \* lifecycle_mutex_; how far Close has come
    client, link, boundary,     \* the handle; the connection; the last
                                \* boundary the server has read on it
    items, drops

vars == <<turn, capturing, bumped, aborting, generation, gate, state, mediaOpen, running,
          media, control, used, tx, worker, holder, closing, client, link,
          boundary, items, drops>>

turns == <<turn, capturing, bumped, aborting>>
gates == <<generation, gate, mediaOpen>>
queues == <<media, control, used>>
network == <<link, boundary, drops>>
shutdown == <<state, running, closing, client>>

Callers == {"session", "worker"}
NoItem == [kind |-> "none", generation |-> 0]
Boundaries == {"start", "stop"}

Init ==
    /\ turn = 1 /\ capturing = FALSE
    /\ bumped = [c \in Callers |-> 0] /\ aborting = FALSE
    /\ generation = 1 /\ gate = 1
    /\ state = "connected" /\ mediaOpen = FALSE /\ running = TRUE
    /\ media = <<>> /\ control = <<>> /\ used = 0
    /\ tx = [at |-> "loop", item |-> NoItem]
    /\ worker = "loop"
    /\ holder = "nobody" /\ closing = "no"
    /\ client = "open" /\ link = "up" /\ boundary = NoItem
    /\ items = 0 /\ drops = 0

-----------------------------------------------------------------------------
(* SendText and SendAudio, under lifecycle_mutex_ from end to end.         *)

\* The worker enters from a callback; the session has no call in flight when
\* it closes.
MayCall(c) ==
    /\ holder = "nobody"
    /\ c = "worker" => worker = "callback"
    /\ c = "session" => closing = "no" /\ bumped.session = 0 /\ ~aborting

Accepts == closing = "no" /\ client = "open" /\ state = "connected"

\* Mutant of Lane: boundaries overtake PCM in the control lane.
LaneOfKind(kind) == IF kind = "audio" THEN "media" ELSE "control"

\* listen.start and listen.stop share the media FIFO with PCM.
Lane(kind) == IF kind \in Boundaries \cup {"audio"} THEN "media" ELSE "control"

HasRoom(kind) ==
    IF Lane(kind) = "media" THEN Len(media) < MediaDepth
                            ELSE Len(control) < ControlDepth

\* TryAcquireTxItem fails when every item is in use, and also when TxLoop just
\* has the pool's mutex to release one.
MayAcquire == used < PoolSize
MayMiss == used = PoolSize \/ tx.at \in {"hand", "writing"}

\* The queue takes the item; or there is none, or the queue stays full for the
\* whole wait and the item goes back to the pool.
Enqueue(item) ==
    /\ MayAcquire /\ HasRoom(item.kind)
    /\ used' = used + 1
    /\ IF Lane(item.kind) = "media"
       THEN media' = Append(media, item) /\ UNCHANGED control
       ELSE control' = Append(control, item) /\ UNCHANGED media

Refused(item) ==
    /\ MayMiss \/ (MayAcquire /\ ~HasRoom(item.kind))
    /\ UNCHANGED queues

\* stop closes the media gate before it waits for room, start opens it once it
\* is queued; without an item both leave it as it is.  A session whose stop
\* was refused abandons the turn for a new generation (EndCapture).
SendText(c, kind) ==
    LET item == [kind |-> kind, generation |-> generation] IN
    /\ MayCall(c) /\ Accepts /\ items < MaxItems
    /\ items' = items + 1
    /\ \/ /\ Enqueue(item)
          /\ mediaOpen' = IF kind \in Boundaries THEN kind = "start" ELSE mediaOpen
          /\ capturing' = IF kind \in Boundaries THEN kind = "start" ELSE capturing
          /\ UNCHANGED <<turn, bumped>>
       \/ /\ kind # "stop" /\ Refused(item)
          /\ UNCHANGED <<mediaOpen, turn, capturing, bumped>>
       \/ /\ kind = "stop" /\ turn < MaxTurns
          /\ \/ MayMiss /\ UNCHANGED mediaOpen
             \/ MayAcquire /\ ~HasRoom(kind) /\ mediaOpen' = FALSE
          /\ turn' = turn + 1
          /\ bumped' = [bumped EXCEPT ![c] = turn + 1]
          /\ capturing' = FALSE
          /\ UNCHANGED queues
    /\ UNCHANGED <<aborting, generation, gate, shutdown, tx, worker, holder,
                   network>>

\* The session opens a turn when it is not capturing and ends it when it is;
\* prompts go out in between, and the worker answers a tool call.
SessionText ==
    \/ ~capturing /\ SendText("session", "start")
    \/ capturing /\ SendText("session", "stop")
    \/ SendText("session", "detect")
WorkerText == SendText("worker", "mcp")

\* A frame carries the session's generation, which the provider compares; with
\* the media gate closed it is dropped and reported as sent.
SendAudio ==
    LET item == [kind |-> "audio", generation |-> turn] IN
    /\ MayCall("session") /\ Accepts /\ items < MaxItems
    /\ capturing /\ mediaOpen /\ turn = generation
    /\ items' = items + 1
    /\ Enqueue(item) \/ Refused(item)
    /\ UNCHANGED <<turns, gates, shutdown, tx, worker, holder, network>>

-----------------------------------------------------------------------------
(* SetGeneration.  The session begins a new turn on an interruption, and on *)
(* the worker's thread when the connection was lost.                        *)

NextTurn(c) ==
    /\ MayCall(c) /\ bumped[c] = 0 /\ turn < MaxTurns
    /\ turn' = turn + 1
    /\ bumped' = [bumped EXCEPT ![c] = turn + 1]
    /\ capturing' = FALSE
    /\ UNCHANGED <<aborting, gates, shutdown, queues, tx, worker, holder,
                   network, items>>

\* The generation is published first, so that the worker drops old envelopes
\* while this call waits.
PublishGeneration(c) ==
    /\ holder = "nobody" /\ bumped[c] # 0
    /\ holder' = c
    /\ generation' = bumped[c]
    /\ mediaOpen' = FALSE
    /\ UNCHANGED <<turns, gate, shutdown, queues, tx, worker, network,
                   items>>

\* Mutant of GateIsFree: the write happens outside the critical section.
GateIsAlwaysFree == TRUE

\* The gate's mutex is held for the whole of a write.
GateIsFree == tx.at # "writing"

\* Then the gate advances and the backlog of both queues is released.  After
\* most interruptions the session goes on to ask for an abort.
AdvanceGate(c) ==
    /\ holder = c /\ bumped[c] # 0 /\ GateIsFree
    /\ gate' = bumped[c]
    /\ media' = <<>> /\ control' = <<>>
    /\ used' = used - Len(media) - Len(control)
    /\ bumped' = [bumped EXCEPT ![c] = 0]
    /\ aborting' \in {aborting, aborting \/ c = "session"}
    /\ holder' = "nobody"
    /\ UNCHANGED <<turn, capturing, generation, shutdown, mediaOpen, tx,
                   worker, network, items>>

\* The abort closes the media gate once it is queued; refused, it is lost.
Abort ==
    LET item == [kind |-> "abort", generation |-> generation] IN
    /\ aborting /\ holder = "nobody"
    /\ aborting' = FALSE
    /\ \/ Accepts /\ Enqueue(item) /\ mediaOpen' = FALSE
       \/ Accepts /\ Refused(item) /\ UNCHANGED mediaOpen
       \/ ~Accepts /\ UNCHANGED <<queues, mediaOpen>>
    /\ UNCHANGED <<turn, capturing, bumped, generation, gate, shutdown, tx,
                   worker, holder, network, items>>

-----------------------------------------------------------------------------
(* TxLoop: control before media, one item at a time.                       *)

TxTake ==
    /\ tx.at = "loop" /\ running
    /\ \/ /\ control # <<>>
          /\ tx' = [at |-> "hand", item |-> Head(control)]
          /\ control' = Tail(control)
          /\ UNCHANGED media
       \/ /\ control = <<>> /\ media # <<>>
          /\ tx' = [at |-> "hand", item |-> Head(media)]
          /\ media' = Tail(media)
          /\ UNCHANGED control
    /\ UNCHANGED <<turns, gates, shutdown, used, worker, holder, network,
                   items>>

\* SendIfCurrent: the check and the write are one critical section.
SendIfCurrent ==
    /\ tx.at = "hand"
    /\ IF tx.item.generation = gate
       THEN tx' = [tx EXCEPT !.at = "writing"] /\ UNCHANGED used
       ELSE tx' = [at |-> "loop", item |-> NoItem] /\ used' = used - 1
    /\ UNCHANGED <<turns, gates, shutdown, media, control, worker, holder,
                   network, items>>

\* Mutant of Discarded: the item whose write failed is not given back.
DiscardedButOne == Len(media) + Len(control)

\* ReleasePendingTx, with the item at hand.
Discarded == 1 + Len(media) + Len(control)

\* The write succeeds; or it fails with the connection, and nothing that waits
\* may cross to the next one.
EndWrite ==
    /\ tx.at = "writing"
    /\ tx' = [at |-> "loop", item |-> NoItem]
    /\ \/ /\ link = "up"
          /\ boundary' = IF tx.item.kind \in Boundaries \cup {"abort"}
                         THEN tx.item ELSE boundary
          /\ used' = used - 1
          /\ UNCHANGED <<media, control>>
       \/ /\ link = "down"
          /\ media' = <<>> /\ control' = <<>>
          /\ used' = used - Discarded
          /\ UNCHANGED boundary
    /\ UNCHANGED <<turns, gates, shutdown, worker, holder, link, items,
                   drops>>

TxExit ==
    /\ tx.at = "loop" /\ ~running
    /\ tx' = [tx EXCEPT !.at = "exited"]
    /\ UNCHANGED <<turns, gates, shutdown, queues, worker, holder, network,
                   items>>

TxLoop == TxTake \/ SendIfCurrent \/ EndWrite \/ TxExit

-----------------------------------------------------------------------------
(* The network and the receive worker.                                     *)

LinkDown ==
    /\ link = "up" /\ drops < MaxDrops
    /\ link' = "down" /\ drops' = drops + 1
    /\ boundary' = NoItem
    /\ UNCHANGED <<turns, gates, shutdown, queues, tx, worker, holder,
                   items>>

\* The client may report an error before it reports the loss.
WorkerSeesError ==
    /\ worker = "loop" /\ running /\ link = "down" /\ state = "connected"
    /\ worker' = "callback"
    /\ state' = "failed"
    /\ UNCHANGED <<turns, gates, running, queues, tx, holder, closing, client,
                   network, items>>

\* The worker sees the loss: the transport stops accepting, the session begins
\* a new turn from the callback.
WorkerSeesLoss ==
    /\ worker = "loop" /\ running /\ link = "down"
    /\ state \in {"connected", "failed"}
    /\ worker' = "callback"
    /\ state' = "reconnecting"
    /\ turn' = turn + 1
    /\ bumped' = [bumped EXCEPT !.worker = turn + 1]
    /\ capturing' = FALSE
    /\ UNCHANGED <<aborting, gates, running, queues, tx, holder, closing,
                   client, network, items>>

\* The client reconnects a second later, when the loss has been dealt with.
Reconnect ==
    /\ link = "down" /\ state = "reconnecting" /\ worker = "loop"
    /\ client = "open" /\ closing = "no"
    /\ link' = "up" /\ state' = "connected"
    /\ UNCHANGED <<turns, gates, running, queues, tx, worker, holder,
                   closing, client, boundary, items, drops>>

\* Any other envelope: its handlers may send before they return.
WorkerCallback ==
    /\ \/ worker = "loop" /\ running /\ closing = "no" /\ worker' = "callback"
       \/ worker = "callback" /\ bumped.worker = 0 /\ worker' = "loop"
       \/ worker = "loop" /\ ~running /\ worker' = "exited"
    /\ UNCHANGED <<turns, gates, shutdown, queues, tx, holder, network,
                   items>>

-----------------------------------------------------------------------------
(* Close.                                                                  *)

CloseBegins ==
    /\ closing \in {"no", "gaveUp"} /\ holder = "nobody" /\ bumped.session = 0
    /\ ~aborting
    /\ client = "open"
    /\ closing' = "begun" /\ running' = FALSE
    /\ state' = "disconnected" /\ mediaOpen' = FALSE
    /\ UNCHANGED <<turns, generation, gate, queues, tx, worker, holder,
                   client, network, items>>

\* The client is stopped without the lock, which is then kept to the end.
StopClient ==
    /\ closing = "begun" /\ holder = "nobody"
    /\ closing' = "waiting" /\ holder' = "close"
    /\ link' = "down" /\ boundary' = NoItem
    /\ UNCHANGED <<turns, gates, state, running, queues, tx, worker, client,
                   items, drops>>

\* Mutant of MayDestroy: only the receive worker is waited for.
MayDestroyEarly == closing = "waiting" /\ worker = "exited"

HaveExited == worker = "exited" /\ tx.at = "exited"

\* Both tasks have gone: the handle and the queues are destroyed.
MayDestroy == closing = "waiting" /\ HaveExited

Destroy ==
    /\ MayDestroy
    /\ closing' = "done" /\ holder' = "nobody"
    /\ client' = "destroyed"
    /\ media' = <<>> /\ control' = <<>>
    /\ used' = used - Len(media) - Len(control)
    /\ UNCHANGED <<turns, gates, state, running, tx, worker, network, items>>

\* A task does not go within its time, for instance a worker that waits for
\* the lock in a callback: Close fails and destroys nothing.
GiveUp ==
    /\ closing = "waiting" /\ ~HaveExited
    /\ closing' = "gaveUp" /\ holder' = "nobody"
    /\ state' = "failed"
    /\ UNCHANGED <<turns, gates, running, queues, tx, worker, client,
                   network, items>>

Close == CloseBegins \/ StopClient \/ Destroy \/ GiveUp

Next ==
    \/ SessionText \/ WorkerText \/ SendAudio
    \/ \E c \in Callers : NextTurn(c) \/ PublishGeneration(c) \/ AdvanceGate(c)
    \/ Abort
    \/ TxLoop
    \/ LinkDown \/ WorkerSeesError \/ WorkerSeesLoss \/ Reconnect \/ WorkerCallback
    \/ Close

Spec == Init /\ [][Next]_vars

-----------------------------------------------------------------------------
(* Properties.                                                             *)

Kinds == {"start", "stop", "audio", "detect", "mcp", "abort"}
Item == [kind : Kinds, generation : Nat]

\* Types, with the capacities of the two queues and of the pool.
TypeOK ==
    /\ turn \in Nat /\ generation \in Nat /\ gate \in Nat
    /\ bumped \in [Callers -> Nat] /\ aborting \in BOOLEAN
    /\ capturing \in BOOLEAN /\ mediaOpen \in BOOLEAN /\ running \in BOOLEAN
    /\ media \in Seq(Item) /\ Len(media) <= MediaDepth
    /\ control \in Seq(Item) /\ Len(control) <= ControlDepth
    /\ used \in 0..PoolSize
    /\ tx \in [at : {"loop", "hand", "writing", "exited"}, item : Item \cup {NoItem}]
    /\ worker \in {"loop", "callback", "exited"}
    /\ holder \in Callers \cup {"nobody", "close"}
    /\ closing \in {"no", "begun", "waiting", "gaveUp", "done"}
    /\ state \in {"connected", "reconnecting", "disconnected", "failed"}
    /\ client \in {"open", "destroyed"} /\ link \in {"up", "down"}
    /\ boundary \in Item \cup {NoItem}
    /\ items \in Nat /\ drops \in Nat

\* What is being written belongs to the generation the transport was given
\* last, from the moment SetGeneration returns: an item TxLoop had already in
\* hand does not cross an interruption (LinxTxGenerationGate).
StaleItemIsNotWritten ==
    tx.at = "writing" /\ holder \notin Callers => tx.item.generation = generation

\* The server reads audio only after the listen.start of its own turn, with no
\* listen.stop or abort in between, on the same connection: the media FIFO,
\* the media gate and the draining of the queues together see to it.
AudioIsFramed ==
    tx.at = "writing" /\ tx.item.kind = "audio" /\ link = "up"
        => boundary = [kind |-> "start", generation |-> tx.item.generation]

\* The client handle is destroyed only when no task can be inside a call that
\* uses it, however the timeouts of Close fall (Close, TxLoop, WorkerLoop).
ClientOutlivesItsUsers ==
    client = "destroyed" => HaveExited /\ used = 0

\* Every item of the pool in use is in a queue or in TxLoop's hand: no path,
\* failure or interruption, loses one or releases it twice.
PoolIsExact ==
    used = Len(media) + Len(control) + (IF tx.item = NoItem THEN 0 ELSE 1)
=============================================================================
