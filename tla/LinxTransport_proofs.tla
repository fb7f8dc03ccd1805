------------------------ MODULE LinxTransport_proofs ------------------------
(***************************************************************************)
(* For every capacity of the queues and of the pool, and however often the *)
(* session is interrupted, the connection lost and Close given up: nothing *)
(* stale is written, audio is framed, the client handle outlives the tasks *)
(* that use it, and no item of the pool is lost.                           *)
(***************************************************************************)
EXTENDS LinxTransport, SequenceTheorems, TLAPS

MediaKinds == Boundaries \cup {"audio"}

\* TxLoop holds an item exactly between taking and releasing it.
PoolInv ==
    /\ tx.at \in {"hand", "writing"} <=> tx.item # NoItem
    /\ PoolIsExact

\* All items of a sequence have generation g; all are of one of the kinds K.
AllOf(s, g) == \A i \in 1 .. Len(s) : s[i].generation = g
AllIn(s, K) == \A i \in 1 .. Len(s) : s[i].kind \in K

\* The gate lags behind the generation only inside SetGeneration, which keeps
\* media closed.  A generation that is still to be published is new: no item
\* carries it, the gate has not had it.
Unpublished(c) ==
    /\ bumped[c] <= turn
    /\ bumped[c] # 0 =>
         /\ gate # bumped[c]
         /\ holder # c => generation # bumped[c]
         /\ tx.item.generation # bumped[c]

GenInv ==
    /\ generation <= turn /\ gate <= turn /\ tx.item.generation <= turn
    /\ holder \notin Callers => gate = generation
    /\ \A c \in Callers :
         /\ Unpublished(c)
         /\ holder = c => bumped[c] # 0 /\ generation = bumped[c] /\ ~mediaOpen
    /\ bumped["session"] # 0 => bumped["session"] # bumped["worker"]
    /\ bumped["worker"] # 0 => worker = "callback"
    /\ AllOf(media, gate) /\ AllOf(control, gate)
    /\ tx.at = "writing" => tx.item.generation = gate

\* A destroyed handle stays unused, a closing transport takes no audio, and
\* Close keeps the lock while it waits.
CloseInv ==
    /\ closing = "waiting" => holder = "close"
    /\ client = "destroyed" =>
         closing = "done" /\ HaveExited /\ media = <<>> /\ control = <<>>
    /\ closing # "no" => ~mediaOpen

\* TxLoop holds an item of the media lane that it is going to write.
CurrentMedia == tx.item.kind \in MediaKinds /\ tx.item.generation = gate

\* What TxLoop holds, or else what the server read last, lets audio follow.
HandFramed ==
    IF CurrentMedia THEN tx.item.kind # "stop"
    ELSE link = "up" => boundary = [kind |-> "start", generation |-> gate]

AbortQueued == \E i \in 1 .. Len(control) : control[i].kind = "abort"
AbortInHand == tx.item.kind = "abort" /\ tx.item.generation = gate

\* The next item of the media lane is audio, or may be audio.
AudioIsNext ==
    IF media = <<>> THEN capturing /\ mediaOpen ELSE media[1].kind = "audio"

LanesInv ==
    /\ AllIn(media, MediaKinds)
    /\ AllIn(control, {"detect", "mcp", "abort"})

\* No audio follows a stop in the media lane, nor will it be put there.
FifoInv ==
    /\ \A i \in 1 .. Len(media) - 1 :
         media[i + 1].kind = "audio" => media[i].kind # "stop"
    /\ capturing /\ mediaOpen /\ media # <<>> => media[Len(media)].kind # "stop"

\* The session does not capture between a new generation and its abort, nor
\* while the connection is being restored.
QuietInv ==
    /\ bumped["session"] # 0 => ~capturing
    /\ aborting => ~capturing /\ media = <<>> /\ ~CurrentMedia
    /\ state = "reconnecting" =>
         /\ ~capturing
         /\ bumped["worker"] = 0 => media = <<>> /\ ~CurrentMedia

FrameInv ==
    /\ AudioIsNext => HandFramed /\ ~AbortInHand /\ ~AbortQueued
    /\ CurrentMedia /\ tx.item.kind = "audio" /\ link = "up"
         => boundary = [kind |-> "start", generation |-> gate]
    /\ AbortQueued => ~CurrentMedia

IInv ==
    /\ TypeOK /\ PoolInv /\ GenInv /\ CloseInv
    /\ LanesInv /\ FifoInv /\ QuietInv /\ FrameInv

-----------------------------------------------------------------------------
\* The empty sequence.
LEMMA EmptyFacts ==
    ASSUME NEW S
    PROVE  /\ <<>> \in Seq(S)
           /\ Len(<<>>) = 0
           /\ \A s \in Seq(S) : Len(s) \in Nat /\ (s = <<>> <=> Len(s) = 0)
OBVIOUS

\* What Head and Tail make of a queue.
LEMMA TailFacts ==
    ASSUME NEW S, NEW s \in Seq(S), s # <<>>
    PROVE  /\ Len(s) >= 1
           /\ Head(s) = s[1] /\ s[1] \in S
           /\ Tail(s) \in Seq(S)
           /\ Len(Tail(s)) = Len(s) - 1
           /\ \A i \in 1 .. Len(s) - 1 : Tail(s)[i] = s[i + 1]
<1>1. Len(s) \in Nat /\ Len(s) # 0
  BY EmptyFacts
<1>2. Head(s) = s[1] /\ s[1] \in S
  BY <1>1, HeadTailProperties, ElementOfSeq
<1> QED
  BY <1>1, <1>2, HeadTailProperties
-----------------------------------------------------------------------------
(* The callers: what a queue that takes an item keeps.                     *)

QueueTypes ==
    /\ media \in Seq(Item) /\ Len(media) <= MediaDepth
    /\ control \in Seq(Item) /\ Len(control) <= ControlDepth
    /\ used \in 0 .. PoolSize

\* An item of the current generation enters its own lane at the end.
LEMMA EnqueueFacts ==
    ASSUME IInv, NEW item \in Item, Enqueue(item), item.generation = gate,
           UNCHANGED <<gate, tx>>
    PROVE  /\ QueueTypes' /\ PoolInv'
           /\ AllOf(media, gate)' /\ AllOf(control, gate)'
           /\ LanesInv'
           /\ item.kind \in MediaKinds =>
                /\ control' = control
                /\ media' = Append(media, item)
           /\ item.kind \notin MediaKinds =>
                /\ media' = media
                /\ control' = Append(control, item)
<1> USE DEF IInv
<1>1. media \in Seq(Item) /\ control \in Seq(Item) /\ used \in Nat
  BY BoundsAssumption DEF TypeOK
<1>2. used' = used + 1 /\ used' \in 0 .. PoolSize
  BY <1>1, BoundsAssumption DEF Enqueue, MayAcquire
<1>3. item.kind \in Kinds
  BY DEF Item
<1>4. CASE item.kind \in MediaKinds
  <2>1. Len(media) < MediaDepth /\ control' = control /\ media' = Append(media, item)
    BY <1>4 DEF Enqueue, HasRoom, Lane, MediaKinds
  <2>2. /\ media' \in Seq(Item)
        /\ Len(media') = Len(media) + 1
        /\ \A i \in 1 .. Len(media) : media'[i] = media[i]
        /\ media'[Len(media) + 1] = item
    BY <1>1, <2>1, AppendProperties
  <2>3. QueueTypes'
    BY <1>1, <1>2, <2>1, <2>2, BoundsAssumption DEF TypeOK, QueueTypes
  <2>4. PoolInv'
    BY <1>1, <1>2, <2>1, <2>2 DEF PoolInv, PoolIsExact
  <2>5. AllOf(media, gate)' /\ AllOf(control, gate)'
    BY <1>1, <2>1, <2>2 DEF GenInv, AllOf
  <2>6. LanesInv'
    BY <1>1, <1>4, <2>1, <2>2 DEF LanesInv, AllIn
  <2> QED
    BY <1>4, <2>1, <2>3, <2>4, <2>5, <2>6
<1>5. CASE item.kind \notin MediaKinds
  <2>1. Len(control) < ControlDepth /\ media' = media /\ control' = Append(control, item)
    BY <1>5 DEF Enqueue, HasRoom, Lane, MediaKinds
  <2>2. /\ control' \in Seq(Item)
        /\ Len(control') = Len(control) + 1
        /\ \A i \in 1 .. Len(control) : control'[i] = control[i]
        /\ control'[Len(control) + 1] = item
    BY <1>1, <2>1, AppendProperties
  <2>3. QueueTypes'
    BY <1>1, <1>2, <2>1, <2>2, BoundsAssumption DEF TypeOK, QueueTypes
  <2>4. PoolInv'
    BY <1>1, <1>2, <2>1, <2>2 DEF PoolInv, PoolIsExact
  <2>5. AllOf(media, gate)' /\ AllOf(control, gate)'
    BY <1>1, <2>1, <2>2 DEF GenInv, AllOf
  <2>6. item.kind \in {"detect", "mcp", "abort"}
    BY <1>3, <1>5 DEF Kinds, MediaKinds, Boundaries
  <2>7. LanesInv'
    BY <1>1, <2>1, <2>2, <2>6 DEF LanesInv, AllIn
  <2> QED
    BY <1>5, <2>1, <2>3, <2>4, <2>5, <2>7
<1> QED
  BY <1>4, <1>5

\* A frame is queued behind the start of its turn or behind other frames.
LEMMA SendAudioStep ==
    ASSUME IInv, SendAudio
    PROVE  IInv'
<1> DEFINE item == [kind |-> "audio", generation |-> turn]
<1> USE DEF IInv
<1>1. /\ holder = "nobody" /\ closing = "no" /\ state = "connected"
      /\ capturing /\ mediaOpen /\ ~aborting
      /\ turn = generation /\ generation = gate
  BY DEF SendAudio, MayCall, Accepts, GenInv, Callers
<1>2. /\ item \in Item /\ item.generation = gate /\ item.kind = "audio"
      /\ item.kind \in MediaKinds
  BY <1>1 DEF TypeOK, Item, Kinds, MediaKinds
<1>3. /\ UNCHANGED <<turn, capturing, bumped, aborting, generation, gate,
                     mediaOpen, state, running, closing, client, tx, worker,
                     holder, link, boundary, drops>>
      /\ items' = items + 1
  BY DEF SendAudio, turns, gates, shutdown, network
<1>4. CASE Enqueue(item)
  <2>1. /\ QueueTypes' /\ PoolInv' /\ LanesInv'
        /\ AllOf(media, gate)' /\ AllOf(control, gate)'
        /\ control' = control /\ media' = Append(media, item)
    BY <1>2, <1>3, <1>4, EnqueueFacts
  <2>2. /\ media \in Seq(Item) /\ Len(media) \in Nat
        /\ media = <<>> <=> Len(media) = 0
    BY EmptyFacts DEF TypeOK
  <2>3. /\ media' # <<>>
        /\ Len(media') = Len(media) + 1
        /\ \A i \in 1 .. Len(media) : media'[i] = media[i]
        /\ media'[Len(media) + 1].kind = "audio"
    BY <1>2, <2>1, <2>2, AppendProperties
  <2>4. TypeOK'
    BY <1>3, <2>1 DEF TypeOK, QueueTypes
  <2>5. GenInv'
    BY <1>3, <2>1 DEF GenInv, Unpublished
  <2>6. CloseInv' /\ QuietInv'
    BY <1>1, <1>3 DEF CloseInv, QuietInv, CurrentMedia, TypeOK, HaveExited, Accepts, SendAudio
  <2>7. FifoInv'
    BY <1>1, <2>2, <2>3 DEF FifoInv
  <2>8. AudioIsNext' => AudioIsNext
    BY <1>1, <1>3, <2>2, <2>3 DEF AudioIsNext
  <2>9. FrameInv'
    BY <1>3, <2>1, <2>8 DEF FrameInv, HandFramed, CurrentMedia, AbortQueued, AbortInHand
  <2> QED
    BY <2>1, <2>4, <2>5, <2>6, <2>7, <2>9
<1>5. CASE Refused(item)
  <2>1. UNCHANGED <<media, control, used>>
    BY <1>5 DEF Refused, queues
  <2> QED
    BY <1>3, <2>1 DEF TypeOK, PoolInv, PoolIsExact, GenInv, Unpublished, AllOf, CloseInv,
       HaveExited, LanesInv, AllIn, FifoInv, QuietInv, CurrentMedia, FrameInv,
       HandFramed, AbortQueued, AbortInHand, AudioIsNext
<1> QED
  BY <1>4, <1>5 DEF SendAudio

\* A boundary enters the media lane and moves the media gate with it; a prompt
\* or an answer to a tool call enters the control lane.  A stop that finds no
\* item or no room begins a new turn instead.
LEMMA SendTextStep ==
    ASSUME IInv, NEW c \in Callers, NEW kind \in Kinds \ {"audio", "abort"},
           kind \in Boundaries => c = "session", SendText(c, kind)
    PROVE  IInv'
<1> DEFINE item == [kind |-> kind, generation |-> generation]
<1> USE DEF IInv
<1>1. /\ holder = "nobody" /\ closing = "no" /\ state = "connected"
      /\ client = "open" /\ generation = gate
      /\ kind \in Boundaries => bumped["session"] = 0 /\ ~aborting
  BY DEF SendText, MayCall, Accepts, GenInv, Callers
<1>2. /\ item \in Item /\ item.generation = gate /\ item.kind = kind
      /\ kind \in MediaKinds <=> kind \in Boundaries
      /\ kind # "audio" /\ kind # "abort"
  BY <1>1 DEF TypeOK, Item, Kinds, MediaKinds
<1>3. /\ UNCHANGED <<aborting, generation, gate, state, running, closing,
                     client, tx, worker, holder, link, boundary, drops>>
      /\ items' = items + 1
  BY DEF SendText, shutdown, network
<1>4. CASE /\ Enqueue(item)
           /\ mediaOpen' = IF kind \in Boundaries THEN kind = "start" ELSE mediaOpen
           /\ capturing' = IF kind \in Boundaries THEN kind = "start" ELSE capturing
           /\ UNCHANGED <<turn, bumped>>
  <2>1. /\ QueueTypes' /\ PoolInv' /\ LanesInv'
        /\ AllOf(media, gate)' /\ AllOf(control, gate)'
        /\ kind \in Boundaries => control' = control /\ media' = Append(media, item)
        /\ kind \notin Boundaries => media' = media /\ control' = Append(control, item)
    BY <1>2, <1>3, <1>4, EnqueueFacts
  <2>2. /\ media \in Seq(Item) /\ Len(media) \in Nat
        /\ media = <<>> <=> Len(media) = 0
        /\ control \in Seq(Item) /\ Len(control) \in Nat
    BY EmptyFacts DEF TypeOK
  <2>3. mediaOpen' \in BOOLEAN /\ capturing' \in BOOLEAN
    BY <1>4 DEF TypeOK
  <2>4. TypeOK'
    BY <1>3, <1>4, <2>1, <2>3 DEF TypeOK, QueueTypes
  <2>5. GenInv' /\ CloseInv'
    BY <1>1, <1>3, <1>4, <2>1 DEF GenInv, Unpublished, CloseInv, Callers
  <2>6. CASE kind \in Boundaries
    <3>1. /\ media' # <<>>
          /\ Len(media') = Len(media) + 1
          /\ \A i \in 1 .. Len(media) : media'[i] = media[i]
          /\ media'[Len(media) + 1].kind = kind
      BY <1>2, <2>1, <2>2, <2>6, AppendProperties
    <3>2. capturing' /\ mediaOpen' => kind = "start"
      BY <1>4, <2>6
    <3>3. FifoInv'
      <4>1. ASSUME NEW i \in 1 .. Len(media') - 1, media'[i + 1].kind = "audio"
            PROVE  media'[i].kind # "stop"
        <5>1. i # Len(media)
          BY <1>2, <2>2, <3>1, <4>1
        <5>2. i \in 1 .. Len(media) - 1 /\ i + 1 \in 1 .. Len(media)
          BY <2>2, <3>1, <5>1
        <5> QED
          BY <3>1, <4>1, <5>2 DEF FifoInv
      <4>2. capturing' /\ mediaOpen' => media'[Len(media')].kind # "stop"
        BY <3>1, <3>2
      <4> QED
        BY <4>1, <4>2 DEF FifoInv
    <3>4. QuietInv'
      BY <1>1, <1>3, <1>4, <2>6 DEF QuietInv
    <3>5. AudioIsNext' => AudioIsNext
      BY <1>2, <2>2, <3>1 DEF AudioIsNext
    <3>6. FrameInv'
      BY <1>3, <2>1, <2>6, <3>5 DEF FrameInv, HandFramed, CurrentMedia, AbortQueued,
         AbortInHand
    <3> QED
      BY <2>1, <2>4, <2>5, <3>3, <3>4, <3>6
  <2>7. CASE kind \notin Boundaries
    <3>1. UNCHANGED <<media, mediaOpen, capturing>>
      BY <1>4, <2>1, <2>7
    <3>2. /\ Len(control') = Len(control) + 1
          /\ \A i \in 1 .. Len(control) : control'[i] = control[i]
          /\ control'[Len(control) + 1].kind = kind
      BY <1>2, <2>1, <2>2, <2>7, AppendProperties
    <3>3. AbortQueued' => AbortQueued
      BY <1>2, <2>2, <3>2 DEF AbortQueued
    <3>4. FifoInv' /\ QuietInv'
      BY <1>3, <1>4, <3>1 DEF FifoInv, QuietInv, CurrentMedia
    <3>5. FrameInv'
      BY <1>3, <3>1, <3>3 DEF FrameInv, HandFramed, CurrentMedia, AbortInHand, AudioIsNext
    <3> QED
      BY <2>1, <2>4, <2>5, <3>4, <3>5
  <2> QED
    BY <2>6, <2>7
<1>5. CASE UNCHANGED <<media, control, used, mediaOpen, turn, capturing, bumped>>
  BY <1>3, <1>5 DEF TypeOK, PoolInv, PoolIsExact, GenInv, Unpublished, AllOf, CloseInv,
     HaveExited, LanesInv, AllIn, FifoInv, QuietInv, CurrentMedia, FrameInv,
     HandFramed, AbortQueued, AbortInHand, AudioIsNext
<1>6. CASE /\ kind = "stop"
           /\ mediaOpen' = mediaOpen \/ mediaOpen' = FALSE
           /\ turn' = turn + 1
           /\ bumped' = [bumped EXCEPT ![c] = turn + 1]
           /\ capturing' = FALSE
           /\ UNCHANGED <<media, control, used>>
  <2>1. c = "session" /\ bumped["session"] = 0 /\ ~aborting
    BY <1>1, <1>6 DEF Boundaries
  <2>2. bumped' \in [Callers -> Nat] /\ turn' \in Nat
    BY <1>6 DEF TypeOK
  <2>3. mediaOpen' \in BOOLEAN /\ capturing' \in BOOLEAN
    BY <1>6, Zenon DEF TypeOK
  <2>4. UNCHANGED <<media, control, used>> /\ items' \in Nat
    BY <1>3, <1>6 DEF TypeOK
  <2>5. /\ bumped'["session"] = turn + 1
        /\ bumped'["worker"] = bumped["worker"]
    BY <1>6, <2>1 DEF TypeOK, Callers
  <2>6. TypeOK'
    BY <1>3, <2>2, <2>3, <2>4 DEF TypeOK
  <2>7. PoolInv' /\ CloseInv' /\ LanesInv' /\ FifoInv'
    BY <1>1, <1>3, <1>6 DEF PoolInv, PoolIsExact, CloseInv, HaveExited, LanesInv,
       AllIn, FifoInv
  <2>8. GenInv'
    BY <1>1, <1>3, <1>6, <2>5 DEF GenInv, Unpublished, AllOf, TypeOK, Callers, Item, NoItem
  <2>9. QuietInv' /\ FrameInv'
    BY <1>1, <1>3, <1>6, <2>1 DEF QuietInv, FrameInv, HandFramed, CurrentMedia, AbortQueued,
       AbortInHand, AudioIsNext
  <2> QED
    BY <2>6, <2>7, <2>8, <2>9
<1>7. \/ /\ Enqueue(item)
         /\ mediaOpen' = IF kind \in Boundaries THEN kind = "start" ELSE mediaOpen
         /\ capturing' = IF kind \in Boundaries THEN kind = "start" ELSE capturing
         /\ UNCHANGED <<turn, bumped>>
      \/ UNCHANGED <<media, control, used, mediaOpen, turn, capturing, bumped>>
      \/ /\ kind = "stop"
         /\ mediaOpen' = mediaOpen \/ mediaOpen' = FALSE
         /\ turn' = turn + 1
         /\ bumped' = [bumped EXCEPT ![c] = turn + 1]
         /\ capturing' = FALSE
         /\ UNCHANGED <<media, control, used>>
  BY DEF SendText, Refused, queues
<1> QED
  BY <1>4, <1>5, <1>6, <1>7

\* The abort enters the control lane of a session that does not capture, with
\* nothing of a turn left in the media lane or in TxLoop's hand.
LEMMA AbortStep ==
    ASSUME IInv, Abort
    PROVE  IInv'
<1> DEFINE item == [kind |-> "abort", generation |-> generation]
<1> USE DEF IInv
<1>1. /\ aborting /\ holder = "nobody" /\ generation = gate
      /\ media = <<>> /\ ~capturing /\ ~CurrentMedia
  BY DEF Abort, GenInv, Callers, QuietInv
<1>2. /\ item \in Item /\ item.generation = gate /\ item.kind = "abort"
      /\ item.kind \notin MediaKinds
  BY <1>1 DEF TypeOK, Item, Kinds, MediaKinds, Boundaries
<1>3. /\ UNCHANGED <<turn, capturing, bumped, generation, gate, state, running,
                     closing, client, tx, worker, holder, link, boundary,
                     drops, items>>
  BY DEF Abort, shutdown, network
<1>4. ~aborting' /\ aborting' \in BOOLEAN
  BY Zenon DEF Abort
<1>5. CASE Accepts /\ Enqueue(item) /\ mediaOpen' = FALSE
  <2>1. /\ QueueTypes' /\ PoolInv' /\ LanesInv'
        /\ AllOf(media, gate)' /\ AllOf(control, gate)'
        /\ media' = media
    BY <1>2, <1>3, <1>5, EnqueueFacts
  <2>2. mediaOpen' \in BOOLEAN
    BY <1>5, Zenon
  <2>3. TypeOK'
    BY <1>3, <1>4, <2>1, <2>2 DEF TypeOK, QueueTypes
  <2>4. GenInv' /\ CloseInv'
    BY <1>3, <1>5, <2>1 DEF GenInv, Unpublished, CloseInv, Accepts
  <2>5. FifoInv' /\ QuietInv'
    BY <1>1, <1>3, <1>4, <2>1 DEF FifoInv, QuietInv, CurrentMedia
  <2>6. ~AudioIsNext' /\ ~CurrentMedia'
    BY <1>1, <1>3, <2>1 DEF AudioIsNext, CurrentMedia
  <2>7. FrameInv'
    BY <2>6 DEF FrameInv
  <2> QED
    BY <2>1, <2>4, <2>5, <2>7, <2>3
<1>6. CASE UNCHANGED <<media, control, used, mediaOpen>>
  <2>1. TypeOK'
    BY <1>3, <1>4, <1>6 DEF TypeOK
  <2>2. PoolInv' /\ GenInv' /\ CloseInv' /\ LanesInv'
    BY <1>3, <1>6 DEF PoolInv, PoolIsExact, GenInv, Unpublished, AllOf, CloseInv,
       HaveExited, LanesInv, AllIn
  <2>3. FifoInv' /\ QuietInv' /\ FrameInv'
    BY <1>3, <1>4, <1>6 DEF FifoInv, QuietInv, CurrentMedia, FrameInv, HandFramed,
       AbortQueued, AbortInHand, AudioIsNext
  <2> QED
    BY <2>1, <2>2, <2>3
<1> QED
  BY <1>5, <1>6 DEF Abort, Refused, queues

-----------------------------------------------------------------------------
(* SetGeneration and the session's turns.                                  *)

\* A new turn is newer than everything that is queued, held or published.
LEMMA NextTurnStep ==
    ASSUME IInv, NEW c \in Callers, NextTurn(c)
    PROVE  IInv'
<1> USE DEF IInv
<1>1. /\ holder = "nobody" /\ bumped[c] = 0
      /\ c = "session" => ~aborting
      /\ c = "worker" => worker = "callback"
      /\ turn' = turn + 1
      /\ bumped' = [bumped EXCEPT ![c] = turn + 1]
      /\ UNCHANGED <<aborting, generation, gate, mediaOpen, state, running,
                     closing, client, media, control, used, tx, worker, holder,
                     link, boundary, drops, items>>
  BY DEF NextTurn, MayCall, gates, shutdown, queues, network
<1>2. ~capturing' /\ capturing' \in BOOLEAN
  BY Zenon DEF NextTurn
<1>3. /\ bumped' \in [Callers -> Nat]
      /\ bumped'[c] = turn + 1
      /\ \A d \in Callers \ {c} : bumped'[d] = bumped[d]
  BY <1>1 DEF TypeOK
<1>4. TypeOK'
  BY <1>1, <1>3, <1>2 DEF TypeOK
<1>5. PoolInv' /\ CloseInv' /\ LanesInv' /\ FifoInv'
  BY <1>1, <1>2 DEF PoolInv, PoolIsExact, CloseInv, HaveExited, LanesInv, AllIn, FifoInv
<1>6. GenInv'
  <2>1. CASE c = "session"
    <3>1. bumped'["session"] = turn + 1 /\ bumped'["worker"] = bumped["worker"]
      BY <1>3, <2>1 DEF Callers
    <3> QED
      BY <1>1, <2>1, <3>1 DEF GenInv, Unpublished, AllOf, TypeOK, Callers, Item, NoItem
  <2>2. CASE c = "worker"
    <3>1. bumped'["worker"] = turn + 1 /\ bumped'["session"] = bumped["session"]
      BY <1>3, <2>2 DEF Callers
    <3> QED
      BY <1>1, <2>2, <3>1 DEF GenInv, Unpublished, AllOf, TypeOK, Callers, Item, NoItem
  <2> QED
    BY <2>1, <2>2 DEF Callers
<1>7. QuietInv' /\ FrameInv'
  BY <1>1, <1>3, <1>2 DEF QuietInv, FrameInv, HandFramed, CurrentMedia, AbortQueued,
     AbortInHand, AudioIsNext, Callers
<1> QED
  BY <1>4, <1>5, <1>6, <1>7

\* Publishing a generation closes the media gate under the lock.
LEMMA PublishGenerationStep ==
    ASSUME IInv, NEW c \in Callers, PublishGeneration(c)
    PROVE  IInv'
<1> USE DEF IInv
<1>1. /\ holder = "nobody" /\ bumped[c] # 0
      /\ holder' = c /\ generation' = bumped[c]
      /\ UNCHANGED <<turn, capturing, bumped, aborting, gate, state, running,
                     closing, client, media, control, used, tx, worker, link,
                     boundary, drops, items>>
  BY DEF PublishGeneration, turns, shutdown, queues, network
<1>2. ~mediaOpen' /\ mediaOpen' \in BOOLEAN
  BY Zenon DEF PublishGeneration
<1>3. TypeOK'
  BY <1>1, <1>2 DEF TypeOK
<1>4. PoolInv' /\ CloseInv' /\ LanesInv' /\ FifoInv'
  BY <1>1, <1>2 DEF PoolInv, PoolIsExact, CloseInv, HaveExited, LanesInv, AllIn, FifoInv
<1>5. GenInv'
  BY <1>1, <1>2 DEF GenInv, Unpublished, AllOf, TypeOK, Callers, Item, NoItem
<1>6. QuietInv' /\ FrameInv'
  BY <1>1, <1>2 DEF QuietInv, FrameInv, HandFramed, CurrentMedia, AbortQueued, AbortInHand,
     AudioIsNext
<1> QED
  BY <1>3, <1>4, <1>5, <1>6

\* The gate advances over empty queues; what TxLoop holds becomes stale.
LEMMA AdvanceGateStep ==
    ASSUME IInv, NEW c \in Callers, AdvanceGate(c)
    PROVE  IInv'
<1> USE DEF IInv
<1>1. /\ holder = c /\ bumped[c] # 0 /\ tx.at # "writing"
      /\ gate' = bumped[c]
      /\ media' = <<>> /\ control' = <<>>
      /\ used' = used - Len(media) - Len(control)
      /\ bumped' = [bumped EXCEPT ![c] = 0]
      /\ holder' = "nobody"
      /\ UNCHANGED <<turn, capturing, generation, mediaOpen, state, running,
                     closing, client, tx, worker, link, boundary, drops, items>>
  BY DEF AdvanceGate, GateIsFree, shutdown, network
<1>2. aborting' \in BOOLEAN /\ (aborting' => aborting \/ c = "session")
  BY Zenon DEF AdvanceGate, TypeOK
<1>3. /\ bumped' \in [Callers -> Nat] /\ bumped[c] \in Nat
      /\ bumped'[c] = 0
      /\ \A d \in Callers \ {c} : bumped'[d] = bumped[d]
  BY <1>1 DEF TypeOK
<1>4. /\ generation = bumped[c] /\ ~mediaOpen /\ tx.item.generation # bumped[c]
      /\ bumped[c] <= turn
  BY <1>1 DEF GenInv, Unpublished
<1>5. /\ media' \in Seq(Item) /\ Len(media') = 0
      /\ control' \in Seq(Item) /\ Len(control') = 0
      /\ Len(media) \in Nat /\ Len(control) \in Nat
  BY <1>1, EmptyFacts DEF TypeOK
<1>6. PoolInv' /\ used' \in 0 .. PoolSize
  BY <1>1, <1>5, BoundsAssumption DEF PoolInv, PoolIsExact, TypeOK
<1>7. TypeOK'
  BY <1>1, <1>2, <1>3, <1>5, <1>6, BoundsAssumption DEF TypeOK
<1>8. CloseInv' /\ LanesInv' /\ FifoInv'
  BY <1>1, <1>5 DEF CloseInv, HaveExited, LanesInv, AllIn, FifoInv, Callers
<1>9. GenInv'
  BY <1>1, <1>3, <1>4, <1>5 DEF GenInv, Unpublished, AllOf, TypeOK, Callers, Item, NoItem
<1>10. ~CurrentMedia' /\ ~AudioIsNext' /\ ~AbortQueued'
  BY <1>1, <1>4, <1>5 DEF CurrentMedia, AudioIsNext, AbortQueued
<1>11. QuietInv' /\ FrameInv'
  BY <1>1, <1>2, <1>3, <1>10 DEF QuietInv, FrameInv, Callers
<1> QED
  BY <1>6, <1>7, <1>8, <1>9, <1>11

-----------------------------------------------------------------------------
(* TxLoop.                                                                 *)

\* TxLoop with empty hands holds no item of the media lane and no abort.
LEMMA EmptyHand ==
    /\ NoItem.kind \notin MediaKinds /\ NoItem.kind # "abort"
    /\ NoItem.generation = 0
BY DEF NoItem, MediaKinds, Boundaries

\* Control goes first: an abort is in hand before any audio behind it is.
LEMMA TakeControlStep ==
    ASSUME IInv, tx.at = "loop", control # <<>>,
           tx' = [at |-> "hand", item |-> Head(control)],
           control' = Tail(control),
           UNCHANGED <<turn, capturing, bumped, aborting, generation, gate,
                       mediaOpen, state, running, closing, client, media, used,
                       worker, holder, link, boundary, drops, items>>
    PROVE  IInv'
<1> USE DEF IInv
<1>1. /\ control \in Seq(Item) /\ Len(control) \in Nat /\ Len(control) >= 1
      /\ Head(control) = control[1] /\ control[1] \in Item
      /\ control' \in Seq(Item) /\ Len(control') = Len(control) - 1
      /\ \A i \in 1 .. Len(control) - 1 : control'[i] = control[i + 1]
  BY TailFacts, EmptyFacts DEF TypeOK
<1>2. /\ tx'.at = "hand" /\ tx'.item = control[1]
      /\ control[1].generation = gate
      /\ control[1].kind \in {"detect", "mcp", "abort"}
  BY <1>1 DEF GenInv, AllOf, LanesInv, AllIn
<1>3. tx.item = NoItem /\ control[1] # NoItem
  <2>1. tx.item = NoItem
    BY DEF PoolInv
  <2>2. control[1].kind # NoItem.kind
    BY <1>2 DEF NoItem
  <2> QED
    BY <2>1, <2>2
<1>4. TypeOK'
  BY <1>1, BoundsAssumption DEF TypeOK
<1>5. PoolInv'
  BY <1>1, <1>2, <1>3 DEF PoolInv, PoolIsExact, TypeOK
<1>6. GenInv'
  BY <1>1, <1>2 DEF GenInv, Unpublished, AllOf, TypeOK
<1>7. CloseInv' /\ LanesInv' /\ FifoInv'
  BY <1>1, <1>2 DEF CloseInv, HaveExited, LanesInv, AllIn, FifoInv
<1>8. ~CurrentMedia /\ ~CurrentMedia'
  BY <1>2, <1>3, EmptyHand DEF CurrentMedia, MediaKinds, Boundaries
<1>9. QuietInv'
  BY <1>8 DEF QuietInv
<1>10. AbortQueued' \/ AbortInHand' => AbortQueued
  BY <1>1, <1>2 DEF AbortQueued, AbortInHand
<1>11. (AudioIsNext' => AudioIsNext) /\ (HandFramed => HandFramed')
  BY <1>8 DEF AudioIsNext, HandFramed
<1>12. FrameInv'
  BY <1>8, <1>10, <1>11 DEF FrameInv
<1> QED
  BY <1>4, <1>5, <1>6, <1>7, <1>9, <1>12

\* The first item of the media lane is the one the next may follow.
LEMMA TakeMediaStep ==
    ASSUME IInv, tx.at = "loop", control = <<>>, media # <<>>,
           tx' = [at |-> "hand", item |-> Head(media)],
           media' = Tail(media),
           UNCHANGED <<turn, capturing, bumped, aborting, generation, gate,
                       mediaOpen, state, running, closing, client, control, used,
                       worker, holder, link, boundary, drops, items>>
    PROVE  IInv'
<1> USE DEF IInv
<1>1. /\ media \in Seq(Item) /\ Len(media) \in Nat /\ Len(media) >= 1
      /\ Head(media) = media[1] /\ media[1] \in Item
      /\ media' \in Seq(Item) /\ Len(media') = Len(media) - 1
      /\ \A i \in 1 .. Len(media) - 1 : media'[i] = media[i + 1]
      /\ media' = <<>> <=> Len(media) = 1
  <2>1. /\ media \in Seq(Item) /\ Len(media) \in Nat /\ Len(media) >= 1
        /\ Head(media) = media[1] /\ media[1] \in Item
        /\ media' \in Seq(Item) /\ Len(media') = Len(media) - 1
        /\ \A i \in 1 .. Len(media) - 1 : media'[i] = media[i + 1]
    BY TailFacts, EmptyFacts DEF TypeOK
  <2>2. media' = <<>> <=> Len(media') = 0
    BY <2>1, EmptyFacts
  <2> QED
    BY <2>1, <2>2
<1>2. /\ tx'.at = "hand" /\ tx'.item = media[1]
      /\ media[1].generation = gate /\ media[1].kind \in MediaKinds
  BY <1>1 DEF GenInv, AllOf, LanesInv, AllIn
<1>3. tx.item = NoItem /\ media[1] # NoItem
  <2>1. tx.item = NoItem
    BY DEF PoolInv
  <2>2. media[1].kind # NoItem.kind
    BY <1>2, EmptyHand
  <2> QED
    BY <2>1, <2>2
<1>4. TypeOK'
  BY <1>1, BoundsAssumption DEF TypeOK
<1>5. PoolInv'
  BY <1>1, <1>2, <1>3 DEF PoolInv, PoolIsExact, TypeOK
<1>6. GenInv'
  BY <1>1, <1>2 DEF GenInv, Unpublished, AllOf, TypeOK
<1>7. CloseInv' /\ LanesInv'
  BY <1>1, <1>2 DEF CloseInv, HaveExited, LanesInv, AllIn
<1>8. FifoInv'
  <2>1. ASSUME NEW i \in 1 .. Len(media') - 1, media'[i + 1].kind = "audio"
        PROVE  media'[i].kind # "stop"
    <3>1. i + 1 \in 1 .. Len(media) - 1
      BY <1>1
    <3>2. media'[i] = media[i + 1] /\ media'[i + 1] = media[(i + 1) + 1]
      BY <1>1, <3>1
    <3> QED
      BY <2>1, <3>1, <3>2 DEF FifoInv
  <2>2. capturing' /\ mediaOpen' /\ media' # <<>> => media'[Len(media')].kind # "stop"
    BY <1>1 DEF FifoInv
  <2> QED
    BY <2>1, <2>2 DEF FifoInv
<1>9. ~CurrentMedia /\ CurrentMedia' /\ ~AbortInHand' /\ ~AbortQueued'
  <2>1. ~CurrentMedia /\ CurrentMedia'
    BY <1>2, <1>3, EmptyHand DEF CurrentMedia
  <2>2. ~AbortInHand'
    BY <1>2 DEF AbortInHand, MediaKinds, Boundaries
  <2>3. ~AbortQueued'
    BY EmptyFacts DEF AbortQueued
  <2> QED
    BY <2>1, <2>2, <2>3
<1>10. QuietInv'
  BY DEF QuietInv
<1>11. AudioIsNext' => media[1].kind # "stop"
  <2>1. CASE media' = <<>>
    BY <1>1, <2>1 DEF AudioIsNext, FifoInv
  <2>2. CASE media' # <<>>
    <3>1. 1 \in 1 .. Len(media) - 1 /\ media'[1] = media[1 + 1]
      BY <1>1, <2>2
    <3> QED
      BY <2>2, <3>1 DEF AudioIsNext, FifoInv
  <2> QED
    BY <2>1, <2>2
<1>12. AudioIsNext' => HandFramed'
  BY <1>2, <1>9, <1>11 DEF HandFramed
<1>13. media[1].kind = "audio" /\ link = "up"
         => boundary = [kind |-> "start", generation |-> gate]
  BY <1>9 DEF FrameInv, AudioIsNext, HandFramed
<1>14. FrameInv'
  BY <1>2, <1>9, <1>12, <1>13 DEF FrameInv
<1> QED
  BY <1>4, <1>5, <1>6, <1>7, <1>8, <1>10, <1>14

\* A stale item goes back to the pool, a current one is written.
LEMMA SendIfCurrentStep ==
    ASSUME IInv, SendIfCurrent
    PROVE  IInv'
<1> USE DEF IInv
<1>1. /\ tx.at = "hand" /\ tx.item # NoItem
      /\ UNCHANGED <<turn, capturing, bumped, aborting, generation, gate,
                     mediaOpen, state, running, closing, client, media, control,
                     worker, holder, link, boundary, drops, items>>
  BY DEF SendIfCurrent, PoolInv, turns, gates, shutdown, network
<1>2. CASE tx.item.generation = gate
  <2>1. used' = used /\ tx' = [tx EXCEPT !.at = "writing"]
    BY <1>2 DEF SendIfCurrent
  <2>2. tx'.at = "writing" /\ tx'.item = tx.item
    BY <2>1 DEF TypeOK
  <2>3. TypeOK'
    BY <1>1, <2>1 DEF TypeOK
  <2>4. PoolInv' /\ GenInv' /\ CloseInv'
    BY <1>1, <1>2, <2>1, <2>2 DEF PoolInv, PoolIsExact, GenInv, Unpublished, AllOf,
       CloseInv, HaveExited
  <2>5. LanesInv' /\ FifoInv' /\ QuietInv' /\ FrameInv'
    BY <1>1, <2>2 DEF LanesInv, AllIn, FifoInv, QuietInv, CurrentMedia, FrameInv,
       HandFramed, AbortQueued, AbortInHand, AudioIsNext
  <2> QED
    BY <2>3, <2>4, <2>5
<1>3. CASE tx.item.generation # gate
  <2>1. used' = used - 1 /\ tx' = [at |-> "loop", item |-> NoItem]
    BY <1>3 DEF SendIfCurrent
  <2>2. tx'.at = "loop" /\ tx'.item = NoItem
    BY <2>1
  <2>3. Len(media) \in Nat /\ Len(control) \in Nat
    BY EmptyFacts DEF TypeOK
  <2>4. PoolInv' /\ used' \in 0 .. PoolSize
    BY <1>1, <2>1, <2>2, <2>3, BoundsAssumption DEF PoolInv, PoolIsExact, TypeOK
  <2>5. TypeOK'
    BY <1>1, <2>1, <2>4 DEF TypeOK
  <2>6. GenInv' /\ CloseInv'
    BY <1>1, <2>2, EmptyHand DEF GenInv, Unpublished, AllOf, CloseInv, HaveExited, TypeOK
  <2>7. ~CurrentMedia /\ ~CurrentMedia' /\ ~AbortInHand'
    BY <1>3, <2>2, EmptyHand DEF CurrentMedia, AbortInHand
  <2>8. LanesInv' /\ FifoInv' /\ QuietInv' /\ FrameInv'
    BY <1>1, <2>7 DEF LanesInv, AllIn, FifoInv, QuietInv, FrameInv, HandFramed,
       AbortQueued, AudioIsNext
  <2> QED
    BY <2>4, <2>5, <2>6, <2>8
<1> QED
  BY <1>2, <1>3

\* A boundary that was written is what the server has read last; a write that
\* fails takes the backlog with it.
LEMMA EndWriteStep ==
    ASSUME IInv, EndWrite
    PROVE  IInv'
<1> USE DEF IInv
<1>1. /\ tx.at = "writing" /\ tx.item # NoItem /\ tx.item.generation = gate
      /\ tx'.at = "loop" /\ tx'.item = NoItem
      /\ tx' = [at |-> "loop", item |-> NoItem]
      /\ UNCHANGED <<turn, capturing, bumped, aborting, generation, gate,
                     mediaOpen, state, running, closing, client,
                     worker, holder, link, drops, items>>
  BY DEF EndWrite, PoolInv, GenInv, turns, gates, shutdown, network
<1>2. Len(media) \in Nat /\ Len(control) \in Nat
  BY EmptyFacts DEF TypeOK
<1>3. ~CurrentMedia' /\ ~AbortInHand'
  BY <1>1, EmptyHand DEF CurrentMedia, AbortInHand
<1>4. tx.item \in Item
  BY <1>1 DEF TypeOK
<1>5. CASE /\ link = "up"
           /\ boundary' = IF tx.item.kind \in Boundaries \cup {"abort"}
                          THEN tx.item ELSE boundary
           /\ used' = used - 1
           /\ UNCHANGED <<media, control>>
  <2>1. PoolInv' /\ used' \in 0 .. PoolSize
    BY <1>1, <1>2, <1>5, BoundsAssumption DEF PoolInv, PoolIsExact, TypeOK
  <2>2. boundary' \in Item \cup {NoItem}
    BY <1>4, <1>5 DEF TypeOK
  <2>3. TypeOK'
    BY <1>1, <1>5, <2>1, <2>2 DEF TypeOK
  <2>4. GenInv' /\ CloseInv'
    BY <1>1, <1>5, EmptyHand DEF GenInv, Unpublished, AllOf, CloseInv, HaveExited, TypeOK
  <2>5. LanesInv' /\ FifoInv' /\ QuietInv'
    BY <1>1, <1>3, <1>5 DEF LanesInv, AllIn, FifoInv, QuietInv
  <2>6. (AudioIsNext' => AudioIsNext) /\ (AbortQueued' => AbortQueued)
    BY <1>1, <1>5 DEF AudioIsNext, AbortQueued
  <2>7. ASSUME AudioIsNext
        PROVE  boundary' = [kind |-> "start", generation |-> gate]
    <3>1. HandFramed /\ ~AbortInHand
      BY <2>7 DEF FrameInv
    <3>2. CASE tx.item.kind \in MediaKinds
      <4>1. CurrentMedia /\ tx.item.kind # "stop"
        BY <1>1, <3>1, <3>2 DEF CurrentMedia, HandFramed
      <4>2. CASE tx.item.kind = "audio"
        BY <1>5, <4>1, <4>2 DEF FrameInv, Boundaries
      <4>3. CASE tx.item.kind = "start"
        <5>1. tx.item = [kind |-> "start", generation |-> gate]
          BY <1>1, <1>4, <4>3 DEF Item
        <5> QED
          BY <1>5, <4>3, <5>1 DEF Boundaries
      <4> QED
        BY <3>2, <4>1, <4>2, <4>3 DEF MediaKinds, Boundaries
    <3>3. CASE tx.item.kind \notin MediaKinds
      <4>1. boundary = [kind |-> "start", generation |-> gate]
        BY <1>5, <3>1, <3>3 DEF HandFramed, CurrentMedia
      <4>2. tx.item.kind # "abort"
        BY <1>1, <3>1 DEF AbortInHand
      <4> QED
        BY <1>5, <3>3, <4>1, <4>2 DEF MediaKinds
    <3> QED
      BY <3>2, <3>3
  <2>8. FrameInv'
    BY <1>1, <1>3, <2>6, <2>7 DEF FrameInv, HandFramed
  <2> QED
    BY <2>1, <2>3, <2>4, <2>5, <2>8
<1>6. CASE /\ link = "down"
           /\ media' = <<>> /\ control' = <<>>
           /\ used' = used - Discarded
           /\ UNCHANGED boundary
  <2>1. /\ media' \in Seq(Item) /\ Len(media') = 0
        /\ control' \in Seq(Item) /\ Len(control') = 0
    BY <1>6, EmptyFacts
  <2>2. PoolInv' /\ used' \in 0 .. PoolSize
    BY <1>1, <1>2, <1>6, <2>1, BoundsAssumption DEF PoolInv, PoolIsExact, TypeOK, Discarded
  <2>3. TypeOK'
    BY <1>1, <1>6, <2>1, <2>2, BoundsAssumption DEF TypeOK
  <2>4. GenInv' /\ CloseInv'
    BY <1>1, <1>6, <2>1, EmptyHand DEF GenInv, Unpublished, AllOf, CloseInv, HaveExited,
       TypeOK
  <2>5. LanesInv' /\ FifoInv' /\ QuietInv'
    BY <1>1, <1>3, <1>6, <2>1 DEF LanesInv, AllIn, FifoInv, QuietInv
  <2>6. FrameInv'
    BY <1>1, <1>3, <1>6, <2>1 DEF FrameInv, HandFramed, AbortQueued
  <2> QED
    BY <2>2, <2>3, <2>4, <2>5, <2>6
<1> QED
  BY <1>5, <1>6 DEF EndWrite

\* TxLoop goes with empty hands.
LEMMA TxExitStep ==
    ASSUME IInv, TxExit
    PROVE  IInv'
<1> USE DEF IInv
<1>1. /\ tx.at = "loop" /\ tx' = [tx EXCEPT !.at = "exited"]
      /\ UNCHANGED <<turn, capturing, bumped, aborting, generation, gate,
                     mediaOpen, state, running, closing, client, media, control,
                     used, worker, holder, link, boundary, drops, items>>
  BY DEF TxExit, turns, gates, shutdown, queues, network
<1>2. tx'.at = "exited" /\ tx'.item = tx.item
  BY <1>1 DEF TypeOK
<1>3. TypeOK'
  BY <1>1 DEF TypeOK
<1>4. PoolInv' /\ GenInv' /\ CloseInv'
  BY <1>1, <1>2 DEF PoolInv, PoolIsExact, GenInv, Unpublished, AllOf, CloseInv, HaveExited
<1>5. LanesInv' /\ FifoInv' /\ QuietInv' /\ FrameInv'
  BY <1>1, <1>2 DEF LanesInv, AllIn, FifoInv, QuietInv, CurrentMedia, FrameInv,
     HandFramed, AbortQueued, AbortInHand, AudioIsNext
<1> QED
  BY <1>3, <1>4, <1>5

-----------------------------------------------------------------------------
(* The network, the receive worker and Close.                              *)

\* What a step leaves alone that moves no item and no generation.
Still ==
    UNCHANGED <<turn, capturing, bumped, aborting, generation, gate, media,
                control, used, tx, items>>

\* A lost connection forgets its boundary.
LEMMA LinkDownStep ==
    ASSUME IInv, LinkDown
    PROVE  IInv'
<1> USE DEF IInv
<1>1. /\ link' = "down" /\ boundary' = NoItem /\ drops' = drops + 1
      /\ Still /\ UNCHANGED <<mediaOpen, state, running, closing, client, worker, holder>>
  BY DEF LinkDown, Still, turns, gates, shutdown, queues
<1>2. TypeOK'
  BY <1>1 DEF TypeOK, Still
<1>3. PoolInv' /\ GenInv' /\ CloseInv'
  BY <1>1 DEF Still, PoolInv, PoolIsExact, GenInv, Unpublished, AllOf, CloseInv, HaveExited
<1>4. LanesInv' /\ FifoInv' /\ QuietInv' /\ FrameInv'
  BY <1>1 DEF Still, LanesInv, AllIn, FifoInv, QuietInv, CurrentMedia, FrameInv,
     HandFramed, AbortQueued, AbortInHand, AudioIsNext
<1> QED
  BY <1>2, <1>3, <1>4

\* An error changes the state only.
LEMMA WorkerSeesErrorStep ==
    ASSUME IInv, WorkerSeesError
    PROVE  IInv'
<1> USE DEF IInv
<1>1. /\ worker = "loop" /\ worker' = "callback" /\ state' = "failed"
      /\ Still
      /\ UNCHANGED <<mediaOpen, running, closing, client, holder, link, boundary, drops>>
  BY DEF WorkerSeesError, Still, turns, gates, queues, network
<1>2. TypeOK'
  BY <1>1 DEF TypeOK, Still
<1>3. PoolInv' /\ GenInv' /\ CloseInv'
  BY <1>1 DEF Still, PoolInv, PoolIsExact, GenInv, Unpublished, AllOf, CloseInv, HaveExited
<1>4. LanesInv' /\ FifoInv' /\ QuietInv' /\ FrameInv'
  BY <1>1 DEF Still, LanesInv, AllIn, FifoInv, QuietInv, CurrentMedia, FrameInv,
     HandFramed, AbortQueued, AbortInHand, AudioIsNext
<1> QED
  BY <1>2, <1>3, <1>4

\* A loss begins a new turn, without the lock, before anybody may reconnect.
LEMMA WorkerSeesLossStep ==
    ASSUME IInv, WorkerSeesLoss
    PROVE  IInv'
<1> USE DEF IInv
<1>1. /\ worker = "loop" /\ worker' = "callback" /\ state' = "reconnecting"
      /\ turn' = turn + 1
      /\ bumped' = [bumped EXCEPT !["worker"] = turn + 1]
      /\ UNCHANGED <<aborting, generation, gate, mediaOpen, running, closing,
                     client, media, control, used, tx, holder, link, boundary,
                     drops, items>>
  BY DEF WorkerSeesLoss, gates, queues, network
<1>2. ~capturing' /\ capturing' \in BOOLEAN
  BY Zenon DEF WorkerSeesLoss
<1>3. /\ bumped' \in [Callers -> Nat] /\ turn' \in Nat
      /\ bumped'["worker"] = turn + 1
      /\ bumped'["session"] = bumped["session"]
  BY <1>1 DEF TypeOK, Callers
<1>4. TypeOK'
  BY <1>1, <1>2, <1>3 DEF TypeOK
<1>5. PoolInv' /\ CloseInv' /\ LanesInv' /\ FifoInv'
  BY <1>1, <1>2 DEF PoolInv, PoolIsExact, CloseInv, HaveExited, LanesInv, AllIn, FifoInv
<1>6. GenInv'
  BY <1>1, <1>3 DEF GenInv, Unpublished, AllOf, TypeOK, Callers, Item, NoItem
<1>7. QuietInv' /\ FrameInv'
  BY <1>1, <1>2, <1>3 DEF QuietInv, FrameInv, HandFramed, CurrentMedia, AbortQueued,
     AbortInHand, AudioIsNext, TypeOK
<1> QED
  BY <1>4, <1>5, <1>6, <1>7

\* A connection is restored only when nothing of the old turn is left.
LEMMA ReconnectStep ==
    ASSUME IInv, Reconnect
    PROVE  IInv'
<1> USE DEF IInv
<1>1. /\ state = "reconnecting" /\ worker = "loop" /\ closing = "no"
      /\ link' = "up" /\ state' = "connected"
      /\ Still
      /\ UNCHANGED <<mediaOpen, running, closing, client, worker, holder, boundary, drops>>
  BY DEF Reconnect, Still, turns, gates, queues
<1>2. ~capturing /\ media = <<>> /\ ~CurrentMedia
  BY <1>1 DEF GenInv, QuietInv
<1>3. TypeOK'
  BY <1>1 DEF TypeOK, Still
<1>4. PoolInv' /\ GenInv' /\ CloseInv'
  BY <1>1 DEF Still, PoolInv, PoolIsExact, GenInv, Unpublished, AllOf, CloseInv, HaveExited
<1>5. LanesInv' /\ FifoInv' /\ QuietInv'
  BY <1>1 DEF Still, LanesInv, AllIn, FifoInv, QuietInv, CurrentMedia
<1>6. ~AudioIsNext' /\ ~CurrentMedia'
  BY <1>1, <1>2 DEF Still, AudioIsNext, CurrentMedia
<1>7. FrameInv'
  BY <1>6 DEF FrameInv
<1> QED
  BY <1>3, <1>4, <1>5, <1>7

\* The worker leaves a callback only when it has passed its generation on.
LEMMA WorkerCallbackStep ==
    ASSUME IInv, WorkerCallback
    PROVE  IInv'
<1> USE DEF IInv
<1>1. /\ worker' \in {"loop", "callback", "exited"}
      /\ worker # "exited"
      /\ worker' # "callback" => worker = "loop" \/ bumped["worker"] = 0
      /\ Still
      /\ UNCHANGED <<mediaOpen, state, running, closing, client, holder, link,
                     boundary, drops>>
  BY DEF WorkerCallback, Still, turns, gates, shutdown, queues, network
<1>2. TypeOK'
  BY <1>1 DEF TypeOK, Still
<1>3. PoolInv' /\ GenInv' /\ CloseInv'
  BY <1>1 DEF Still, PoolInv, PoolIsExact, GenInv, Unpublished, AllOf, CloseInv, HaveExited
<1>4. LanesInv' /\ FifoInv' /\ QuietInv' /\ FrameInv'
  BY <1>1 DEF Still, LanesInv, AllIn, FifoInv, QuietInv, CurrentMedia, FrameInv,
     HandFramed, AbortQueued, AbortInHand, AudioIsNext
<1> QED
  BY <1>2, <1>3, <1>4

\* Close shuts the media gate for good.
LEMMA CloseBeginsStep ==
    ASSUME IInv, CloseBegins
    PROVE  IInv'
<1> USE DEF IInv
<1>1. /\ client = "open" /\ closing' = "begun" /\ state' = "disconnected"
      /\ Still /\ UNCHANGED <<client, worker, holder, link, boundary, drops>>
  BY DEF CloseBegins, Still, turns, queues, network
<1>2. ~mediaOpen' /\ mediaOpen' \in BOOLEAN /\ running' \in BOOLEAN
  BY Zenon DEF CloseBegins
<1>3. TypeOK'
  BY <1>1, <1>2 DEF TypeOK, Still
<1>4. PoolInv' /\ GenInv' /\ CloseInv'
  BY <1>1, <1>2 DEF Still, PoolInv, PoolIsExact, GenInv, Unpublished, AllOf, CloseInv,
     HaveExited
<1>5. LanesInv' /\ FifoInv' /\ QuietInv' /\ FrameInv'
  BY <1>1, <1>2 DEF Still, LanesInv, AllIn, FifoInv, QuietInv, CurrentMedia, FrameInv,
     HandFramed, AbortQueued, AbortInHand, AudioIsNext
<1> QED
  BY <1>3, <1>4, <1>5

\* Stopping the client takes the lock and ends the connection.
LEMMA StopClientStep ==
    ASSUME IInv, StopClient
    PROVE  IInv'
<1> USE DEF IInv
<1>1. /\ closing = "begun" /\ holder = "nobody"
      /\ closing' = "waiting" /\ holder' = "close"
      /\ link' = "down" /\ boundary' = NoItem
      /\ Still /\ UNCHANGED <<mediaOpen, state, running, worker, client, drops>>
  BY DEF StopClient, Still, turns, gates, queues
<1>2. TypeOK'
  BY <1>1 DEF TypeOK, Still
<1>3. PoolInv' /\ GenInv' /\ CloseInv'
  BY <1>1 DEF Still, PoolInv, PoolIsExact, GenInv, Unpublished, AllOf, CloseInv,
     HaveExited, Callers
<1>4. LanesInv' /\ FifoInv' /\ QuietInv' /\ FrameInv'
  BY <1>1 DEF Still, LanesInv, AllIn, FifoInv, QuietInv, CurrentMedia, FrameInv,
     HandFramed, AbortQueued, AbortInHand, AudioIsNext
<1> QED
  BY <1>2, <1>3, <1>4

\* The handle goes when both tasks have gone, and the queues with it.
LEMMA DestroyStep ==
    ASSUME IInv, Destroy
    PROVE  IInv'
<1> USE DEF IInv
<1>1. /\ closing = "waiting" /\ HaveExited
      /\ closing' = "done" /\ holder' = "nobody" /\ client' = "destroyed"
      /\ media' = <<>> /\ control' = <<>>
      /\ used' = used - Len(media) - Len(control)
      /\ UNCHANGED <<turn, capturing, bumped, aborting, generation, gate,
                     mediaOpen, state, running, tx, worker, link, boundary,
                     drops, items>>
  BY DEF Destroy, MayDestroy, turns, gates, network
<1>2. /\ media' \in Seq(Item) /\ Len(media') = 0
      /\ control' \in Seq(Item) /\ Len(control') = 0
      /\ Len(media) \in Nat /\ Len(control) \in Nat
  BY <1>1, EmptyFacts DEF TypeOK
<1>3. PoolInv' /\ used' \in 0 .. PoolSize
  <2>1. tx' = tx /\ used' = used - Len(media) - Len(control)
    BY <1>1
  <2> QED
    BY <1>2, <2>1, BoundsAssumption DEF PoolInv, PoolIsExact, TypeOK
<1>4. TypeOK'
  BY <1>1, <1>2, <1>3, BoundsAssumption DEF TypeOK
<1>5. GenInv' /\ CloseInv'
  BY <1>1, <1>2 DEF GenInv, Unpublished, AllOf, CloseInv, HaveExited, Callers
<1>6. LanesInv' /\ FifoInv' /\ QuietInv'
  BY <1>1, <1>2 DEF LanesInv, AllIn, FifoInv, QuietInv, CurrentMedia
<1>7. tx.item = NoItem
  BY <1>1 DEF PoolInv, HaveExited
<1>8. ~AudioIsNext' /\ ~CurrentMedia'
  BY <1>1, <1>7, EmptyHand DEF AudioIsNext, CurrentMedia, CloseInv
<1>9. FrameInv'
  BY <1>8 DEF FrameInv
<1> QED
  BY <1>3, <1>4, <1>5, <1>6, <1>9

\* A Close that gives up lets the lock go and destroys nothing.
LEMMA GiveUpStep ==
    ASSUME IInv, GiveUp
    PROVE  IInv'
<1> USE DEF IInv
<1>1. /\ closing = "waiting" /\ holder = "close"
      /\ closing' = "gaveUp" /\ holder' = "nobody" /\ state' = "failed"
      /\ Still
      /\ UNCHANGED <<mediaOpen, running, worker, client, link, boundary, drops>>
  BY DEF GiveUp, CloseInv, Still, turns, gates, queues, network
<1>2. TypeOK'
  BY <1>1 DEF TypeOK, Still
<1>3. PoolInv' /\ GenInv' /\ CloseInv'
  BY <1>1 DEF Still, PoolInv, PoolIsExact, GenInv, Unpublished, AllOf, CloseInv,
     HaveExited, Callers
<1>4. LanesInv' /\ FifoInv' /\ QuietInv' /\ FrameInv'
  BY <1>1 DEF Still, LanesInv, AllIn, FifoInv, QuietInv, CurrentMedia, FrameInv,
     HandFramed, AbortQueued, AbortInHand, AudioIsNext
<1> QED
  BY <1>2, <1>3, <1>4

-----------------------------------------------------------------------------
(* The theorems.                                                           *)

\* The transport starts connected, with empty queues and an idle session.
LEMMA InitStep == Init => IInv
<1> SUFFICES ASSUME Init
             PROVE  IInv
  OBVIOUS
<1>1. /\ media \in Seq(Item) /\ Len(media) = 0
      /\ control \in Seq(Item) /\ Len(control) = 0
  BY EmptyFacts DEF Init
<1>2. tx.at = "loop" /\ tx.item = NoItem
  BY DEF Init
<1>3. capturing \in BOOLEAN /\ mediaOpen \in BOOLEAN /\ running \in BOOLEAN
      /\ aborting \in BOOLEAN /\ ~capturing /\ ~aborting /\ ~mediaOpen
  BY Zenon DEF Init
<1>4. TypeOK
  BY <1>1, <1>3, BoundsAssumption DEF Init, TypeOK, Callers
<1>5. PoolInv
  BY <1>1, <1>2 DEF Init, PoolInv, PoolIsExact
<1>6. GenInv /\ CloseInv
  BY <1>1, <1>2, EmptyHand DEF Init, GenInv, Unpublished, AllOf, CloseInv, Callers
<1>7. LanesInv /\ FifoInv /\ QuietInv
  BY <1>1, <1>3 DEF Init, LanesInv, AllIn, FifoInv, QuietInv
<1>8. ~AudioIsNext /\ ~CurrentMedia
  BY <1>2, <1>3, EmptyHand DEF Init, AudioIsNext, CurrentMedia
<1> QED
  BY <1>4, <1>5, <1>6, <1>7, <1>8 DEF IInv, FrameInv

\* A step that changes nothing preserves the invariant.
LEMMA StutterStep == IInv /\ UNCHANGED vars => IInv'
<1> SUFFICES ASSUME IInv, UNCHANGED vars
             PROVE  IInv'
  OBVIOUS
<1> USE DEF IInv, vars
<1>1. TypeOK'
  BY DEF TypeOK
<1>2. PoolInv' /\ GenInv' /\ CloseInv'
  BY DEF PoolInv, PoolIsExact, GenInv, Unpublished, AllOf, CloseInv, HaveExited
<1>3. LanesInv' /\ FifoInv' /\ QuietInv' /\ FrameInv'
  BY DEF LanesInv, AllIn, FifoInv, QuietInv, CurrentMedia, FrameInv, HandFramed,
     AbortQueued, AbortInHand, AudioIsNext
<1> QED
  BY <1>1, <1>2, <1>3

\* Every step of the callers, of TxLoop, of the network, of the receive worker
\* and of Close preserves the inductive invariant.
LEMMA NextStep == IInv /\ Next => IInv'
<1> SUFFICES ASSUME IInv, Next
             PROVE  IInv'
  OBVIOUS
<1>1. CASE SessionText
  <2>1. "session" \in Callers /\ {"start", "stop", "detect"} \subseteq Kinds \ {"audio", "abort"}
    BY DEF Callers, Kinds
  <2> QED
    BY <1>1, <2>1, SendTextStep DEF SessionText
<1>2. CASE WorkerText
  <2>1. /\ "worker" \in Callers /\ "mcp" \in Kinds \ {"audio", "abort"}
        /\ "mcp" \notin Boundaries
    BY DEF Callers, Kinds, Boundaries
  <2> QED
    BY <1>2, <2>1, SendTextStep DEF WorkerText
<1>3. CASE SendAudio
  BY <1>3, SendAudioStep
<1>4. ASSUME NEW c \in Callers, NextTurn(c) \/ PublishGeneration(c) \/ AdvanceGate(c)
      PROVE  IInv'
  BY <1>4, NextTurnStep, PublishGenerationStep, AdvanceGateStep
<1>5. CASE Abort
  BY <1>5, AbortStep
<1>6. CASE TxTake
  <2>1. /\ tx.at = "loop"
        /\ UNCHANGED <<turn, capturing, bumped, aborting, generation, gate,
                       mediaOpen, state, running, closing, client, used,
                       worker, holder, link, boundary, drops, items>>
    BY <1>6 DEF TxTake, turns, gates, shutdown, network
  <2>2. CASE /\ control # <<>>
             /\ tx' = [at |-> "hand", item |-> Head(control)]
             /\ control' = Tail(control)
             /\ UNCHANGED media
    BY <2>1, <2>2, TakeControlStep
  <2>3. CASE /\ control = <<>> /\ media # <<>>
             /\ tx' = [at |-> "hand", item |-> Head(media)]
             /\ media' = Tail(media)
             /\ UNCHANGED control
    BY <2>1, <2>3, TakeMediaStep
  <2> QED
    BY <1>6, <2>2, <2>3 DEF TxTake
<1>7. CASE SendIfCurrent \/ EndWrite \/ TxExit
  BY <1>7, SendIfCurrentStep, EndWriteStep, TxExitStep
<1>8. CASE LinkDown \/ WorkerSeesError \/ WorkerSeesLoss \/ Reconnect \/ WorkerCallback
  BY <1>8, LinkDownStep, WorkerSeesErrorStep, WorkerSeesLossStep, ReconnectStep,
     WorkerCallbackStep
<1>9. CASE Close
  BY <1>9, CloseBeginsStep, StopClientStep, DestroyStep, GiveUpStep DEF Close
<1> QED
  BY <1>1, <1>2, <1>3, <1>4, <1>5, <1>6, <1>7, <1>8, <1>9 DEF Next, TxLoop

\* The inductive invariant holds throughout, for every capacity of the queues
\* and of the pool and every bound of the environment.
THEOREM Inductive == Spec => []IInv
<1>1. Init => IInv
  BY InitStep
<1>2. IInv /\ [Next]_vars => IInv'
  BY NextStep, StutterStep
<1> QED
  BY <1>1, <1>2, PTL DEF Spec

\* Every variable keeps its type, the queues and the pool their capacities.
THEOREM TypeCorrect == Spec => []TypeOK
<1>1. IInv => TypeOK
  BY DEF IInv
<1> QED
  BY <1>1, Inductive, PTL

\* However callers, TxLoop and the network interleave: once SetGeneration has
\* returned, what TxLoop writes is of the new generation (SendIfCurrent, the
\* generation gate).
THEOREM NothingStaleIsWritten == Spec => []StaleItemIsNotWritten
<1>1. IInv => StaleItemIsNotWritten
  BY DEF IInv, GenInv, StaleItemIsNotWritten
<1> QED
  BY <1>1, Inductive, PTL

\* However interruptions, failed writes and reconnections fall: the server
\* reads audio only behind the start of its own turn on the same connection
\* (SendText, SendAudio, TxLoop).
THEOREM AudioFollowsItsStart == Spec => []AudioIsFramed
<1>1. IInv => AudioIsFramed
  <2> SUFFICES ASSUME IInv, tx.at = "writing", tx.item.kind = "audio", link = "up"
               PROVE  boundary = [kind |-> "start", generation |-> tx.item.generation]
    BY DEF AudioIsFramed
  <2>1. tx.item.generation = gate
    BY DEF IInv, GenInv
  <2>2. CurrentMedia
    BY <2>1 DEF CurrentMedia, MediaKinds
  <2> QED
    BY <2>1, <2>2 DEF IInv, FrameInv
<1> QED
  BY <1>1, Inductive, PTL

\* However often Close gives up and is called again: the client handle is
\* destroyed only after both tasks have gone, with nothing of the pool in use.
THEOREM ClientIsDestroyedLast == Spec => []ClientOutlivesItsUsers
<1>1. IInv => ClientOutlivesItsUsers
  <2> SUFFICES ASSUME IInv, client = "destroyed"
               PROVE  HaveExited /\ used = 0
    BY DEF ClientOutlivesItsUsers
  <2>1. HaveExited /\ media = <<>> /\ control = <<>>
    BY DEF IInv, CloseInv
  <2>2. tx.item = NoItem
    BY <2>1 DEF IInv, PoolInv, HaveExited
  <2>3. Len(media) = 0 /\ Len(control) = 0
    BY <2>1, EmptyFacts
  <2>4. used = 0
    BY <2>2, <2>3 DEF IInv, PoolInv, PoolIsExact
  <2> QED
    BY <2>1, <2>4
<1> QED
  BY <1>1, Inductive, PTL

\* No path of a failure, an interruption or a shutdown loses a pool item or
\* gives it back twice (TryAcquireTxItem, ReleaseTxItem, ReleasePendingTx).
THEOREM PoolNeverLeaks == Spec => []PoolIsExact
<1>1. IInv => PoolIsExact
  BY DEF IInv, PoolInv
<1> QED
  BY <1>1, Inductive, PTL
=============================================================================
