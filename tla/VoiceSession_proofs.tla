------------------------ MODULE VoiceSession_proofs ------------------------
(***************************************************************************)
(* What VoiceSession promises, proved for every set of requests, every     *)
(* number of requests and of losses, and every size of the receive queue.  *)
(*                                                                         *)
(* That a stream which was cut is not heard again is not inductive: its    *)
(* frames may be queued, or in the worker's hands, when it is cut.  What   *)
(* keeps them silent is the order of the queue.  QueueInv says that the    *)
(* envelopes come in the order of the streams and that a start still to    *)
(* come is newer than everything heard or cut; HeardInv, that while the    *)
(* session speaks the stream it plays is newer than everything cut.  So    *)
(* only a start makes the session speak again, and whatever follows that   *)
(* start belongs to its stream or to a later one.                          *)
(*                                                                         *)
(* That what was deferred has a fence is not inductive either: between the *)
(* section that defers it and the calls, the session is without fence if   *)
(* nothing was playing.  DeferInv names the operation that will then go on *)
(* to speak itself; PlanInv ties the operation under way to the request.   *)
(***************************************************************************)
EXTENDS VoiceSession, SequenceTheorems, TLAPS

\* The types of what the proof looks at.
States == {"stopped", "starting", "ready", "capturing", "speaking", "failed"}
Session == [state : States, generation : Nat, armed : BOOLEAN, fence : BOOLEAN,
            listening : BOOLEAN, finalAsr : BOOLEAN, deferred : {"none", "ack", "speech"}]
Provider == [generation : Nat, transport : BOOLEAN, connected : BOOLEAN]
OpKinds == {"interrupt", "interruptAndNotify", "interruptAndSpeak", "speak", "notify", "begin",
            "beginProvider", "end", "stop", "start"}
Op == [kind : OpKinds \cup {"none"},
       at : {"idle", "section", "generation", "calls", "ack", "speech", "listen", "input",
             "capturing", "stopped", "unsent", "abandon", "disconnect", "connect"},
       generation : Nat, was : States, listening : BOOLEAN]
EnvelopeKinds == {"connected", "disconnected", "hello", "stt", "start", "audio", "stop", "aborted"}
Envelope == [kind : EnvelopeKinds, stream : Nat, generation : Nat]
Working == [at : {"idle", "event", "stopInput", "generation", "deferred", "send"},
            kind : EnvelopeKinds \cup {"none", "ack", "speech"}, stream : Nat, generation : Nat]
Server == [hello : BOOLEAN, stream : Nat, owed : Nat, next : Nat]

\* What the caller has left of a request.
Plans == {<<>>, <<"notify", "beginProvider">>, <<"beginProvider">>, <<"interruptAndNotify">>,
          <<"interrupt">>, <<"interrupt", "speak">>, <<"speak">>, <<"interruptAndSpeak">>,
          <<"begin">>, <<"end">>, <<"interrupt", "begin">>, <<"stop", "start">>, <<"start">>}

Typed ==
    /\ session \in Session /\ provider \in Provider /\ plan \in Plans /\ op \in Op
    /\ worker \in Working /\ rx \in Seq(Envelope) /\ server \in Server

\* The operation under way is the first of those left.
PlanInv ==
    /\ op.kind # "none" => plan # <<>> /\ op.kind = Head(plan)
    /\ op.kind = "none" => op.at = "idle"
    /\ op.kind = "stop" => op.at \in {"section", "disconnect"}

\* What is deferred waits for the fence, or for the operation that deferred it and will go on
\* to speak itself; a start comes after a stop, which forgets it.
DeferInv ==
    /\ session.deferred # "none" =>
         \/ session.fence
         \/ op.at \in {"generation", "calls"} /\ op.was # "speaking" /\ op.kind # "interrupt"
    /\ op.kind = "stop" /\ op.at = "disconnect" => session.deferred = "none"
    /\ plan = <<"start">> => session.deferred = "none"

\* Envelopes of a stream: its start and its audio.
Streaming(e) == e.kind \in {"start", "audio"}

\* Envelope f is of a later stream than e, or of the same and not its start.
After(e, f) ==
    Streaming(e) /\ Streaming(f) =>
        e.stream <= f.stream /\ (f.kind = "start" => e.stream < f.stream)

\* Envelope e is of a stream that is not older than the one heard last; its start is newer
\* than every stream that was heard or cut.
Ahead(e) ==
    Streaming(e) =>
        /\ 0 < e.stream /\ e.stream < server.next /\ heard <= e.stream
        /\ e.kind = "start" => heard < e.stream /\ \A c \in cut : c < e.stream

\* The envelopes come in the order of the streams.
QueueInv ==
    /\ \A i \in DOMAIN rx : Ahead(rx[i])
    /\ \A i, j \in DOMAIN rx : i < j => After(rx[i], rx[j])
    /\ worker.at = "event" => Ahead(worker) /\ \A i \in DOMAIN rx : After(worker, rx[i])

\* What is heard while the session speaks is newer than everything cut.
HeardInv ==
    /\ heard \in Nat /\ cut \subseteq Nat /\ 0 \notin cut /\ heard \notin cut
    /\ 0 < server.next /\ heard < server.next /\ \A c \in cut : c < server.next
    /\ session.state = "speaking" => 0 < heard /\ \A c \in cut : c < heard

IInv == Typed /\ PlanInv /\ DeferInv /\ QueueInv /\ HeardInv

-----------------------------------------------------------------------------
(* Facts about the records and the plans.                                  *)

\* The defaults have their types.
LEMMA Defaults ==
    /\ NoOp \in Op /\ NoOp.kind = "none" /\ NoOp.at = "idle"
    /\ IdleWorker \in Working /\ IdleWorker.at = "idle"
  BY DEF NoOp, Op, OpKinds, States, IdleWorker, Working, EnvelopeKinds, NoStream

\* What is left of a plan when its first operation ends.
LEMMA PlanTails ==
    ASSUME NEW p \in Plans, p # <<>>
    PROVE  /\ Head(p) \in OpKinds /\ Tail(p) \in Plans
           /\ Tail(p) = <<"start">> => Head(p) = "stop"
           /\ p = <<"start">> => Head(p) = "start"
<1>1. ASSUME NEW x \in {"beginProvider", "interruptAndNotify", "interrupt", "speak",
                        "interruptAndSpeak", "begin", "end", "start"}, p = <<x>>
      PROVE  /\ Head(p) \in OpKinds /\ Tail(p) \in Plans
             /\ Tail(p) = <<"start">> => Head(p) = "stop"
             /\ p = <<"start">> => Head(p) = "start"
  <2>1. Tail(p) = <<>> /\ Head(p) = x /\ (p = <<"start">> => x = "start")
    BY <1>1
  <2>2. <<>> # <<"start">>
    OBVIOUS
  <2> QED
    BY <1>1, <2>1, <2>2 DEF Plans, OpKinds
<1>2. CASE p = <<"notify", "beginProvider">>
  BY <1>2 DEF Plans, OpKinds
<1>3. CASE p = <<"interrupt", "speak">>
  BY <1>3 DEF Plans, OpKinds
<1>4. CASE p = <<"interrupt", "begin">>
  BY <1>4 DEF Plans, OpKinds
<1>5. CASE p = <<"stop", "start">>
  BY <1>5 DEF Plans, OpKinds
<1> QED
  BY <1>1, <1>2, <1>3, <1>4, <1>5 DEF Plans

\* A request begins with no start.
LEMMA PlanBegins ==
    ASSUME NEW r \in Requests
    PROVE  Operations(r) \in Plans /\ Operations(r) # <<"start">>
<1>1. r \in {"wake", "interruptAndWake", "interrupt", "reminder", "shake", "startCapture",
             "stopCapture", "interruptAndStart", "restart"}
  BY MaxAssumption
<1>2. CASE r \in {"wake", "reminder", "interruptAndStart", "restart"}
  BY <1>2 DEF Operations, Plans
<1>3. CASE r \in {"interruptAndWake", "interrupt", "shake", "startCapture", "stopCapture"}
  BY <1>3 DEF Operations, Plans
<1> QED
  BY <1>1, <1>2, <1>3

\* The operation under way goes on to its next section.
LEMMA GotoStep ==
    ASSUME Typed, PlanInv, DeferInv, plan' = plan, NEW a, Goto(a), op.at \notin {"generation"},
           a \in {"calls", "ack", "speech", "listen", "input", "capturing", "stopped", "unsent",
                  "disconnect", "connect"},
           session'.deferred # "none" => session'.fence /\ session.deferred # "none",
           op.kind = "stop" => session'.deferred = "none" /\ a = "disconnect", op.kind # "none"
    PROVE  op' \in Op /\ PlanInv' /\ DeferInv'
<1>1. op \in Op
  BY DEF Typed
<1>2. op'.kind = op.kind /\ op'.at = a /\ op' \in Op
  BY <1>1 DEF Goto, Op
<1>3. PlanInv'
  BY <1>2 DEF PlanInv
<1> QED
  BY <1>2, <1>3 DEF DeferInv

\* The operation ends.
LEMMA ReturnStep ==
    ASSUME Typed, PlanInv, DeferInv, NEW ok, Return(ok), op.kind # "none",
           session'.deferred # "none" => session'.fence /\ session.deferred # "none",
           op.kind = "stop" => session'.deferred = "none"
    PROVE  op' \in Op /\ plan' \in Plans /\ PlanInv' /\ DeferInv'
<1>1. plan \in Plans /\ plan # <<>> /\ op.kind = Head(plan)
  BY DEF Typed, PlanInv
<1>2. op' = NoOp /\ (plan' = Tail(plan) \/ plan' = <<>>)
  BY DEF Return
<1>3. plan' \in Plans
  BY <1>1, <1>2, PlanTails DEF Plans
<1>4. plan' = <<"start">> => op.kind = "stop"
  <2>1. <<>> # <<"start">>
    OBVIOUS
  <2> QED
    BY <1>1, <1>2, <2>1, PlanTails
<1> QED
  BY <1>2, <1>3, <1>4, Defaults DEF PlanInv, DeferInv

\* A step of another party keeps what is deferred, or forgets it.
LEMMA DeferStays ==
    ASSUME PlanInv, DeferInv, UNCHANGED <<op, plan>>,
           session'.deferred # "none" =>
             session'.deferred = session.deferred /\ session'.fence = session.fence
    PROVE  PlanInv' /\ DeferInv'
  BY DEF PlanInv, DeferInv

\* What is heard and queued stays in order when no stream comes, begins or ends.
LEMMA QueueStays ==
    ASSUME QueueInv, HeardInv, UNCHANGED <<heard, cut, rx>>, server'.next = server.next,
           session'.state = "speaking" => session.state = "speaking",
           worker'.at # "event" \/ worker' = worker
    PROVE  QueueInv' /\ HeardInv'
<1>1. \A e : Ahead(e) /\ Streaming(e) =>
        /\ 0 < e.stream /\ e.stream < server'.next /\ heard' <= e.stream
        /\ e.kind = "start" => heard' < e.stream /\ \A c \in cut' : c < e.stream
  BY DEF Ahead
<1>2. QueueInv'
  BY <1>1 DEF QueueInv, Ahead, After, Streaming
<1>3. HeardInv'
  BY DEF HeardInv
<1> QED
  BY <1>2, <1>3

-----------------------------------------------------------------------------
(* The operations.                                                         *)

\* A step of the caller that leaves the queue alone.
LEMMA CallerStep ==
    ASSUME IInv, UNCHANGED <<worker, rx, heard, cut>>, server' \in Server,
           server'.next = server.next, provider' \in Provider, session' \in Session,
           session'.state = "speaking" => session.state = "speaking",
           op' \in Op, plan' \in Plans, PlanInv', DeferInv'
    PROVE  IInv'
<1>1. QueueInv' /\ HeardInv'
  BY QueueStays DEF IInv
<1>2. Typed'
  BY DEF Typed, IInv
<1> QED
  BY <1>1, <1>2 DEF IInv

\* The operation ends with the session as it is, or changed in what is not deferred.
LEMMA ReturnKeeps ==
    ASSUME IInv, NEW ok, Return(ok), op.kind \notin {"none", "stop"},
           op.at \notin {"generation", "calls"},
           UNCHANGED <<worker, rx, heard, cut, server>>, provider' \in Provider,
           session' \in Session, session'.state = "speaking" => session.state = "speaking",
           session'.deferred = session.deferred, session'.fence = session.fence
    PROVE  IInv'
<1>1. Typed /\ PlanInv /\ DeferInv
  BY DEF IInv
<1>2. session'.deferred # "none" => session'.fence /\ session.deferred # "none"
  BY <1>1 DEF DeferInv
<1>3. op' \in Op /\ plan' \in Plans /\ PlanInv' /\ DeferInv'
  BY <1>1, <1>2, ReturnStep
<1> QED
  BY <1>1, <1>3, CallerStep DEF Typed

\* The operation goes on likewise.
LEMMA GotoKeeps ==
    ASSUME IInv, plan' = plan, NEW a, Goto(a), op.kind \notin {"none", "stop"},
           op.at \notin {"generation", "calls"},
           a \in {"calls", "ack", "speech", "listen", "input", "capturing", "stopped", "unsent",
                  "disconnect", "connect"},
           UNCHANGED <<worker, rx, heard, cut, server>>, provider' \in Provider,
           session' \in Session, session'.state = "speaking" => session.state = "speaking",
           session'.deferred = session.deferred, session'.fence = session.fence
    PROVE  IInv'
<1>1. Typed /\ PlanInv /\ DeferInv
  BY DEF IInv
<1>2. session'.deferred # "none" => session'.fence /\ session.deferred # "none"
  BY <1>1 DEF DeferInv
<1>3. op' \in Op /\ PlanInv' /\ DeferInv'
  BY <1>1, <1>2, GotoStep
<1> QED
  BY <1>1, <1>3, CallerStep DEF Typed

\* A request and its next operation begin.
LEMMA BeginSteps ==
    ASSUME IInv, Begin \/ \E r \in Requests : MakeRequest(r)
    PROVE  IInv'
<1>1. Typed /\ PlanInv /\ DeferInv /\ session' = session /\ provider' = provider
      /\ UNCHANGED <<worker, rx, heard, cut, server>>
  BY DEF IInv, Begin, MakeRequest, history, remote
<1>2. ASSUME NEW r \in Requests, MakeRequest(r) PROVE IInv'
  <2>1. op = NoOp /\ op' = op /\ plan' = Operations(r)
    BY <1>2 DEF MakeRequest
  <2>2. PlanInv'
    BY <2>1, Defaults DEF PlanInv
  <2>3. DeferInv'
    BY <1>1, <2>1, PlanBegins, Defaults DEF DeferInv
  <2> QED
    BY <1>1, <2>1, <2>2, <2>3, PlanBegins, CallerStep DEF Typed
<1>3. CASE Begin
  <2>1. /\ op = NoOp /\ plan # <<>> /\ plan' = plan
        /\ op' = [NoOp EXCEPT !.kind = Head(plan), !.at = "section"]
    BY <1>3 DEF Begin, caller
  <2>2. Head(plan) \in OpKinds
    BY <1>1, <2>1, PlanTails DEF Typed
  <2>3. op' \in Op /\ op'.kind = Head(plan) /\ op'.at = "section"
    BY <2>1, <2>2, Defaults DEF Op
  <2>4. PlanInv'
    BY <2>1, <2>2, <2>3 DEF PlanInv, OpKinds
  <2>5. DeferInv'
    BY <1>1, <2>1, <2>3, Defaults DEF DeferInv
  <2> QED
    BY <1>1, <2>1, <2>3, <2>4, <2>5, CallerStep DEF Typed
<1> QED
  BY <1>2, <1>3

\* What every interruption leaves of the session.
LEMMA NewTurnIs ==
    ASSUME session \in Session, NEW d \in {"none", "ack", "speech"}
    PROVE  /\ NewTurn(d) \in Session /\ NewTurn(d).state = "ready" /\ NewTurn(d).deferred = d
           /\ NewTurn(d).fence = (session.state = "speaking")
           /\ NewTurn(d).generation = session.generation + 1
<1> DEFINE f == session.state = "speaking"
<1>1. f \in BOOLEAN
  OBVIOUS
<1>2. NewTurn(d) = [session EXCEPT !.state = "ready", !.generation = @ + 1, !.armed = FALSE,
                                   !.listening = FALSE, !.finalAsr = FALSE, !.fence = f,
                                   !.deferred = d]
  BY DEF NewTurn
<1>3. session.generation + 1 \in Nat
  BY DEF Session
<1> HIDE DEF f
<1>4. /\ NewTurn(d) \in Session /\ NewTurn(d).state = "ready" /\ NewTurn(d).deferred = d
      /\ NewTurn(d).fence = f /\ NewTurn(d).generation = session.generation + 1
  BY <1>1, <1>2, <1>3 DEF Session, States
<1> QED
  BY <1>4 DEF f

\* An interruption cuts what is heard.
LEMMA InterruptSteps ==
    ASSUME IInv, NEW k \in {"interrupt", "interruptAndNotify", "interruptAndSpeak"},
           InterruptSection(k)
    PROVE  IInv'
<1>1. /\ Typed /\ PlanInv /\ DeferInv /\ QueueInv /\ HeardInv /\ session \in Session /\ op \in Op
      /\ provider' = provider /\ UNCHANGED <<worker, rx, server>> /\ op.kind = k /\ op.at = "section"
  BY DEF IInv, InterruptSection, remote, Typed, At
<1>2. CASE ~InterruptsIn(k)
  <2>1. session' = session /\ heard' = heard /\ cut' = cut /\ Return(k = "interrupt")
    BY <1>2 DEF InterruptSection
  <2> QED
    BY <1>1, <2>1, ReturnKeeps DEF Typed
<1>3. CASE InterruptsIn(k)
  <2>1. /\ session' = NewTurn(Deferred(k)) /\ plan' = plan
        /\ op' = [op EXCEPT !.at = "generation", !.generation = session.generation + 1,
                            !.was = session.state, !.listening = session.listening]
        /\ cut' = IF session.state = "speaking" THEN cut \cup {heard} ELSE cut
        /\ heard' = IF session.state = "speaking" THEN 0 ELSE heard
    BY <1>3 DEF InterruptSection, caller
  <2>2. /\ Deferred(k) \in {"none", "ack", "speech"}
        /\ k = "interrupt" => Deferred(k) = "none"
    BY DEF Deferred
  <2>3. /\ session' \in Session /\ session'.state = "ready" /\ session'.deferred = Deferred(k)
        /\ session'.fence = (session.state = "speaking")
    BY <1>1, <2>1, <2>2, NewTurnIs
  <2>4. op' \in Op /\ op'.kind = k /\ op'.at = "generation" /\ op'.was = session.state
    <3>1. session.generation + 1 \in Nat /\ session.state \in States /\ session.listening \in BOOLEAN
      BY <1>1 DEF Session
    <3> QED
      BY <1>1, <2>1, <3>1 DEF Op
  <2>5. PlanInv'
    BY <1>1, <2>1, <2>4 DEF PlanInv
  <2>6. plan # <<"start">>
    BY <1>1, PlanTails DEF PlanInv, Typed
  <2>7. DeferInv'
    BY <2>1, <2>2, <2>3, <2>4, <2>6 DEF DeferInv
  <2>8. Typed'
    BY <1>1, <2>1, <2>3, <2>4 DEF Typed
  <2>9. HeardInv' /\ QueueInv'
    <3>1. CASE session.state # "speaking"
      BY <1>1, <2>1, <2>3, <3>1, QueueStays
    <3>2. CASE session.state = "speaking"
      <4>1. heard' = 0 /\ cut' = cut \cup {heard} /\ 0 < heard
        BY <1>1, <2>1, <3>2 DEF HeardInv
      <4>2. HeardInv'
        BY <1>1, <2>3, <4>1 DEF HeardInv
      <4>3. ASSUME NEW e, Ahead(e), e.stream \in Nat PROVE Ahead(e)'
        BY <1>1, <4>1, <4>3 DEF Ahead, Streaming
      <4>4. \A i \in DOMAIN rx : rx[i].stream \in Nat
        <5> SUFFICES ASSUME NEW i \in DOMAIN rx PROVE rx[i].stream \in Nat
          OBVIOUS
        <5>1. rx[i] \in Envelope
          BY <1>1 DEF Typed
        <5> QED
          BY <5>1 DEF Envelope
      <4>5. worker.stream \in Nat
        BY <1>1 DEF Typed, Working
      <4>6. \A i \in DOMAIN rx' : Ahead(rx[i])'
        BY <1>1, <4>3, <4>4 DEF QueueInv
      <4>7. worker.at = "event" => Ahead(worker)'
        BY <1>1, <4>3, <4>5 DEF QueueInv
      <4> QED
        BY <1>1, <4>2, <4>6, <4>7 DEF QueueInv
    <3> QED
      BY <3>1, <3>2
  <2> QED
    BY <2>5, <2>7, <2>8, <2>9 DEF IInv
<1> QED
  BY <1>2, <1>3

\* The interruption passes the new generation on.
LEMMA TurnSteps ==
    ASSUME IInv, SetGenerationOfTurn
    PROVE  IInv'
<1>1. /\ Typed /\ PlanInv /\ DeferInv /\ op \in Op /\ session' = session /\ plan' = plan
      /\ UNCHANGED <<worker, rx, server, heard, cut>> /\ op.at = "generation"
  BY DEF IInv, SetGenerationOfTurn, remote, Typed, history, caller
<1>2. provider' \in Provider
  BY <1>1 DEF SetGenerationOfTurn, SetGeneration, Typed, Provider, Op
<1>3. op' \in Op /\ op'.kind = op.kind /\ op'.at = "calls" /\ op'.was = op.was
  BY <1>1 DEF SetGenerationOfTurn, Goto, Op
<1>4. PlanInv' /\ DeferInv'
  BY <1>1, <1>3 DEF PlanInv, DeferInv
<1> QED
  BY <1>1, <1>2, <1>3, <1>4, CallerStep DEF Typed

\* The calls of an interruption end it, or lead on to the speech.
LEMMA InterruptCallSteps ==
    ASSUME IInv, NEW k \in {"interrupt", "interruptAndNotify", "interruptAndSpeak"},
           InterruptCalls(k)
    PROVE  IInv'
<1>1. /\ Typed /\ PlanInv /\ DeferInv /\ op \in Op /\ session \in Session
      /\ provider' = provider /\ UNCHANGED <<worker, rx, server, heard, cut>>
      /\ op.at = "calls" /\ op.kind = k
  BY DEF IInv, InterruptCalls, remote, Typed, history, At
<1>2. ASSUME NEW ok, Return(ok), session' \in Session, session'.state = session.state,
             session'.deferred # "none" => session'.fence /\ session.deferred # "none"
      PROVE  IInv'
  <2>1. op' \in Op /\ plan' \in Plans /\ PlanInv' /\ DeferInv'
    BY <1>1, <1>2, ReturnStep
  <2> QED
    BY <1>1, <1>2, <2>1, CallerStep DEF Typed
<1>3. \/ k = "interrupt" /\ (\E ok : Return(ok)) /\ session' = session
      \/ /\ session' = [session EXCEPT !.fence = FALSE, !.armed = FALSE, !.deferred = "none"]
         /\ Return(FALSE)
      \/ op.was = "speaking" /\ Return(TRUE) /\ session' = session
      \/ /\ session' = [session EXCEPT !.armed = TRUE, !.deferred = "none"]
         /\ k # "interrupt" /\ Goto(Deferred(k)) /\ plan' = plan
  BY DEF InterruptCalls, caller
<1>4. CASE /\ session' = session
           /\ \/ k = "interrupt" /\ (\E ok : Return(ok))
              \/ op.was = "speaking" /\ Return(TRUE)
  <2>1. session.deferred # "none" => session.fence
    BY <1>1, <1>4 DEF DeferInv
  <2> QED
    BY <1>1, <1>2, <1>4, <2>1
<1>5. CASE /\ session' = [session EXCEPT !.fence = FALSE, !.armed = FALSE, !.deferred = "none"]
           /\ Return(FALSE)
  <2>1. session' \in Session /\ session'.deferred = "none" /\ session'.state = session.state
    BY <1>1, <1>5 DEF Session
  <2> QED
    BY <1>2, <1>5, <2>1
<1>6. CASE /\ session' = [session EXCEPT !.armed = TRUE, !.deferred = "none"]
           /\ k # "interrupt" /\ Goto(Deferred(k)) /\ plan' = plan
  <2>1. session' \in Session /\ session'.deferred = "none" /\ session'.state = session.state
    BY <1>1, <1>6 DEF Session
  <2>2. Deferred(k) \in {"ack", "speech"}
    BY <1>6 DEF Deferred
  <2>3. op' \in Op /\ PlanInv' /\ DeferInv'
    BY <1>1, <1>6, <2>1, <2>2, GotoStep
  <2> QED
    BY <1>1, <1>6, <2>1, <2>3, CallerStep DEF Typed
<1> QED
  BY <1>3, <1>4, <1>5, <1>6

\* Speech is armed and requested.
LEMMA SpeakSteps ==
    ASSUME IInv, \/ \E k \in {"speak", "notify"} : SpeakSection(k)
                 \/ \E k \in {"speech", "ack"} : SendSpeech(k)
    PROVE  IInv'
<1>1. /\ Typed /\ PlanInv /\ DeferInv /\ op \in Op /\ session \in Session /\ provider \in Provider
      /\ provider' = provider /\ UNCHANGED <<worker, rx, server, heard, cut>>
  BY DEF IInv, SpeakSection, SendSpeech, remote, Typed, history
<1>2. ASSUME NEW k \in {"speak", "notify"}, SpeakSection(k) PROVE IInv'
  <2>1. op.at = "section" /\ op.kind = k
    BY <1>2 DEF SpeakSection, At
  <2>2. CASE session.state = "ready"
    <3>1. /\ session' = [session EXCEPT !.armed = TRUE] /\ plan' = plan
          /\ Goto(IF k = "speak" THEN "speech" ELSE "ack")
      BY <1>2, <2>2 DEF SpeakSection, caller
    <3>2. /\ session' \in Session /\ session'.state = session.state
          /\ session'.deferred = session.deferred /\ session'.fence = session.fence
      BY <1>1, <3>1 DEF Session
    <3> QED
      BY <1>1, <2>1, <3>1, <3>2, GotoKeeps
  <2>3. CASE session.state # "ready"
    BY <1>1, <1>2, <2>1, <2>3, ReturnKeeps DEF SpeakSection
  <2> QED
    BY <2>2, <2>3
<1>3. ASSUME NEW k \in {"speech", "ack"}, SendSpeech(k) PROVE IInv'
  <2>1. PICK sent \in {FALSE, provider.connected} :
          /\ session' = [session EXCEPT !.armed = @ /\ sent] /\ Return(sent) /\ op.at = k
    BY <1>3 DEF SendSpeech, Sends
  <2> DEFINE b == session.armed /\ sent
  <2>2. b \in BOOLEAN /\ session' = [session EXCEPT !.armed = b]
    BY <1>1, <2>1 DEF Session
  <2> HIDE DEF b
  <2>3. /\ session' \in Session /\ session'.state = session.state
        /\ session'.deferred = session.deferred /\ session'.fence = session.fence
    BY <1>1, <2>2 DEF Session
  <2>4. op.kind \notin {"none", "stop"}
    BY <1>1, <2>1 DEF PlanInv
  <2> QED
    BY <1>1, <2>1, <2>3, <2>4, ReturnKeeps
<1> QED
  BY <1>2, <1>3

\* Capture begins.
LEMMA CaptureSteps ==
    ASSUME IInv, \/ \E k \in {"begin", "beginProvider"} : BeginSection(k) \/ StartListening(k)
                 \/ StartInput \/ Capturing
    PROVE  IInv'
<1>1. /\ Typed /\ PlanInv /\ DeferInv /\ op \in Op /\ session \in Session /\ provider \in Provider
      /\ provider' = provider /\ UNCHANGED <<worker, rx, server, heard, cut>>
  BY DEF IInv, BeginSection, StartListening, StartInput, Capturing, remote, Typed, history
<1>2. session.armed \in BOOLEAN
  BY <1>1 DEF Session
<1>3. ASSUME NEW k \in {"begin", "beginProvider"}, BeginSection(k) PROVE IInv'
  <2>1. op.at = "section" /\ op.kind = k
    BY <1>3 DEF BeginSection, At
  <2>2. CASE session' = session /\ \E ok : Return(ok)
    BY <1>1, <2>1, <2>2, ReturnKeeps
  <2>3. CASE session' = session /\ Goto("input") /\ plan' = plan
    BY <1>1, <2>1, <2>3, GotoKeeps
  <2>4. CASE session' = [session EXCEPT !.listening = TRUE] /\ Goto("listen") /\ plan' = plan
    <3>1. /\ session' \in Session /\ session'.state = session.state
          /\ session'.deferred = session.deferred /\ session'.fence = session.fence
      BY <1>1, <2>4 DEF Session
    <3> QED
      BY <1>1, <2>1, <2>4, <3>1, GotoKeeps
  <2> QED
    BY <1>3, <2>2, <2>3, <2>4 DEF BeginSection, caller
<1>4. ASSUME NEW k \in {"begin", "beginProvider"}, StartListening(k) PROVE IInv'
  <2>1. op.at = "listen" /\ op.kind = k
    BY <1>4 DEF StartListening, At
  <2>2. CASE session' = session /\ \E ok : Return(ok)
    BY <1>1, <2>1, <2>2, ReturnKeeps
  <2>3. CASE session' = session /\ Goto("input") /\ plan' = plan
    BY <1>1, <2>1, <2>3, GotoKeeps
  <2>4. CASE /\ session' = [session EXCEPT !.listening = FALSE, !.armed = @ /\ k = "begin"]
             /\ Return(FALSE)
    <3> DEFINE b == session.armed /\ k = "begin"
    <3>1. b \in BOOLEAN /\ session' = [session EXCEPT !.listening = FALSE, !.armed = b]
      BY <1>1, <2>4 DEF Session
    <3> HIDE DEF b
    <3>2. /\ session' \in Session /\ session'.state = session.state
          /\ session'.deferred = session.deferred /\ session'.fence = session.fence
      BY <1>1, <3>1 DEF Session
    <3> QED
      BY <1>1, <2>1, <2>4, <3>2, ReturnKeeps
  <2> QED
    BY <1>4, <2>2, <2>3, <2>4 DEF StartListening, caller
<1>5. CASE StartInput
  <2>1. op.at = "input" /\ op.kind = "begin"
    BY <1>5 DEF StartInput, At
  <2>2. CASE session' = session /\ Goto("capturing") /\ plan' = plan
    BY <1>1, <2>1, <2>2, GotoKeeps
  <2>3. CASE /\ \E s \in {session.state, "failed"} :
                  session' = [session EXCEPT !.listening = FALSE, !.armed = FALSE, !.state = s]
             /\ Return(FALSE)
    <3>1. PICK s \in {session.state, "failed"} :
            session' = [session EXCEPT !.listening = FALSE, !.armed = FALSE, !.state = s]
      BY <2>3
    <3>2. s \in States
      BY <1>1 DEF Session, States
    <3>3. /\ session' \in Session /\ session'.state = s
          /\ session'.deferred = session.deferred /\ session'.fence = session.fence
      BY <1>1, <3>1, <3>2 DEF Session
    <3> QED
      BY <1>1, <2>1, <2>3, <3>1, <3>3, ReturnKeeps
  <2> QED
    BY <1>1, <1>5, <2>2, <2>3 DEF StartInput, caller
<1>6. CASE Capturing
  <2>1. /\ op.at = "capturing" /\ op.kind = "begin" /\ Return(TRUE)
        /\ session' = [session EXCEPT !.state = "capturing", !.armed = FALSE, !.finalAsr = FALSE]
    BY <1>6 DEF Capturing, At
  <2>2. /\ session' \in Session /\ session'.state = "capturing"
        /\ session'.deferred = session.deferred /\ session'.fence = session.fence
    BY <1>1, <2>1 DEF Session, States
  <2> QED
    BY <1>1, <2>1, <2>2, ReturnKeeps
<1> QED
  BY <1>3, <1>4, <1>5, <1>6

\* Capture ends.
LEMMA EndSteps ==
    ASSUME IInv, EndSection \/ EndInput \/ Ended \/ Abandon
    PROVE  IInv'
<1>1. /\ Typed /\ PlanInv /\ DeferInv /\ op \in Op /\ session \in Session /\ provider \in Provider
      /\ UNCHANGED <<worker, rx, server, heard, cut>>
  BY DEF IInv, EndSection, EndInput, Ended, Abandon, remote, Typed, history
<1>2. CASE EndSection
  <2>1. op.at = "section" /\ op.kind = "end" /\ session' = session /\ provider' = provider
    BY <1>2 DEF EndSection, At
  <2>2. (Goto("input") /\ plan' = plan) \/ \E ok : Return(ok)
    BY <1>2 DEF EndSection, caller
  <2> QED
    BY <1>1, <2>1, <2>2, GotoKeeps, ReturnKeeps
<1>3. CASE EndInput
  <2>1. op.at = "input" /\ op.kind = "end" /\ provider' = provider
    BY <1>3 DEF EndInput, At
  <2>2. \/ /\ session' = session /\ plan' = plan /\ \E a \in {"stopped", "unsent"} : Goto(a)
        \/ session' = [session EXCEPT !.state = "failed"] /\ Return(FALSE)
    BY <1>3 DEF EndInput, caller
  <2>3. CASE session' = [session EXCEPT !.state = "failed"] /\ Return(FALSE)
    <3>1. /\ session' \in Session /\ session'.state = "failed"
          /\ session'.deferred = session.deferred /\ session'.fence = session.fence
      BY <1>1, <2>3 DEF Session, States
    <3> QED
      BY <1>1, <2>1, <2>3, <3>1, ReturnKeeps
  <2>4. CASE session' = session /\ plan' = plan /\ \E a \in {"stopped", "unsent"} : Goto(a)
    BY <1>1, <2>1, <2>4, GotoKeeps
  <2> QED
    BY <2>2, <2>3, <2>4
<1>4. CASE Ended /\ op.at = "stopped"
  <2>1. /\ op.kind = "end" /\ provider' = provider /\ Return(TRUE)
        /\ session' = [session EXCEPT !.state = "ready", !.listening = FALSE, !.finalAsr = TRUE]
    BY <1>4 DEF Ended, At
  <2>2. /\ session' \in Session /\ session'.state = "ready"
        /\ session'.deferred = session.deferred /\ session'.fence = session.fence
    BY <1>1, <2>1 DEF Session, States
  <2> QED
    BY <1>1, <1>4, <2>1, <2>2, ReturnKeeps
<1>5. CASE Ended /\ op.at = "unsent"
  <2>1. /\ op.kind = "end" /\ provider' = provider /\ plan' = plan
        /\ op' = [op EXCEPT !.at = "abandon", !.generation = session.generation + 1]
        /\ session' = [session EXCEPT !.state = "ready", !.listening = FALSE,
                                      !.finalAsr = FALSE, !.generation = @ + 1]
    BY <1>5 DEF Ended, At, caller
  <2>2. session.generation + 1 \in Nat
    BY <1>1 DEF Session
  <2>3. /\ session' \in Session /\ session'.state = "ready"
        /\ session'.deferred = session.deferred /\ session'.fence = session.fence
    BY <1>1, <2>1, <2>2 DEF Session, States
  <2>4. op' \in Op /\ op'.kind = "end" /\ op'.at = "abandon"
    BY <1>1, <2>1, <2>2 DEF Op
  <2>5. PlanInv' /\ DeferInv'
    BY <1>1, <1>5, <2>1, <2>3, <2>4 DEF PlanInv, DeferInv
  <2> QED
    BY <1>1, <2>1, <2>3, <2>4, <2>5, CallerStep DEF Typed
<1>6. CASE Abandon
  <2>1. op.kind = "end" /\ op.at = "abandon" /\ Return(TRUE) /\ session' = session
    BY <1>6 DEF Abandon, At
  <2>2. provider' \in Provider
    BY <1>1, <1>6 DEF Abandon, SetGeneration, Provider, Op
  <2> QED
    BY <1>1, <2>1, <2>2, ReturnKeeps
<1> QED
  BY <1>2, <1>3, <1>4, <1>5, <1>6 DEF Ended, At

\* The session stops and starts.
LEMMA StopStartSteps ==
    ASSUME IInv, Stop \/ Start
    PROVE  IInv'
<1>1. /\ Typed /\ PlanInv /\ DeferInv /\ op \in Op /\ session \in Session /\ provider \in Provider
      /\ server \in Server /\ worker' = worker /\ UNCHANGED <<heard, cut>>
      /\ session.generation + 1 \in Nat /\ session.generation \in Nat
  <2>1. Typed /\ PlanInv /\ DeferInv /\ worker' = worker /\ UNCHANGED <<heard, cut>>
    BY DEF IInv, Stop, Start, history
  <2>2. session.generation \in Nat
    BY <2>1 DEF Typed, Session
  <2> QED
    BY <2>1, <2>2 DEF Typed
<1>2. CASE Stop /\ op.at = "section"
  <2>1. /\ session' = [NewTurn("none") EXCEPT !.state = "stopped", !.fence = FALSE]
        /\ Goto("disconnect") /\ op.kind = "stop" /\ plan' = plan
        /\ UNCHANGED <<provider, rx, server>>
    BY <1>2 DEF Stop, At, caller, remote
  <2>2. session' \in Session /\ session'.state = "stopped" /\ session'.deferred = "none"
    BY <1>1, <2>1, NewTurnIs DEF Session, States
  <2>3. op' \in Op /\ PlanInv' /\ DeferInv'
    BY <1>1, <1>2, <2>1, <2>2, GotoStep
  <2> QED
    BY <1>1, <2>1, <2>2, <2>3, CallerStep DEF Typed
<1>3. CASE Stop /\ op.at = "disconnect"
  <2>1. /\ op.kind = "stop" /\ session' = session /\ Return(TRUE) /\ rx' = <<>>
        /\ worker.at = "idle"
        /\ provider' = [generation |-> 0, transport |-> FALSE, connected |-> FALSE]
        /\ server' = [server EXCEPT !.hello = FALSE, !.stream = NoStream, !.owed = 0]
    BY <1>3 DEF Stop, At
  <2>2. provider' \in Provider /\ server' \in Server /\ server'.next = server.next
    BY <1>1, <2>1 DEF Provider, Server, NoStream
  <2>3. session.deferred = "none"
    BY <1>1, <1>3, <2>1 DEF DeferInv
  <2>4. op' \in Op /\ plan' \in Plans /\ PlanInv' /\ DeferInv'
    BY <1>1, <2>1, <2>3, ReturnStep
  <2>5. Typed'
    BY <1>1, <2>1, <2>2, <2>4 DEF Typed
  <2>6. QueueInv'
    BY <1>1, <2>1 DEF QueueInv
  <2>7. HeardInv'
    BY <1>1, <2>1, <2>2 DEF HeardInv, IInv
  <2> QED
    BY <2>4, <2>5, <2>6, <2>7 DEF IInv
<1>4. CASE Start
  <2>1. op.kind = "start" /\ op.at \in {"section", "connect"} /\ rx' = rx
    BY <1>4 DEF Start, At
  <2>2. plan = <<"start">>
    <3>1. plan \in Plans /\ plan # <<>> /\ Head(plan) = "start"
      BY <1>1, <2>1 DEF PlanInv, Typed
    <3> QED
      BY <3>1 DEF Plans
  <2>3. session.deferred = "none"
    BY <1>1, <2>2 DEF DeferInv
  <2>4. CASE op.at = "section"
    <3>1. /\ session' = [session EXCEPT !.state = "starting", !.generation = @ + 1,
                           !.armed = FALSE, !.listening = FALSE, !.finalAsr = FALSE, !.fence = FALSE]
          /\ Goto("connect") /\ plan' = plan /\ UNCHANGED <<provider, server>>
      BY <1>4, <2>4 DEF Start, At, caller, remote
    <3>2. session' \in Session /\ session'.state = "starting" /\ session'.deferred = "none"
      BY <1>1, <2>3, <3>1 DEF Session, States
    <3>3. op' \in Op /\ PlanInv' /\ DeferInv'
      BY <1>1, <2>1, <2>4, <3>1, <3>2, GotoStep
    <3> QED
      BY <1>1, <2>1, <3>1, <3>2, <3>3, CallerStep DEF Typed
  <2>5. CASE op.at = "connect"
    <3>1. /\ \E s \in {"ready", "failed"} : session' = [session EXCEPT !.state = s]
          /\ \E ok : Return(ok)
      BY <1>4, <2>5 DEF Start, At
    <3>2. \/ UNCHANGED <<provider, server>>
          \/ /\ provider' = [generation |-> session.generation, transport |-> TRUE,
                             connected |-> TRUE]
             /\ server' = [server EXCEPT !.hello = TRUE]
      BY <1>4, <2>5 DEF Start, At
    <3>3. provider' \in Provider /\ server' \in Server /\ server'.next = server.next
      <4>1. CASE UNCHANGED <<provider, server>>
        BY <1>1, <4>1
      <4>2. CASE /\ provider' = [generation |-> session.generation, transport |-> TRUE,
                                 connected |-> TRUE]
                 /\ server' = [server EXCEPT !.hello = TRUE]
        BY <1>1, <4>2 DEF Provider, Server
      <4> QED
        BY <3>2, <4>1, <4>2
    <3>4. session' \in Session /\ session'.state # "speaking" /\ session'.deferred = "none"
      BY <1>1, <2>3, <3>1 DEF Session, States
    <3>5. op' \in Op /\ plan' \in Plans /\ PlanInv' /\ DeferInv'
      BY <1>1, <2>1, <3>1, <3>4, ReturnStep
    <3> QED
      BY <1>1, <2>1, <3>3, <3>4, <3>5, CallerStep
  <2> QED
    BY <2>1, <2>4, <2>5
<1> QED
  BY <1>2, <1>3, <1>4 DEF Stop, At

-----------------------------------------------------------------------------
(* The transport worker.                                                   *)

\* A step of the worker that hears nothing and takes nothing.
LEMMA WorkerStep ==
    ASSUME IInv, UNCHANGED <<op, plan, rx, heard, cut, server>>, provider' \in Provider,
           session' \in Session, session'.state = "speaking" => session.state = "speaking",
           worker' \in Working, worker'.at # "event",
           session'.deferred # "none" =>
             session'.deferred = session.deferred /\ session'.fence = session.fence
    PROVE  IInv'
<1>1. QueueInv' /\ HeardInv'
  BY QueueStays DEF IInv
<1>2. PlanInv' /\ DeferInv'
  BY DeferStays DEF IInv
<1>3. Typed'
  BY DEF Typed, IInv
<1> QED
  BY <1>1, <1>2, <1>3 DEF IInv

\* The fields of an envelope and of the worker.
LEMMA StreamsAreNumbers ==
    ASSUME Typed
    PROVE  /\ \A i \in DOMAIN rx : rx[i] \in Envelope /\ rx[i].stream \in Nat
           /\ worker.stream \in Nat /\ server.next \in Nat
<1>1. \A i \in DOMAIN rx : rx[i] \in Envelope
  BY DEF Typed
<1>2. \A e \in Envelope : e.stream \in Nat
  BY DEF Envelope
<1>3. worker.stream \in Nat /\ server.next \in Nat
  BY DEF Typed, Working, Server
<1> QED
  BY <1>1, <1>2, <1>3

\* The worker takes the first envelope, or drops it.
LEMMA TakeStep ==
    ASSUME IInv, Take
    PROVE  IInv'
<1>1. /\ Typed /\ PlanInv /\ DeferInv /\ QueueInv /\ HeardInv /\ worker \in Working
      /\ rx \in Seq(Envelope) /\ worker.at = "idle" /\ rx # <<>> /\ rx' = Tail(rx)
      /\ UNCHANGED <<session, provider, op, plan, server, heard, cut>>
  BY DEF IInv, Take, Typed, caller, remote, history
<1> DEFINE e == Head(rx)
<1>2. /\ rx' \in Seq(Envelope) /\ 1 \in DOMAIN rx /\ e = rx[1]
      /\ \A i \in DOMAIN rx' : i + 1 \in DOMAIN rx /\ rx'[i] = rx[i + 1] /\ 1 < i + 1 /\ i \in Nat
  BY <1>1
<1>3. e \in Envelope
  BY <1>1, <1>2
<1>4. \/ worker' = worker
      \/ worker' = [worker EXCEPT !.at = "event", !.kind = e.kind, !.stream = e.stream]
  BY DEF Take
<1> HIDE DEF e
<1>5. worker' \in Working /\ (worker'.at = "event" => worker'.kind = e.kind /\ worker'.stream = e.stream)
  <2>1. CASE worker' = worker
    BY <1>1, <2>1
  <2>2. CASE worker' = [worker EXCEPT !.at = "event", !.kind = e.kind, !.stream = e.stream]
    BY <1>1, <1>3, <2>2 DEF Working, Envelope
  <2> QED
    BY <1>4, <2>1, <2>2
<1>6. ASSUME NEW i \in DOMAIN rx', NEW f, f = rx'[i]
      PROVE  Ahead(f)'
  <2>1. Ahead(f)
    BY <1>1, <1>2, <1>6 DEF QueueInv
  <2> QED
    BY <1>1, <2>1 DEF Ahead
<1>7. \A i, j \in DOMAIN rx' : i < j => After(rx'[i], rx'[j])
  BY <1>1, <1>2 DEF QueueInv
<1>8. ASSUME worker'.at = "event"
      PROVE  Ahead(worker)' /\ \A i \in DOMAIN rx' : After(worker', rx'[i])
  <2>1. Ahead(e) /\ \A i \in DOMAIN rx' : After(e, rx'[i])
    BY <1>1, <1>2 DEF QueueInv
  <2> QED
    BY <1>1, <1>5, <1>8, <2>1 DEF Ahead, After, Streaming
<1>9. QueueInv'
  BY <1>6, <1>7, <1>8 DEF QueueInv, Ahead, After, Streaming
<1>10. HeardInv'
  BY <1>1 DEF HeardInv
<1>11. PlanInv' /\ DeferInv'
  BY <1>1, DeferStays
<1> QED
  BY <1>1, <1>2, <1>5, <1>9, <1>10, <1>11 DEF IInv, Typed

\* A stream is heard: nothing newer was heard or cut before.
LEMMA HearStep ==
    ASSUME IInv, worker.at = "event", Streaming(worker), heard' = worker.stream,
           worker.kind = "start" \/ (session.state = "speaking" /\ session' = session),
           UNCHANGED <<op, plan, rx, cut, server, provider>>,
           session' \in Session, worker' \in Working, worker'.at # "event",
           session'.deferred = session.deferred, session'.fence = session.fence
    PROVE  IInv'
<1>1. Typed /\ PlanInv /\ DeferInv /\ QueueInv /\ HeardInv
  BY DEF IInv
<1>2. /\ \A i \in DOMAIN rx : rx[i].stream \in Nat
      /\ worker.stream \in Nat /\ server.next \in Nat
  BY <1>1, StreamsAreNumbers
<1>3. /\ 0 < worker.stream /\ worker.stream < server.next /\ heard <= worker.stream
      /\ \A c \in cut : c < worker.stream
  <2>1. Ahead(worker)
    BY <1>1 DEF QueueInv
  <2>2. CASE worker.kind = "start"
    BY <2>1, <2>2 DEF Ahead
  <2>3. CASE session.state = "speaking"
    BY <1>1, <1>2, <2>1, <2>3 DEF Ahead, HeardInv
  <2> QED
    BY <2>1, <2>2, <2>3 DEF Ahead
<1>4. HeardInv'
  BY <1>1, <1>2, <1>3 DEF HeardInv
<1>5. ASSUME NEW i \in DOMAIN rx PROVE Ahead(rx[i])'
  <2>1. Ahead(rx[i]) /\ After(worker, rx[i])
    BY <1>1 DEF QueueInv
  <2> QED
    BY <2>1 DEF Ahead, After, Streaming
<1>6. QueueInv'
  BY <1>1, <1>5 DEF QueueInv
<1>7. PlanInv' /\ DeferInv'
  BY <1>1, DeferStays
<1> QED
  BY <1>1, <1>4, <1>6, <1>7 DEF IInv, Typed

\* The parts of the worker's types that its handlers change.
LEMMA WorkerTypes ==
    ASSUME IInv
    PROVE  /\ session \in Session /\ provider \in Provider /\ worker \in Working
           /\ session.generation \in Nat /\ session.generation + 1 \in Nat
           /\ session.armed \in BOOLEAN /\ session.state \in States
           /\ session.deferred \in {"none", "ack", "speech"}
           /\ provider.connected \in BOOLEAN /\ provider.transport \in BOOLEAN
           /\ worker.generation \in Nat
<1>1. session \in Session /\ provider \in Provider /\ worker \in Working
  BY DEF IInv, Typed
<1>2. session.generation \in Nat /\ worker.generation \in Nat
  BY <1>1 DEF Session, Working
<1>3. /\ session.armed \in BOOLEAN /\ session.state \in States
      /\ session.deferred \in {"none", "ack", "speech"}
  BY <1>1 DEF Session
<1>4. provider.connected \in BOOLEAN /\ provider.transport \in BOOLEAN
  BY <1>1 DEF Provider
<1> QED
  BY <1>1, <1>2, <1>3, <1>4

\* The connection comes, goes and says hello.
LEMMA ConnectionSteps ==
    ASSUME IInv, OnTransportConnected \/ OnTransportDisconnected \/ OnHello
    PROVE  IInv'
<1>1. /\ session \in Session /\ provider \in Provider /\ session.generation + 1 \in Nat
      /\ provider.connected \in BOOLEAN /\ provider.transport \in BOOLEAN
      /\ UNCHANGED <<op, plan, rx, heard, cut, server>>
  BY WorkerTypes DEF OnTransportConnected, OnTransportDisconnected, OnHello, caller, remote, history
<1>2. CASE OnTransportConnected
  <2>1. /\ session' = session /\ worker' = IdleWorker
        /\ \/ provider' = provider
           \/ provider' = [provider EXCEPT !.transport = TRUE, !.connected = FALSE]
    BY <1>2 DEF OnTransportConnected
  <2>2. provider' \in Provider
    BY <1>1, <2>1 DEF Provider
  <2> QED
    BY <1>1, <2>1, <2>2, Defaults, WorkerStep
<1>3. CASE OnTransportDisconnected
  <2> DEFINE b == provider.connected /\ ~provider.transport
             n == NewTurn("none")
             s == [n EXCEPT !.state = "starting", !.fence = FALSE]
             w == [IdleWorker EXCEPT !.at = "generation", !.generation = session.generation + 1]
  <2>1. b \in BOOLEAN
    OBVIOUS
  <2>2. provider' = [provider EXCEPT !.transport = FALSE, !.connected = b]
    BY <1>3 DEF OnTransportDisconnected, WithoutTransport
  <2>3. (session' = s /\ worker' = w) \/ (session' = session /\ worker' = IdleWorker)
    BY <1>3 DEF OnTransportDisconnected
  <2>4. n \in Session /\ n.deferred = "none"
    BY <1>1, NewTurnIs
  <2> HIDE DEF b, n
  <2>5. provider' \in Provider
    BY <1>1, <2>1, <2>2 DEF Provider
  <2>6. s \in Session /\ s.deferred = "none" /\ s.state = "starting"
    BY <2>4 DEF Session, States
  <2>7. w \in Working /\ w.at = "generation"
    BY <1>1, Defaults DEF Working
  <2> HIDE DEF s, w
  <2> QED
    BY <1>1, <2>3, <2>5, <2>6, <2>7, Defaults, WorkerStep
<1>4. CASE OnHello
  <2> DEFINE b == provider.connected \/ provider.transport
             s == [session EXCEPT !.state = "ready"]
  <2>1. b \in BOOLEAN
    OBVIOUS
  <2>2. provider' = [provider EXCEPT !.connected = b] /\ worker' = IdleWorker
    BY <1>4 DEF OnHello
  <2>3. session' = s \/ session' = session
    BY <1>4 DEF OnHello
  <2> HIDE DEF b
  <2>4. provider' \in Provider
    BY <1>1, <2>1, <2>2 DEF Provider
  <2>5. /\ s \in Session /\ s.state = "ready" /\ s.deferred = session.deferred
        /\ s.fence = session.fence
    BY <1>1 DEF Session, States
  <2> HIDE DEF s
  <2> QED
    BY <1>1, <2>2, <2>3, <2>4, <2>5, Defaults, WorkerStep
<1> QED
  BY <1>2, <1>3, <1>4

\* A text is recognised; a stream starts, is played and stops capture.
LEMMA StreamSteps ==
    ASSUME IInv, OnAsrText \/ OnTtsStarted \/ StopInputForTts \/ HandleAudio
    PROVE  IInv'
<1>1. /\ session \in Session /\ session.generation \in Nat /\ provider' \in Provider
      /\ provider' = provider
      /\ UNCHANGED <<op, plan, rx, cut, server>>
  BY WorkerTypes DEF OnAsrText, OnTtsStarted, StopInputForTts, HandleAudio, caller, remote, history
<1>2. CASE OnAsrText
  <2> DEFINE s == [session EXCEPT !.armed = TRUE, !.finalAsr = FALSE]
  <2>1. (session' = s \/ session' = session) /\ worker' = IdleWorker /\ heard' = heard
    BY <1>2 DEF OnAsrText, history
  <2>2. /\ s \in Session /\ s.state = session.state /\ s.deferred = session.deferred
        /\ s.fence = session.fence
    BY <1>1 DEF Session
  <2> HIDE DEF s
  <2> QED
    BY <1>1, <2>1, <2>2, Defaults, WorkerStep
<1>3. CASE OnTtsStarted
  <2> DEFINE s == [session EXCEPT !.state = "speaking"]
             w == [IdleWorker EXCEPT !.at = "stopInput", !.generation = session.generation]
  <2>1. /\ worker.at = "event" /\ worker.kind = "start"
        /\ \/ session' = s /\ (worker' = w \/ worker' = IdleWorker) /\ heard' = worker.stream
           \/ session' = session /\ worker' = IdleWorker /\ heard' = heard
    BY <1>3 DEF OnTtsStarted, Handles
  <2>2. s \in Session /\ s.deferred = session.deferred /\ s.fence = session.fence
    BY <1>1 DEF Session, States
  <2>3. w \in Working /\ w.at = "stopInput"
    BY <1>1, Defaults DEF Working
  <2> HIDE DEF s, w
  <2>4. CASE session' = s /\ (worker' = w \/ worker' = IdleWorker) /\ heard' = worker.stream
    <3>1. worker' \in Working /\ worker'.at # "event" /\ Streaming(worker)
      BY <2>1, <2>3, <2>4, Defaults DEF Streaming
    <3> QED
      BY <1>1, <2>1, <2>2, <2>4, <3>1, HearStep
  <2>5. CASE session' = session /\ worker' = IdleWorker /\ heard' = heard
    BY <1>1, <2>5, Defaults, WorkerStep
  <2> QED
    BY <2>1, <2>4, <2>5
<1>4. CASE StopInputForTts
  <2> DEFINE s == [session EXCEPT !.state = "failed"]
  <2>1. (session' = s \/ session' = session) /\ worker' = IdleWorker /\ heard' = heard
    BY <1>4 DEF StopInputForTts, history
  <2>2. /\ s \in Session /\ s.state = "failed" /\ s.deferred = session.deferred
        /\ s.fence = session.fence
    BY <1>1 DEF Session, States
  <2> HIDE DEF s
  <2> QED
    BY <1>1, <2>1, <2>2, Defaults, WorkerStep
<1>5. CASE HandleAudio
  <2>1. /\ worker.at = "event" /\ worker.kind = "audio" /\ session' = session
        /\ worker' = IdleWorker
        /\ \/ session.state = "speaking" /\ heard' = worker.stream
           \/ heard' = heard
    BY <1>5 DEF HandleAudio, Handles, PlaysAudio
  <2>2. CASE session.state = "speaking" /\ heard' = worker.stream
    <3>1. Streaming(worker)
      BY <2>1 DEF Streaming
    <3> QED
      BY <1>1, <2>1, <2>2, <3>1, Defaults, HearStep
  <2>3. CASE heard' = heard
    BY <1>1, <2>1, <2>3, Defaults, WorkerStep
  <2> QED
    BY <2>1, <2>2, <2>3
<1> QED
  BY <1>2, <1>3, <1>4, <1>5

\* A stream stops; what HandleEvent does after its section.
LEMMA StopSteps ==
    ASSUME IInv, \/ \E aborted \in BOOLEAN : OnTtsStopped(aborted)
                 \/ PassGeneration \/ ReleaseDeferred
    PROVE  IInv'
<1>1. /\ session \in Session /\ session.generation + 1 \in Nat /\ provider \in Provider
      /\ session.armed \in BOOLEAN /\ worker \in Working /\ worker.generation \in Nat
      /\ session.deferred \in {"none", "ack", "speech"} /\ provider.connected \in BOOLEAN
      /\ UNCHANGED <<op, plan, rx, heard, cut, server>>
  BY WorkerTypes DEF OnTtsStopped, PassGeneration, ReleaseDeferred, caller, remote, history
<1>2. ASSUME NEW aborted \in BOOLEAN, OnTtsStopped(aborted) PROVE IInv'
  <2> DEFINE s == [session EXCEPT !.fence = FALSE, !.armed = FALSE, !.finalAsr = FALSE,
                                  !.deferred = "none"]
             t == [session EXCEPT !.state = "ready", !.armed = FALSE, !.generation = @ + 1]
             u == [session EXCEPT !.state = "ready", !.armed = FALSE]
             d == [IdleWorker EXCEPT !.at = "deferred", !.kind = session.deferred]
             g == [IdleWorker EXCEPT !.at = "generation", !.generation = session.generation + 1]
  <2>1. /\ provider' = provider
        /\ worker' \in {IdleWorker, d, g} /\ session' \in {session, s, t, u}
    BY <1>2 DEF OnTtsStopped
  <2>2. d \in Working /\ d.at = "deferred" /\ g \in Working /\ g.at = "generation"
    BY <1>1, Defaults DEF Working
  <2>3. s \in Session /\ s.state = session.state /\ s.deferred = "none"
    BY <1>1 DEF Session
  <2>4. /\ t \in Session /\ t.state = "ready" /\ t.deferred = session.deferred
        /\ t.fence = session.fence
    BY <1>1 DEF Session, States
  <2>5. /\ u \in Session /\ u.state = "ready" /\ u.deferred = session.deferred
        /\ u.fence = session.fence
    BY <1>1 DEF Session, States
  <2> HIDE DEF s, t, u, d, g
  <2>6. worker' \in Working /\ worker'.at # "event"
    BY <2>1, <2>2, Defaults
  <2>7. /\ session' \in Session /\ (session'.state = "speaking" => session.state = "speaking")
        /\ session'.deferred # "none" =>
             session'.deferred = session.deferred /\ session'.fence = session.fence
    BY <1>1, <2>1, <2>3, <2>4, <2>5
  <2> QED
    BY <1>1, <2>1, <2>6, <2>7, WorkerStep
<1>3. CASE PassGeneration
  <2>1. provider' \in Provider /\ session' = session /\ worker' = IdleWorker
    BY <1>1, <1>3 DEF PassGeneration, SetGeneration, Provider
  <2> QED
    BY <1>1, <2>1, Defaults, WorkerStep
<1>4. CASE ReleaseDeferred
  <2> DEFINE s == [session EXCEPT !.armed = TRUE]
             w == [worker EXCEPT !.at = "send"]
  <2>1. PICK b \in BOOLEAN :
          /\ provider' = provider
          /\ session' \in {session, s, [session EXCEPT !.armed = b]}
          /\ worker' \in {IdleWorker, w}
    <3>1. CASE worker.at = "deferred"
      <4>1. provider' = provider /\ session' \in {session, s} /\ worker' \in {IdleWorker, w}
        BY <1>4, <3>1 DEF ReleaseDeferred
      <4> QED
        BY <4>1
    <3>2. CASE worker.at # "deferred"
      <4>1. PICK sent \in Sends : /\ session' = [session EXCEPT !.armed = @ /\ sent]
                                  /\ worker' = IdleWorker /\ provider' = provider
        BY <1>4, <3>2 DEF ReleaseDeferred
      <4> DEFINE b == session.armed /\ sent
      <4>2. b \in BOOLEAN
        OBVIOUS
      <4>3. session' = [session EXCEPT !.armed = b]
        BY <4>1
      <4> HIDE DEF b
      <4> QED
        BY <4>1, <4>2, <4>3
    <3> QED
      BY <3>1, <3>2
  <2> DEFINE x == [session EXCEPT !.armed = b]
  <2>2. /\ s \in Session /\ s.state = session.state /\ s.deferred = session.deferred
        /\ s.fence = session.fence
    BY <1>1 DEF Session
  <2>3. /\ x \in Session /\ x.state = session.state /\ x.deferred = session.deferred
        /\ x.fence = session.fence
    BY <1>1 DEF Session
  <2>4. w \in Working /\ w.at = "send"
    BY <1>1 DEF Working
  <2>5. provider' = provider /\ session' \in {session, s, x} /\ worker' \in {IdleWorker, w}
    BY <2>1
  <2> HIDE DEF s, x, w
  <2>6. worker' \in Working /\ worker'.at # "event"
    BY <2>4, <2>5, Defaults
  <2>7. /\ session' \in Session /\ session'.state = session.state
        /\ session'.deferred = session.deferred /\ session'.fence = session.fence
    BY <1>1, <2>2, <2>3, <2>5
  <2> QED
    BY <1>1, <2>5, <2>6, <2>7, WorkerStep
<1> QED
  BY <1>2, <1>3, <1>4

-----------------------------------------------------------------------------
(* The network and the server.                                             *)

\* Envelopes arrive: those of a stream are the server's newest, its start first.
LEMMA ArriveStep ==
    ASSUME IInv, NEW ks \in Seq(EnvelopeKinds), NEW s \in Nat, Arrive(ks, s), server' \in Server,
           \/ server'.next = server.next /\ \A i \in DOMAIN ks : ks[i] \notin {"start", "audio"}
           \/ server'.next = server.next + 1 /\ s = server.next /\ ks = <<"start", "audio">>,
           UNCHANGED <<session, provider, op, plan, worker, heard, cut>>
    PROVE  IInv'
<1>1. /\ Typed /\ PlanInv /\ DeferInv /\ QueueInv /\ HeardInv /\ rx \in Seq(Envelope)
      /\ provider.generation \in Nat /\ server.next \in Nat
  BY DEF IInv, Typed, Provider, Server
<1> DEFINE add == [i \in 1..Len(ks) |->
                     [kind |-> ks[i], stream |-> s, generation |-> provider.generation]]
<1>2. rx' = rx \o add
  BY DEF Arrive
<1>3. /\ Len(ks) \in Nat /\ DOMAIN ks = 1..Len(ks) /\ DOMAIN add = 1..Len(ks)
      /\ \A i \in 1..Len(ks) :
           add[i] \in Envelope /\ add[i].kind = ks[i] /\ add[i].stream = s
  BY <1>1 DEF Envelope
<1>4. add \in Seq(Envelope) /\ Len(add) = Len(ks)
  BY <1>3
<1> HIDE DEF add
<1>5. rx' \in Seq(Envelope)
  BY <1>1, <1>2, <1>4
<1>6. /\ DOMAIN rx' = 1..(Len(rx) + Len(ks)) /\ Len(rx) \in Nat /\ DOMAIN rx = 1..Len(rx)
      /\ \A i \in DOMAIN rx' : IF i <= Len(rx) THEN rx'[i] = rx[i] ELSE rx'[i] = add[i - Len(rx)]
  <2>1. Len(rx) \in Nat /\ DOMAIN rx = 1..Len(rx)
    BY <1>1
  <2>2. /\ rx \o add \in Seq(Envelope) /\ Len(rx \o add) = Len(rx) + Len(add)
        /\ \A i \in 1..(Len(rx) + Len(add)) :
             (rx \o add)[i] = IF i <= Len(rx) THEN rx[i] ELSE add[i - Len(rx)]
    <3>1. rx \in Seq(Envelope) /\ add \in Seq(Envelope)
      BY <1>1, <1>4
    <3> QED
      BY <3>1, ConcatProperties, Zenon
  <2>3. DOMAIN rx' = 1..(Len(rx) + Len(ks))
    BY <1>2, <1>4, <2>2
  <2> QED
    BY <1>2, <1>4, <2>1, <2>2, <2>3
<1>7. /\ server.next <= server'.next
      /\ \A i \in 1..Len(ks) : Streaming(add[i]) =>
           /\ add[i].stream = server.next /\ server'.next = server.next + 1
           /\ add[i].kind = "start" => i = 1
  <2>1. CASE server'.next = server.next /\ \A i \in DOMAIN ks : ks[i] \notin {"start", "audio"}
    BY <1>1, <1>3, <2>1 DEF Streaming
  <2>2. CASE server'.next = server.next + 1 /\ s = server.next /\ ks = <<"start", "audio">>
    <3>1. \A i \in 1..Len(ks) : ks[i] = "start" => i = 1
      BY <2>2
    <3> QED
      BY <1>1, <1>3, <2>2, <3>1
  <2> QED
    BY <2>1, <2>2
<1>8. \A i \in DOMAIN rx : rx[i].stream \in Nat
  BY <1>1, StreamsAreNumbers
<1>9. server'.next \in Nat /\ worker.stream \in Nat
  BY <1>1, StreamsAreNumbers DEF Server
<1>10. HeardInv'
  BY <1>1, <1>7, <1>9 DEF HeardInv
<1>11. ASSUME NEW i \in DOMAIN rx', NEW f, f = rx'[i] PROVE Ahead(f)'
  <2>1. CASE i <= Len(rx)
    <3>1. i \in DOMAIN rx /\ f = rx[i]
      BY <1>6, <1>11, <2>1
    <3>2. Ahead(f) /\ f.stream \in Nat
      BY <1>1, <1>8, <3>1 DEF QueueInv
    <3> QED
      BY <1>1, <1>7, <1>9, <3>2 DEF Ahead
  <2>2. CASE ~(i <= Len(rx))
    <3>1. i - Len(rx) \in 1..Len(ks) /\ f = add[i - Len(rx)]
      BY <1>3, <1>6, <1>11, <2>2
    <3>2. Streaming(f) => f.stream = server.next /\ server'.next = server.next + 1
      BY <1>7, <3>1
    <3> QED
      BY <1>1, <3>2 DEF Ahead, HeardInv
  <2> QED
    BY <2>1, <2>2
<1>12. ASSUME NEW j \in DOMAIN rx', ~(j <= Len(rx)), NEW e, Streaming(e), e.stream \in Nat,
              e.stream < server.next
       PROVE  After(e, rx'[j])
  <2>1. j - Len(rx) \in 1..Len(ks) /\ rx'[j] = add[j - Len(rx)]
    BY <1>3, <1>6, <1>12
  <2>2. Streaming(rx'[j]) => rx'[j].stream = server.next
    BY <1>7, <2>1
  <2> QED
    BY <1>1, <1>12, <2>2 DEF After
<1>13. ASSUME NEW i \in DOMAIN rx', NEW j \in DOMAIN rx', i < j
       PROVE  After(rx'[i], rx'[j])
  <2>1. CASE j <= Len(rx)
    <3>1. i \in DOMAIN rx /\ j \in DOMAIN rx /\ rx'[i] = rx[i] /\ rx'[j] = rx[j]
      BY <1>3, <1>6, <1>13, <2>1
    <3> QED
      BY <1>1, <1>13, <3>1 DEF QueueInv
  <2>2. CASE i <= Len(rx) /\ ~(j <= Len(rx))
    <3>1. i \in DOMAIN rx /\ rx'[i] = rx[i]
      BY <1>3, <1>6, <1>13, <2>2
    <3>2. Streaming(rx[i]) => rx[i].stream \in Nat /\ rx[i].stream < server.next
      BY <1>1, <1>8, <3>1 DEF QueueInv, Ahead
    <3>3. CASE Streaming(rx[i])
      BY <1>12, <2>2, <3>1, <3>2, <3>3
    <3>4. CASE ~Streaming(rx[i])
      BY <3>1, <3>4 DEF After
    <3> QED
      BY <3>3, <3>4
  <2>3. CASE ~(i <= Len(rx))
    <3>1. /\ i - Len(rx) \in 1..Len(ks) /\ j - Len(rx) \in 1..Len(ks) /\ j - Len(rx) # 1
          /\ rx'[i] = add[i - Len(rx)] /\ rx'[j] = add[j - Len(rx)]
      BY <1>3, <1>6, <1>13, <2>3
    <3>2. /\ Streaming(rx'[i]) => rx'[i].stream = server.next
          /\ Streaming(rx'[j]) => rx'[j].stream = server.next /\ rx'[j].kind # "start"
      BY <1>7, <3>1
    <3> QED
      BY <1>1, <3>2 DEF After
  <2> QED
    BY <1>3, <1>6, <1>13, <2>1, <2>2, <2>3
<1>14. ASSUME worker.at = "event"
       PROVE  Ahead(worker)' /\ \A j \in DOMAIN rx' : After(worker, rx'[j])
  <2>1. Ahead(worker) /\ \A j \in DOMAIN rx : After(worker, rx[j])
    BY <1>1, <1>14 DEF QueueInv
  <2>2. Ahead(worker)'
    BY <1>1, <1>7, <1>9, <2>1 DEF Ahead, Streaming
  <2>3. ASSUME NEW j \in DOMAIN rx' PROVE After(worker, rx'[j])
    <3>1. CASE j <= Len(rx)
      BY <1>6, <2>1, <3>1
    <3>2. CASE ~(j <= Len(rx)) /\ Streaming(worker)
      <4>1. worker.stream < server.next
        BY <2>1, <3>2 DEF Ahead
      <4> QED
        BY <1>9, <1>12, <3>2, <4>1
    <3>3. CASE ~Streaming(worker)
      BY <3>3 DEF After
    <3> QED
      BY <3>1, <3>2, <3>3
  <2> QED
    BY <2>2, <2>3
<1>15. QueueInv'
  BY <1>11, <1>13, <1>14 DEF QueueInv, Ahead, After, Streaming
<1>16. PlanInv' /\ DeferInv'
  BY <1>1, DeferStays
<1> QED
  BY <1>1, <1>5, <1>10, <1>15, <1>16 DEF IInv, Typed

\* One envelope that is not of a stream.
LEMMA ArriveOne ==
    ASSUME IInv, NEW k \in EnvelopeKinds \ {"start", "audio"}, NEW s \in Nat, Arrive(<<k>>, s),
           server' \in Server, server'.next = server.next,
           UNCHANGED <<session, provider, op, plan, worker, heard, cut>>
    PROVE  IInv'
<1>1. <<k>> \in Seq(EnvelopeKinds) /\ \A i \in DOMAIN <<k>> : <<k>>[i] \notin {"start", "audio"}
  OBVIOUS
<1> QED
  BY <1>1, ArriveStep

\* The steps of the network and the server.
LEMMA EnvironmentSteps ==
    ASSUME IInv, Environment
    PROVE  IInv'
<1>1. /\ Typed /\ server \in Server /\ server.stream \in Nat /\ server.next \in Nat
      /\ server.owed \in Nat /\ server.next + 1 \in Nat /\ server.owed + 1 \in Nat
      /\ server.owed > 0 => server.owed - 1 \in Nat
      /\ UNCHANGED <<session, provider, op, plan, worker, heard, cut>>
  <2>1. Typed /\ server \in Server
    BY DEF IInv, Typed
  <2>2. server.stream \in Nat /\ server.next \in Nat /\ server.owed \in Nat
    BY <2>1 DEF Server
  <2>3. /\ server.next + 1 \in Nat /\ server.owed + 1 \in Nat
        /\ server.owed > 0 => server.owed - 1 \in Nat
    BY <2>2
  <2> QED
    BY <2>1, <2>2, <2>3 DEF Environment, LinkDown, LinkUp, ServerReads, ServerStreams, caller, history
<1>2. /\ {"disconnected", "connected", "hello", "stt", "stop", "aborted"} \subseteq
           EnvelopeKinds \ {"start", "audio"}
      /\ NoStream \in Nat
  BY DEF EnvelopeKinds, NoStream
<1>3. CASE LinkDown
  <2>1. /\ Arrive(<<"disconnected">>, NoStream)
        /\ server' = [server EXCEPT !.hello = FALSE, !.stream = NoStream, !.owed = 0]
    BY <1>3 DEF LinkDown
  <2>2. server' \in Server /\ server'.next = server.next
    BY <1>1, <1>2, <2>1 DEF Server
  <2> QED
    BY <1>1, <1>2, <2>1, <2>2, ArriveOne
<1>4. CASE LinkUp
  <2>1. Arrive(<<"connected">>, NoStream) /\ server' = server
    BY <1>4 DEF LinkUp
  <2> QED
    BY <1>1, <1>2, <2>1, ArriveOne
<1>5. CASE ServerReads
  <2> DEFINE h == [server EXCEPT !.hello = TRUE]
             o == [server EXCEPT !.owed = @ + 1]
             n == [server EXCEPT !.stream = NoStream]
  <2>1. \/ server' = h /\ Arrive(<<"hello">>, NoStream)
        \/ server' = o /\ rx' = rx
        \/ server' = o /\ Arrive(<<"stt">>, NoStream)
        \/ server' = n /\ \E end \in {"stop", "aborted"} : Arrive(<<end>>, server.stream)
        \/ server' = server /\ rx' = rx
    BY <1>5 DEF ServerReads
  <2>2. /\ h \in Server /\ h.next = server.next /\ n \in Server /\ n.next = server.next
        /\ o \in Server /\ o.next = server.next
    <3>1. h \in Server /\ h.next = server.next
      BY <1>1 DEF Server
    <3>2. o \in Server /\ o.next = server.next
      BY <1>1 DEF Server
    <3>3. n \in Server /\ n.next = server.next
      BY <1>1, <1>2 DEF Server
    <3> QED
      BY <3>1, <3>2, <3>3
  <2> HIDE DEF h, o, n
  <2>3. server' \in Server /\ server'.next = server.next
    BY <1>1, <2>1, <2>2
  <2>4. CASE rx' = rx
    <3>1. QueueInv' /\ HeardInv'
      BY <1>1, <2>3, <2>4, QueueStays DEF IInv
    <3>2. PlanInv' /\ DeferInv'
      BY <1>1, DeferStays DEF IInv
    <3> QED
      BY <1>1, <2>3, <2>4, <3>1, <3>2 DEF IInv, Typed
  <2>5. CASE Arrive(<<"hello">>, NoStream) \/ Arrive(<<"stt">>, NoStream)
    BY <1>1, <1>2, <2>3, <2>5, ArriveOne
  <2>6. ASSUME NEW end \in {"stop", "aborted"}, Arrive(<<end>>, server.stream) PROVE IInv'
    BY <1>1, <1>2, <2>3, <2>6, ArriveOne
  <2> QED
    BY <2>1, <2>4, <2>5, <2>6
<1>6. CASE ServerStreams
  <2>1. CASE /\ server.owed > 0 /\ Arrive(<<"start", "audio">>, server.next)
             /\ server' = [server EXCEPT !.stream = server.next, !.next = @ + 1, !.owed = @ - 1]
    <3>1. server' \in Server /\ server'.next = server.next + 1
      <4>1. server.owed - 1 \in Nat
        BY <1>1, <2>1
      <4> QED
        BY <1>1, <2>1, <4>1 DEF Server
    <3>2. <<"start", "audio">> \in Seq(EnvelopeKinds)
      BY DEF EnvelopeKinds
    <3> QED
      BY <1>1, <2>1, <3>1, <3>2, ArriveStep
  <2>2. CASE /\ server' = [server EXCEPT !.stream = NoStream]
             /\ Arrive(<<"stop">>, server.stream)
    <3>1. server' \in Server /\ server'.next = server.next
      BY <1>1, <1>2, <2>2 DEF Server
    <3> QED
      BY <1>1, <1>2, <2>2, <3>1, ArriveOne
  <2> QED
    BY <1>6, <2>1, <2>2 DEF ServerStreams
<1> QED
  BY <1>3, <1>4, <1>5, <1>6 DEF Environment

-----------------------------------------------------------------------------
(* The theorems.                                                           *)

\* The session begins ready, with nothing queued, heard or deferred.
LEMMA InitIsGood == Init => IInv
<1> SUFFICES ASSUME Init PROVE IInv
  OBVIOUS
<1>1. op = NoOp /\ plan = <<>> /\ rx = <<>> /\ worker = IdleWorker /\ heard = 0 /\ cut = {}
  BY DEF Init
<1>2. session \in Session /\ session.deferred = "none" /\ session.state = "ready"
  BY DEF Init, Session, States
<1>3. provider \in Provider /\ server \in Server /\ server.next = 1
  BY DEF Init, Provider, Server, NoStream
<1>4. Typed
  BY <1>1, <1>2, <1>3, Defaults DEF Typed, Plans
<1>5. PlanInv /\ DeferInv
  BY <1>1, <1>2, Defaults DEF PlanInv, DeferInv
<1>6. QueueInv
  BY <1>1, Defaults DEF QueueInv
<1>7. HeardInv
  BY <1>1, <1>2, <1>3 DEF HeardInv
<1> QED
  BY <1>4, <1>5, <1>6, <1>7 DEF IInv

\* The invariant holds for every set of requests and every bound.
THEOREM Inductive == Spec => []IInv
<1>1. IInv /\ [Next]_vars => IInv'
  <2> SUFFICES ASSUME IInv, [Next]_vars PROVE IInv'
    OBVIOUS
  <2>1. CASE UNCHANGED vars
    BY <2>1 DEF IInv, Typed, PlanInv, DeferInv, QueueInv, HeardInv, Ahead, After, Streaming, vars
  <2>2. CASE Operation
    BY <2>2, BeginSteps, InterruptSteps, TurnSteps, InterruptCallSteps, SpeakSteps, CaptureSteps,
       EndSteps, StopStartSteps DEF Operation, Proceed
  <2>3. CASE Worker
    BY <2>3, TakeStep, ConnectionSteps, StreamSteps, StopSteps DEF Worker
  <2>4. CASE Environment
    BY <2>4, EnvironmentSteps
  <2> QED
    BY <2>1, <2>2, <2>3, <2>4 DEF Next
<1> QED
  BY <1>1, InitIsGood, PTL DEF Spec

\* A stream that was playing when it was interrupted is never heard again: no envelope of it
\* that is still queued can be played (InterruptSection, Take, HandleAudio).
THEOREM CutStaysSilent == Spec => []CutStreamIsSilent
<1>1. IInv => CutStreamIsSilent
  BY DEF IInv, HeardInv, CutStreamIsSilent
<1> QED
  BY <1>1, Inductive, PTL

\* What an interruption defers waits for a fence: no path of an operation, an event or a loss
\* of the connection lowers the fence and leaves it behind.
THEOREM DeferredIsReleased == Spec => []DeferredHasFence
<1>1. IInv => DeferredHasFence
  BY DEF IInv, DeferInv, DeferredHasFence
<1> QED
  BY <1>1, Inductive, PTL
=============================================================================
