---------------------------- MODULE VoiceSession ----------------------------
(***************************************************************************)
(* One voice session: VoiceSession, the Linx provider under it and the     *)
(* receiving half of the WebSocket transport.                              *)
(*                                                                         *)
(* Three parties run at once.  A caller (the wake task of the runtime)     *)
(* works through requests, each a sequence of session operations; an       *)
(* operation holds lifecycle_mutex_ to its end, but mutex_ only inside its *)
(* critical sections, so `op' names where it stands between two of them.   *)
(* The transport worker takes envelopes from the receive queue, drops      *)
(* those stamped with another generation, and runs the provider's and the  *)
(* session's handlers.  The server and the network are external: the       *)
(* server answers requests in order with streams start, audio, stop.       *)
(*                                                                         *)
(* NotifyLocalWakeWord is called with a text response only, as the runtime *)
(* does, so the lease and the echo of the wake word (which exist without   *)
(* one) are never set.  Texts, formats and evidence are left out.          *)
(***************************************************************************)
EXTENDS Naturals, Sequences

CONSTANTS
    Requests,       \* the kinds of request the caller makes
    MaxRequests,    \* how many requests it makes
    MaxDrops,       \* how often the connection is lost
    MaxEnvelopes    \* the receive queue's capacity

ASSUME MaxAssumption ==
    /\ Requests \subseteq {"wake", "interruptAndWake", "interrupt", "reminder", "shake",
                            "startCapture", "stopCapture", "interruptAndStart", "restart"}
    /\ MaxRequests \in Nat /\ MaxDrops \in Nat /\ MaxEnvelopes \in Nat \ {0}

VARIABLES
    session,    \* the fields of VoiceSession
    provider,   \* the fields of LinxSpeechProviderAdapter
    mic,        \* input_ is capturing
    plan, op,   \* operations the caller has left; the one under way
    worker,     \* what the transport worker is doing
    rx, tx,     \* envelopes received, requests on their way to the server
    link, server,
    made, drops,                \* requests made, connections lost so far
    cut, heard                  \* history: see the properties

vars == <<session, provider, mic, plan, op, worker, rx, tx, link, server,
          made, drops, cut, heard>>

caller == <<plan, made>>
remote == <<link, server, drops>>
history == <<cut, heard>>

NoStream == 0
NoOp == [kind |-> "none", at |-> "idle", generation |-> 0, was |-> "ready",
         listening |-> FALSE]
IdleWorker == [at |-> "idle", kind |-> "none", stream |-> NoStream,
               generation |-> 0]

\* The operations of VoiceSession a request of the wake task consists of.
Operations(r) ==
    CASE r = "wake"              -> <<"notify", "beginProvider">>
      [] r = "interruptAndWake"  -> <<"interruptAndNotify">>
      [] r = "interrupt"         -> <<"interrupt">>
      [] r = "reminder"          -> <<"interrupt", "speak">>
      [] r = "shake"             -> <<"interruptAndSpeak">>
      [] r = "startCapture"      -> <<"begin">>
      [] r = "stopCapture"       -> <<"end">>
      [] r = "interruptAndStart" -> <<"interrupt", "begin">>
      [] r = "restart"           -> <<"stop", "start">>

Init ==
    /\ session = [state |-> "ready", generation |-> 1, armed |-> FALSE,
                  fence |-> FALSE, listening |-> FALSE, finalAsr |-> FALSE,
                  deferred |-> "none"]
    /\ provider = [generation |-> 1, transport |-> TRUE, connected |-> TRUE]
    /\ mic = FALSE
    /\ plan = <<>> /\ op = NoOp
    /\ worker = IdleWorker
    /\ rx = <<>> /\ tx = <<>>
    /\ link = "up"
    /\ server = [hello |-> TRUE, stream |-> NoStream, owed |-> 0, next |-> 1]
    /\ made = 0 /\ drops = 0
    /\ cut = {} /\ heard = 0

-----------------------------------------------------------------------------
(* What the operations call.                                               *)

\* Provider and transport take the new generation together; the transport
\* discards what it has not sent yet, a suffix of what is on its way.
SetGeneration(g) ==
    /\ provider' = [provider EXCEPT !.generation = g]
    /\ \E n \in 0..Len(tx) : tx' = SubSeq(tx, 1, n)

\* Whether a message is taken: the provider refuses before hello, the transport
\* when its pool or its queue is full.  What it takes after the link was lost,
\* before its worker has seen the loss, is lost too.
Sends == {FALSE, provider.connected}

Send(kind, sent) ==
    tx' = IF sent /\ link = "up" THEN Append(tx, kind) ELSE tx

\* The operation ends; the caller goes on, or drops the rest of the request.
Return(ok) ==
    /\ op' = NoOp
    /\ plan' = IF ok THEN Tail(plan) ELSE <<>>
    /\ UNCHANGED made

At(kind, at) == op.kind = kind /\ op.at = at
Goto(at) == op' = [op EXCEPT !.at = at]

-----------------------------------------------------------------------------
(* The operations.                                                         *)

MakeRequest(r) ==
    /\ plan = <<>> /\ op = NoOp /\ made < MaxRequests
    /\ plan' = Operations(r)
    /\ made' = made + 1
    /\ UNCHANGED <<session, provider, mic, op, worker, rx, tx, remote,
                   history>>

Begin ==
    /\ op = NoOp /\ plan # <<>>
    /\ op' = [NoOp EXCEPT !.kind = Head(plan), !.at = "section"]
    /\ UNCHANGED <<session, provider, mic, caller, worker, rx, tx, remote,
                   history>>

\* Mutant of NewTurn: what an earlier interruption deferred is left behind.
NewTurnKeepsDeferred(deferred) ==
    [session EXCEPT !.state = "ready", !.generation = @ + 1, !.armed = FALSE,
                    !.listening = FALSE, !.finalAsr = FALSE,
                    !.fence = session.state = "speaking",
                    !.deferred = IF deferred = "none" THEN @ ELSE deferred]

\* Every interruption begins a new generation in the ready state and forgets
\* the turn before; it raises the fence exactly if a stream was playing.
NewTurn(deferred) ==
    [session EXCEPT !.state = "ready", !.generation = @ + 1, !.armed = FALSE,
                    !.listening = FALSE, !.finalAsr = FALSE,
                    !.fence = session.state = "speaking",
                    !.deferred = deferred]

InterruptsIn(kind) ==
    \/ session.state \in {"capturing", "speaking"}
    \/ kind = "interrupt" /\ session.state = "ready" /\ session.finalAsr
    \/ kind = "interrupt" /\ session.listening
    \/ kind = "interruptAndSpeak" /\ session.state = "ready"

Deferred(kind) ==
    CASE kind = "interrupt"          -> "none"
      [] kind = "interruptAndNotify" -> "ack"
      [] kind = "interruptAndSpeak"  -> "speech"

\* The first critical section of Interrupt, InterruptAndNotifyLocalWakeWord
\* and InterruptAndSpeak.  Interrupt succeeds when there is nothing to do.
InterruptSection(kind) ==
    /\ At(kind, "section")
    /\ IF InterruptsIn(kind)
       THEN /\ session' = NewTurn(Deferred(kind))
            /\ op' = [op EXCEPT !.at = "generation",
                                !.generation = session.generation + 1,
                                !.was = session.state,
                                !.listening = session.listening]
            /\ cut' = IF session.state = "speaking" THEN cut \cup {heard} ELSE cut
            /\ heard' = IF session.state = "speaking" THEN 0 ELSE heard
            /\ UNCHANGED caller
       ELSE /\ Return(kind = "interrupt")
            /\ UNCHANGED <<session, cut, heard>>
    /\ UNCHANGED <<provider, mic, worker, rx, tx, remote>>

SetGenerationOfTurn ==
    /\ op.at = "generation"
    /\ SetGeneration(op.generation)
    /\ Goto("calls")
    /\ UNCHANGED <<session, mic, caller, worker, rx, remote, history>>

\* input_.StopCapture, provider_.Abort, output_.Flush; the two operations that
\* speak give up when a call fails, wait for the fence when a stream was
\* playing, and go on to speak otherwise.
InterruptCalls(kind) == \E inputOk \in {TRUE, op.was # "capturing"}, sent \in Sends :
    LET aborts == kind = "interruptAndSpeak" => op.listening \/ op.was = "speaking"
        failed == ~inputOk \/ (aborts /\ ~sent)
    IN
    /\ At(kind, "calls")
    /\ mic' = (mic /\ ~(inputOk /\ op.was = "capturing"))
    /\ IF aborts THEN Send("abort", sent) ELSE UNCHANGED tx
    /\ IF kind = "interrupt"
       THEN Return(~failed) /\ UNCHANGED session
       ELSE IF failed
       THEN /\ session' = [session EXCEPT !.fence = FALSE, !.armed = FALSE,
                                          !.deferred = "none"]
            /\ Return(FALSE)
       ELSE IF op.was = "speaking"
       THEN Return(TRUE) /\ UNCHANGED session
       ELSE /\ session' = [session EXCEPT !.armed = TRUE, !.deferred = "none"]
            /\ Goto(Deferred(kind))
            /\ UNCHANGED caller
    /\ UNCHANGED <<provider, worker, rx, remote, history>>

\* Speak and NotifyLocalWakeWord arm the answer they are about to request.
SpeakSection(kind) ==
    /\ At(kind, "section")
    /\ IF session.state = "ready"
       THEN /\ session' = [session EXCEPT !.armed = TRUE]
            /\ Goto(IF kind = "speak" THEN "speech" ELSE "ack")
            /\ UNCHANGED caller
       ELSE Return(FALSE) /\ UNCHANGED session
    /\ UNCHANGED <<provider, mic, worker, rx, tx, remote, history>>

\* The request itself: the provider sends listen.detect with the text.
SendSpeech(kind) == \E sent \in Sends :
    /\ op.at = kind
    /\ Send(kind, sent)
    /\ session' = [session EXCEPT !.armed = @ /\ sent]
    /\ Return(sent)
    /\ UNCHANGED <<provider, mic, worker, rx, remote, history>>

\* BeginProviderCapture and BeginCapture reserve listen.start; a lease that
\* exists is used again.
BeginSection(kind) ==
    /\ At(kind, "section")
    /\ \/ /\ session.state # "ready"
          /\ Return(FALSE)
          /\ UNCHANGED session
       \/ /\ session.state = "ready" /\ session.listening
          /\ IF kind = "begin" THEN Goto("input") /\ UNCHANGED caller
                               ELSE Return(TRUE)
          /\ UNCHANGED session
       \/ /\ session.state = "ready" /\ ~session.listening
          /\ session' = [session EXCEPT !.listening = TRUE]
          /\ Goto("listen")
          /\ UNCHANGED caller
    /\ UNCHANGED <<provider, mic, worker, rx, tx, remote, history>>

StartListening(kind) == \E sent \in Sends :
    /\ At(kind, "listen")
    /\ Send("listen.start", sent)
    /\ IF sent
       THEN /\ UNCHANGED session
            /\ IF kind = "begin" THEN Goto("input") /\ UNCHANGED caller
                                 ELSE Return(TRUE)
       ELSE /\ session' = [session EXCEPT !.listening = FALSE,
                              !.armed = @ /\ kind = "begin"]
            /\ Return(FALSE)
    /\ UNCHANGED <<provider, mic, worker, rx, remote, history>>

\* The input opens, or fails and listen.start is taken back.
StartInput ==
    /\ At("begin", "input")
    /\ \/ /\ mic' = TRUE
          /\ Goto("capturing")
          /\ UNCHANGED <<session, tx, caller>>
       \/ \E sent \in Sends :
          /\ Send("listen.stop", sent)
          /\ session' = [session EXCEPT !.listening = FALSE, !.armed = FALSE,
                            !.state = IF sent THEN @ ELSE "failed"]
          /\ Return(FALSE)
          /\ UNCHANGED mic
    /\ UNCHANGED <<provider, worker, rx, remote, history>>

\* The last section of BeginCapture: it does not look at the state again.
Capturing ==
    /\ At("begin", "capturing")
    /\ session' = [session EXCEPT !.state = "capturing", !.armed = FALSE,
                                  !.finalAsr = FALSE]
    /\ Return(TRUE)
    /\ UNCHANGED <<provider, mic, worker, rx, tx, remote, history>>

EndSection ==
    /\ At("end", "section")
    /\ IF session.state = "capturing"
       THEN Goto("input") /\ UNCHANGED caller
       ELSE Return(session.state \in {"ready", "speaking"})
    /\ UNCHANGED <<session, provider, mic, worker, rx, tx, remote, history>>

EndInput == \E sent \in Sends :
    /\ At("end", "input")
    /\ Send("listen.stop", sent)
    /\ \/ /\ mic' = FALSE
          /\ Goto(IF sent THEN "stopped" ELSE "unsent")
          /\ UNCHANGED <<session, caller>>
       \/ /\ session' = [session EXCEPT !.state = "failed"]
          /\ Return(FALSE)
          /\ UNCHANGED mic
    /\ UNCHANGED <<provider, worker, rx, remote, history>>

\* The last section of EndCapture: listen.stop was sent, or it was not and the
\* turn is abandoned for a new generation.
Ended ==
    \/ /\ At("end", "stopped")
       /\ session' = [session EXCEPT !.state = "ready", !.listening = FALSE,
                                     !.finalAsr = TRUE]
       /\ Return(TRUE)
       /\ UNCHANGED <<provider, mic, worker, rx, tx, remote, history>>
    \/ /\ At("end", "unsent")
       /\ session' = [session EXCEPT !.state = "ready", !.listening = FALSE,
                                     !.finalAsr = FALSE, !.generation = @ + 1]
       /\ op' = [op EXCEPT !.at = "abandon",
                           !.generation = session.generation + 1]
       /\ UNCHANGED <<provider, mic, caller, worker, rx, tx, remote,
                      history>>

Abandon ==
    /\ At("end", "abandon")
    /\ SetGeneration(op.generation)
    /\ Return(TRUE)
    /\ UNCHANGED <<session, mic, worker, rx, remote, history>>

\* Stop: the section, then the provider is disconnected and the ports closed.
Stop ==
    \/ /\ At("stop", "section")
       /\ session' = [NewTurn("none") EXCEPT !.state = "stopped", !.fence = FALSE]
       /\ Goto("disconnect")
       /\ UNCHANGED <<provider, mic, caller, worker, rx, tx, remote,
                      history>>
    \/ /\ At("stop", "disconnect") /\ worker.at = "idle"
       /\ provider' = [generation |-> 0, transport |-> FALSE, connected |-> FALSE]
       /\ link' = "closed" /\ rx' = <<>> /\ tx' = <<>>
       /\ server' = [server EXCEPT !.hello = FALSE, !.stream = NoStream,
                                   !.owed = 0]
       /\ mic' = FALSE
       /\ Return(TRUE)
       /\ UNCHANGED <<session, worker, drops, history>>

\* Start: a new generation, then the connection with its hello, or the failure
\* of one of the two.
Start ==
    \/ /\ At("start", "section")
       /\ session.state \in {"stopped", "failed"}
       /\ session' = [session EXCEPT !.state = "starting", !.generation = @ + 1,
                         !.armed = FALSE, !.listening = FALSE,
                         !.finalAsr = FALSE, !.fence = FALSE]
       /\ Goto("connect")
       /\ UNCHANGED <<provider, mic, caller, worker, rx, tx, remote,
                      history>>
    \/ /\ At("start", "connect")
       /\ \/ /\ provider' = [generation |-> session.generation,
                             transport |-> TRUE, connected |-> TRUE]
             /\ server' = [server EXCEPT !.hello = TRUE]
             /\ link' = "up"
             /\ session' = [session EXCEPT !.state = "ready"]
             /\ Return(TRUE)
          \/ /\ session' = [session EXCEPT !.state = "failed"]
             /\ Return(FALSE)
             /\ UNCHANGED <<provider, server, link>>
       /\ UNCHANGED <<mic, worker, rx, tx, drops, history>>

Proceed ==
    \/ Begin
    \/ \E k \in {"interrupt", "interruptAndNotify", "interruptAndSpeak"} :
           InterruptSection(k) \/ InterruptCalls(k)
    \/ SetGenerationOfTurn
    \/ \E k \in {"speak", "notify"} : SpeakSection(k)
    \/ \E k \in {"speech", "ack"} : SendSpeech(k)
    \/ \E k \in {"begin", "beginProvider"} : BeginSection(k) \/ StartListening(k)
    \/ StartInput \/ Capturing
    \/ EndSection \/ EndInput \/ Ended \/ Abandon
    \/ Stop \/ Start

Operation == Proceed \/ \E r \in Requests : MakeRequest(r)

-----------------------------------------------------------------------------
(* The transport worker.                                                   *)

\* HandleEnvelope drops whatever was stamped with another generation.
Take ==
    /\ worker.at = "idle" /\ rx # <<>>
    /\ rx' = Tail(rx)
    /\ worker' = IF Head(rx).generation # provider.generation THEN worker
                 ELSE [worker EXCEPT !.at = "event", !.kind = Head(rx).kind,
                                     !.stream = Head(rx).stream]
    /\ UNCHANGED <<session, provider, mic, caller, op, tx, remote, history>>

Handles(kind) == worker.at = "event" /\ worker.kind = kind

\* Emit stamps an event with the provider's generation of now, and
\* HandleEvent compares it with the session's.
IsCurrent == provider.generation = session.generation

OnTransportConnected ==
    /\ Handles("connected")
    /\ IF provider.transport
       THEN UNCHANGED <<provider, tx>>
       ELSE /\ provider' = [provider EXCEPT !.transport = TRUE, !.connected = FALSE]
            /\ tx' = IF link = "up" THEN Append(tx, "hello") ELSE tx
    /\ worker' = IdleWorker
    /\ UNCHANGED <<session, mic, caller, op, rx, remote, history>>

\* Mutant of WithoutTransport: the loss is noted, the transport flag is not reset.
WithoutTransportFlagKept == [provider EXCEPT !.connected = FALSE]

WithoutTransport ==
    [provider EXCEPT !.transport = FALSE, !.connected = @ /\ ~provider.transport]

\* The provider tells the session once; the session leaves the turn.
OnTransportDisconnected ==
    /\ Handles("disconnected")
    /\ provider' = WithoutTransport
    /\ IF /\ provider.transport /\ IsCurrent
          /\ session.state \notin {"stopped", "failed"}
       THEN /\ session' = [NewTurn("none") EXCEPT !.state = "starting",
                                                  !.fence = FALSE]
            /\ worker' = [IdleWorker EXCEPT !.at = "generation",
                              !.generation = session.generation + 1]
       ELSE /\ worker' = IdleWorker
            /\ UNCHANGED session
    /\ UNCHANGED <<mic, caller, op, rx, tx, remote, history>>

\* hello completes: kConnected takes the session from starting to ready.
OnHello ==
    /\ Handles("hello")
    /\ provider' = [provider EXCEPT !.connected = @ \/ provider.transport]
    /\ session' = IF /\ provider.transport /\ ~provider.connected
                     /\ IsCurrent /\ session.state = "starting"
                  THEN [session EXCEPT !.state = "ready"] ELSE session
    /\ worker' = IdleWorker
    /\ UNCHANGED <<mic, caller, op, rx, tx, remote, history>>

\* A recognised text counts while capturing, or once after listen.stop.
OnAsrText ==
    /\ Handles("stt")
    /\ session' =
           IF /\ provider.connected /\ IsCurrent
              /\ \/ session.state = "capturing"
                 \/ session.state = "ready" /\ session.finalAsr
           THEN [session EXCEPT !.armed = TRUE, !.finalAsr = FALSE]
           ELSE session
    /\ worker' = IdleWorker
    /\ UNCHANGED <<provider, mic, caller, op, rx, tx, remote, history>>

AcceptsTts ==
    /\ ~session.fence
    /\ session.armed \/ session.state = "speaking"
    /\ session.state \in {"ready", "capturing", "speaking"}

OnTtsStarted ==
    /\ Handles("start")
    /\ IF provider.connected /\ IsCurrent /\ AcceptsTts
       THEN /\ session' = [session EXCEPT !.state = "speaking"]
            /\ worker' = IF session.state = "capturing"
                         THEN [IdleWorker EXCEPT !.at = "stopInput",
                                   !.generation = session.generation]
                         ELSE IdleWorker
            /\ heard' = worker.stream
       ELSE /\ worker' = IdleWorker
            /\ UNCHANGED <<session, heard>>
    /\ UNCHANGED <<provider, mic, caller, op, rx, tx, remote, cut>>

\* The board has no echo cancellation: capture stops before audio is played.
StopInputForTts ==
    /\ worker.at = "stopInput"
    /\ \/ mic' = FALSE /\ UNCHANGED session
       \/ /\ session' = IF /\ session.generation = worker.generation
                           /\ session.state = "speaking"
                        THEN [session EXCEPT !.state = "failed"] ELSE session
          /\ UNCHANGED mic
    /\ worker' = IdleWorker
    /\ UNCHANGED <<provider, caller, op, rx, tx, remote, history>>

\* Mutant of PlaysAudio: a frame of the current generation is always played.
PlaysCurrentAudio == IsCurrent

\* HandleAudio: a frame is pushed to the output only while speaking.
PlaysAudio == session.state = "speaking" /\ IsCurrent

HandleAudio ==
    /\ Handles("audio")
    /\ heard' = IF provider.connected /\ PlaysAudio THEN worker.stream ELSE heard
    /\ worker' = IdleWorker
    /\ UNCHANGED <<session, provider, mic, caller, op, rx, tx, remote, cut>>

\* The stop of the interrupted stream lowers the fence and releases what was
\* deferred; the server's abort of what plays begins a new generation; a stop
\* in any other state is stale.
OnTtsStopped(aborted) ==
    /\ Handles(IF aborted THEN "aborted" ELSE "stop")
    /\ IF ~(provider.connected /\ IsCurrent)
       THEN worker' = IdleWorker /\ UNCHANGED session
       ELSE IF session.fence
       THEN /\ session' = [session EXCEPT !.fence = FALSE, !.armed = FALSE,
                              !.finalAsr = FALSE, !.deferred = "none"]
            /\ worker' = IF session.deferred = "none" THEN IdleWorker
                         ELSE [IdleWorker EXCEPT !.at = "deferred",
                                                 !.kind = session.deferred]
       ELSE IF session.state # "speaking"
       THEN worker' = IdleWorker /\ UNCHANGED session
       ELSE IF aborted
       THEN /\ session' = [session EXCEPT !.state = "ready", !.armed = FALSE,
                                          !.generation = @ + 1]
            /\ worker' = [IdleWorker EXCEPT !.at = "generation",
                              !.generation = session.generation + 1]
       ELSE /\ session' = [session EXCEPT !.state = "ready", !.armed = FALSE]
            /\ worker' = IdleWorker
    /\ UNCHANGED <<provider, mic, caller, op, rx, tx, remote, history>>

\* What HandleEvent does after its section: the new generation is passed on ...
PassGeneration ==
    /\ worker.at = "generation"
    /\ SetGeneration(worker.generation)
    /\ worker' = IdleWorker
    /\ UNCHANGED <<session, mic, caller, op, rx, remote, history>>

\* ... or the deferred acknowledgement or speech is armed and sent.
ReleaseDeferred ==
    \/ /\ worker.at = "deferred"
       /\ IF session.state = "ready"
          THEN /\ session' = [session EXCEPT !.armed = TRUE]
               /\ worker' = [worker EXCEPT !.at = "send"]
          ELSE worker' = IdleWorker /\ UNCHANGED session
       /\ UNCHANGED <<provider, mic, caller, op, rx, tx, remote, history>>
    \/ \E sent \in Sends :
       /\ worker.at = "send"
       /\ Send(worker.kind, sent)
       /\ session' = [session EXCEPT !.armed = @ /\ sent]
       /\ worker' = IdleWorker
       /\ UNCHANGED <<provider, mic, caller, op, rx, remote, history>>

Worker ==
    \/ Take
    \/ OnTransportConnected \/ OnTransportDisconnected \/ OnHello
    \/ OnAsrText
    \/ OnTtsStarted \/ StopInputForTts
    \/ HandleAudio
    \/ \E aborted \in BOOLEAN : OnTtsStopped(aborted)
    \/ PassGeneration \/ ReleaseDeferred

-----------------------------------------------------------------------------
(* The network and the server.                                             *)

\* Enqueue stamps what arrives with the transport's generation of the moment.
Arrive(kinds, stream) ==
    /\ Len(rx) + Len(kinds) <= MaxEnvelopes
    /\ rx' = rx \o [i \in 1..Len(kinds) |->
                       [kind |-> kinds[i], stream |-> stream,
                        generation |-> provider.generation]]

LinkDown ==
    /\ link = "up" /\ drops < MaxDrops
    /\ link' = "down"
    /\ drops' = drops + 1
    /\ tx' = <<>>
    /\ server' = [server EXCEPT !.hello = FALSE, !.stream = NoStream, !.owed = 0]
    /\ Arrive(<<"disconnected">>, NoStream)
    /\ UNCHANGED <<session, provider, mic, caller, op, worker, history>>

\* The client library reconnects after reconnect_timeout_ms (1 s): by then the
\* worker has dealt with the loss.
LinkUp ==
    /\ link = "down" /\ rx = <<>> /\ worker = IdleWorker
    /\ link' = "up"
    /\ Arrive(<<"connected">>, NoStream)
    /\ UNCHANGED <<session, provider, mic, caller, op, worker, tx, server,
                   drops, history>>

\* The server reads requests in order and, before hello, answers hello only.
ServerReads ==
    LET req == Head(tx)
    IN
    /\ link = "up" /\ tx # <<>>
    /\ tx' = Tail(tx)
    /\ \/ /\ req = "hello"
          /\ server' = [server EXCEPT !.hello = TRUE]
          /\ Arrive(<<"hello">>, NoStream)
       \/ /\ req \in {"speech", "ack"} /\ server.hello
          /\ server' = [server EXCEPT !.owed = @ + 1]
          /\ UNCHANGED rx
       \/ /\ req = "listen.stop" /\ server.hello
          /\ server' = [server EXCEPT !.owed = @ + 1]
          /\ Arrive(<<"stt">>, NoStream)
       \/ /\ req = "abort" /\ server.hello /\ server.stream # NoStream
          /\ server' = [server EXCEPT !.stream = NoStream]
          /\ \E end \in {"stop", "aborted"} : Arrive(<<end>>, server.stream)
       \/ /\ \/ req = "listen.start"
             \/ req = "abort" /\ server.stream = NoStream
             \/ req # "hello" /\ ~server.hello
          /\ UNCHANGED <<server, rx>>
    /\ UNCHANGED <<session, provider, mic, caller, op, worker, link, drops,
                   history>>

\* Streams follow one another: start with some audio, then stop.
ServerStreams ==
    /\ link = "up"
    /\ \/ /\ server.stream = NoStream /\ server.owed > 0
          /\ server' = [server EXCEPT !.stream = server.next, !.next = @ + 1,
                                      !.owed = @ - 1]
          /\ Arrive(<<"start", "audio">>, server.next)
       \/ /\ server.stream # NoStream
          /\ server' = [server EXCEPT !.stream = NoStream]
          /\ Arrive(<<"stop">>, server.stream)
    /\ UNCHANGED <<session, provider, mic, caller, op, worker, tx, link,
                   drops, history>>

Environment == LinkDown \/ LinkUp \/ ServerReads \/ ServerStreams

Next == Operation \/ Worker \/ Environment

\* Operations and the worker are threads that run; the client library
\* reconnects and the server reads and answers.
Fairness ==
    /\ WF_vars(Proceed)
    /\ WF_vars(Worker)
    /\ WF_vars(LinkUp) /\ WF_vars(ServerReads) /\ WF_vars(ServerStreams)

Spec == Init /\ [][Next]_vars
FairSpec == Spec /\ Fairness

-----------------------------------------------------------------------------
(* Properties.                                                             *)

\* A stream that was playing when the user or a reminder interrupted it is
\* never heard again, although its frames are stamped with a generation only
\* when they are handed on (InterruptSection, Take, HandleAudio).
CutStreamIsSilent == heard \notin cut

\* A deferred acknowledgement or speech always has a fence that will release
\* it: no path leaves it behind for a later, unrelated stop.
DeferredHasFence ==
    session.deferred # "none" /\ op.at \notin {"generation", "calls"}
        => session.fence

\* A session that lost its connection is ready again once the link is back,
\* hello having been sent anew (OnTransportConnected).
Reconnects == session.state = "starting" ~> session.state # "starting"
=============================================================================
