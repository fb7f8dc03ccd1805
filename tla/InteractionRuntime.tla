------------------------- MODULE InteractionRuntime -------------------------
(***************************************************************************)
(* The interaction of the board: VoiceInteractionController, the event     *)
(* loop that is its only writer, the WakeTask that carries out its         *)
(* requests, the listen timer and the wake gate in front of the microphone.*)
(*                                                                         *)
(* Callbacks of every thread post into the loop's lanes; the loop changes  *)
(* the controller and posts requests to the WakeTask's queue; the WakeTask *)
(* reads the controller's state without a lock, works on the session and   *)
(* the gate, and posts events back.  The voice session is the one of       *)
(* VoiceSession, its operations atomic here; link and server are external. *)
(* Display, volume, provisioning and texts are left out, and so is the     *)
(* event wakeDetectionAccepted, which changes no state and which a wake    *)
(* word reported with its text, as the runtime reports it, never causes.   *)
(***************************************************************************)
EXTENDS Naturals, Sequences

CONSTANTS
    Inputs,         \* what the user and the reminders may do
    MaxInputs,      \* how often
    MaxUtterances,  \* how often the user speaks into the open microphone
    MaxFaults,      \* connections lost, provider errors, audio ports that fail
    MaxEvents,      \* how many of all these in one behaviour
    ControlCapacity, BestEffortCapacity, BoardCapacity

ASSUME CapacityAssumption ==
    /\ {ControlCapacity, BestEffortCapacity, BoardCapacity} \subseteq Nat \ {0}
    /\ {MaxInputs, MaxUtterances, MaxFaults, MaxEvents} \subseteq Nat

VARIABLES
    ctl,        \* VoiceInteractionController::state_
    lanes,      \* control, best effort and emergency queues of the loop
    timer,      \* the listen timer, its callback, the pending flag
    turn,       \* flags of the loop: wakeAck, speechSeen, terminal, dizzy
    board,      \* wake_queue_
    wake,       \* the WakeTask: where it is, and its request
    gate,       \* WakeGateAudioInput: forwarding_, detector_running_
    session,    \* the voice session, see VoiceSession
    server,     \* streams owed, the stream that plays, listen.stop unanswered
    inputs, utterances, faults

vars == <<ctl, lanes, timer, turn, board, wake, gate, session, server, inputs,
          utterances, faults>>
loop == <<ctl, timer, turn>>
budget == <<inputs, utterances, faults>>

-----------------------------------------------------------------------------
(* VoiceInteractionController::Handle, as its rows: event, the states that  *)
(* accept it, the next state ("same": unchanged) and the action.            *)

Busy == {"listening", "finalizing", "thinking", "speaking"}

UserMoves == {
    <<"bootCompleted", {"booting"}, "standby", "restoreStandby">>,
    <<"toggleChat", {"standby"}, "opening", "startCapture">>,
    <<"toggleChat", {"listening"}, "finalizing", "stopVoiceTurn">>,
    <<"toggleChat", {"speaking", "thinking", "finalizing"}, "interrupting",
      "interruptSession">>,
    <<"pressDown", {"standby"}, "opening", "startCapture">>,
    <<"pressDown", {"speaking", "thinking", "finalizing"}, "interrupting",
      "interruptAndStartCapture">>,
    <<"pressUp", {"listening"}, "finalizing", "stopVoiceTurn">>,
    <<"wakeDetected", {"standby"}, "acknowledging", "startVoiceTurn">>,
    <<"wakeDetected", {"listening"}, "standby", "stopVoiceTurn">>,
    <<"wakeDetected", {"speaking", "thinking"}, "interrupting", "interruptSession">>,
    <<"systemSpeechRequested", Busy \cup {"standby"}, "thinking", "none">>,
    <<"shakeSpeechRequested", Busy \cup {"standby", "opening"}, "opening", "none">>,
    <<"interruptAndAcknowledge", Busy, "interrupting",
      "interruptAndStartVoiceTurn">>,
    <<"interruptRequested", Busy, "interrupting", "interruptSession">> }

SessionMoves == {
    <<"captureStarted", {"opening", "interrupting", "listening"}, "listening", "none">>,
    <<"acknowledgementTimedOut", {"acknowledging", "speaking", "opening"}, "opening",
      "startCapture">>,
    <<"interruptAcknowledged", {"interrupting"}, "listening", "none">>,
    <<"endpointDetected", {"listening"}, "finalizing", "stopVoiceTurn">>,
    <<"noSpeechTimeout", {"listening"}, "standby", "restoreStandby">>,
    <<"finalizationTimedOut", {"finalizing"}, "standby", "restoreStandby">>,
    <<"terminalResponseCompleted", {"speaking"}, "standby", "restoreStandby">>,
    <<"intentReceived", {"listening", "thinking", "finalizing"}, "thinking", "none">>,
    <<"ttsStarted", {"acknowledging", "listening", "thinking", "finalizing", "opening"},
      "speaking", "none">>,
    <<"ttsStopped", {"speaking"}, "opening", "startCapture">>,
    <<"interruptCompleted", {"interrupting"}, "standby", "restoreStandby">>,
    <<"standbyReady", {"standby", "error", "interrupting", "acknowledging", "opening"},
      "standby", "none">>,
    <<"transportDisconnected", {"standby"}, "standby", "restoreStandby">>,
    <<"transportDisconnected", Busy \cup {"opening", "acknowledging", "interrupting",
      "reconnecting"}, "reconnecting", "restoreStandby">>,
    <<"transportConnected", {"booting", "standby"}, "same", "none">>,
    <<"transportConnected", {"reconnecting"}, "standby", "restoreStandby">>,
    <<"failure", {"error"}, "error", "none">>,
    <<"failure", Busy \cup {"standby", "opening", "acknowledging", "interrupting",
      "reconnecting"}, "error", "interruptSession">> }

MovesOf(event) ==
    {m \in UserMoves \cup SessionMoves : m[1] = event /\ ctl \in m[2]}

-----------------------------------------------------------------------------
(* The lanes of the event loop.                                             *)

\* A sequence without the place at which x stands, if there is one.  The
\* emergency lane has one slot for each event.
Without(s, x) ==
    IF \A i \in DOMAIN s : s[i] # x THEN s
    ELSE LET k == CHOOSE i \in DOMAIN s : s[i] = x
         IN  [i \in 1..(Len(s) - 1) |-> IF i < k THEN s[i] ELSE s[i + 1]]

\* A full control queue spills an event into its slot of the emergency lane,
\* where a repetition takes the newer place.
EnqueueEvent(l, event) ==
    IF Len(l.control) < ControlCapacity
    THEN [l EXCEPT !.control = Append(@, event)]
    ELSE [l EXCEPT !.emergency = Append(Without(@, event), event)]

BestEffort == {"tts_first_audio"}
EmergencyEvidence == {"capture_started", "interrupt_ack_requested"}

\* Of the evidence only two kinds have such a slot, the others are dropped.
EnqueueVoiceEvidence(l, evidence) ==
    IF evidence \in BestEffort
    THEN [l EXCEPT !.best =
              Append(IF Len(@) < BestEffortCapacity THEN @ ELSE Tail(@), evidence)]
    ELSE IF Len(l.control) < ControlCapacity \/ evidence \in EmergencyEvidence
    THEN EnqueueEvent(l, evidence)
    ELSE [l EXCEPT !.dropped = TRUE]

\* The loop serves emergency events, then a timeout, control, best effort.
Lane ==
    CASE lanes.emergency # <<>> -> "emergency"
      [] lanes.emergency = <<>> /\ timer.pending # "no" -> "timeout"
      [] lanes.emergency = <<>> /\ timer.pending = "no" /\ lanes.control # <<>> -> "control"
      [] OTHER -> "best"

Quiet == lanes.emergency = <<>> /\ lanes.control = <<>> /\ lanes.best = <<>>

-----------------------------------------------------------------------------
(* The listen timer.                                                        *)

\* Both calls take a new epoch: a callback that has read the old one is stale.
Outdated(t) == IF t.firing \in {"no", "called"} THEN t.firing ELSE "stale"
StartListenTimer(t) ==
    [armed |-> TRUE, firing |-> Outdated(t), pending |-> "no"]
CancelListenTimer(t) ==
    [armed |-> FALSE, firing |-> Outdated(t), pending |-> "no"]

\* The callback is called, reads the epoch, and posts outside the lanes.
ListenTimeout ==
    /\ \/ /\ timer.armed /\ timer.firing = "no"
          /\ timer' = [timer EXCEPT !.armed = FALSE, !.firing = "called"]
       \/ /\ timer.firing = "called"
          /\ timer' = [timer EXCEPT !.firing = "fresh"]
       \/ /\ timer.firing \in {"fresh", "stale"}
          /\ timer' = [timer EXCEPT !.firing = "no", !.pending = timer.firing]
    /\ UNCHANGED <<ctl, lanes, turn, board, wake, gate, session, server, budget>>

-----------------------------------------------------------------------------
(* The voice session: what its operations and its handlers do at once.      *)

Init ==
    /\ ctl = "booting"
    /\ lanes = [control |-> <<"bootCompleted">>, best |-> <<>>, emergency |-> <<>>,
                dropped |-> FALSE]
    /\ timer = [armed |-> FALSE, firing |-> "no", pending |-> "no"]
    /\ turn = [wakeAck |-> "no", speechSeen |-> FALSE, terminal |-> FALSE,
               dizzy |-> FALSE]
    /\ board = <<>>
    /\ wake = [at |-> "idle", request |-> <<>>]
    /\ gate = [forwarding |-> FALSE, detector |-> FALSE]
    /\ session = [state |-> "ready", armed |-> FALSE, fence |-> FALSE,
                  deferred |-> "none", finalAsr |-> FALSE, lease |-> FALSE,
                  vad |-> "silent"]
    /\ server = [owed |-> <<>>, stream |-> "none", audible |-> FALSE,
                 hears |-> FALSE]
    /\ inputs = 0 /\ utterances = 0 /\ faults = 0

\* The bounds on what comes from outside.
MayHappen == inputs + utterances + faults < MaxEvents
MayAct == MayHappen /\ inputs < MaxInputs
MayUtter == MayHappen /\ utterances < MaxUtterances
MayFail == MayHappen /\ faults < MaxFaults

StopCapture(g) == [forwarding |-> FALSE, detector |-> FALSE]
StartStandby(g) == IF g.forwarding THEN g ELSE [g EXCEPT !.detector = TRUE]

NewTurn(deferred) ==
    [session EXCEPT !.state = "ready", !.armed = FALSE, !.lease = FALSE,
                    !.finalAsr = FALSE, !.fence = session.state = "speaking",
                    !.deferred = deferred]

InterruptedGate == IF session.state = "capturing" THEN StopCapture(gate) ELSE gate

\* VoiceSession::Interrupt; it succeeds when there is nothing to interrupt.
Interrupted ==
    IF \/ session.state \in {"capturing", "speaking"} \/ session.lease
       \/ session.state = "ready" /\ session.finalAsr
    THEN NewTurn("none") ELSE session

InterruptSession == session' = Interrupted /\ gate' = InterruptedGate

Owe(kind) == [server EXCEPT !.owed = Append(@, kind)]

-----------------------------------------------------------------------------
(* The event loop.                                                          *)

NewTurnEvents == {"toggleChat", "pressDown", "wakeDetected",
                  "interruptAndAcknowledge", "interruptRequested",
                  "transportDisconnected", "failure"}
DizzyEnds == {"ttsStopped", "standbyReady", "transportDisconnected", "failure"}

\* Mutant of ExpectedPhase: the phase the event was met in.
ExpectedPhaseBefore(next) == ctl

\* The phase a queued request is meant for: the one the event has led to.
ExpectedPhase(next) == next

\* HandleInteractionEvent on the state of now, with l the lanes: the controller
\* moves, then the request is queued; a full board queue becomes a failure.
Handled(event, l) ==
    LET moves == MovesOf(event)
        move == CHOOSE m \in moves : TRUE
        next == IF move[3] = "same" THEN ctl ELSE move[3]
        request == [kind |-> move[4], expected |-> ExpectedPhase(next),
                    settle |-> next # "reconnecting"]
    IN  IF moves = {}
        THEN [moved |-> FALSE, ok |-> FALSE, ctl |-> ctl, lanes |-> l, board |-> board]
        ELSE IF move[4] = "none"
        THEN [moved |-> TRUE, ok |-> TRUE, ctl |-> next, lanes |-> l, board |-> board]
        ELSE IF Len(board) < BoardCapacity
        THEN [moved |-> TRUE, ok |-> TRUE, ctl |-> next, lanes |-> l,
              board |-> Append(board, request)]
        ELSE [moved |-> TRUE, ok |-> FALSE, ctl |-> next,
              lanes |-> EnqueueEvent(l, "failure"), board |-> board]

TurnAfter(t, event) ==
    [t EXCEPT !.terminal = @ /\ event \notin NewTurnEvents,
              !.dizzy = @ /\ event \notin DizzyEnds]

HandleInteractionEvent(event, l, t) ==
    LET h == Handled(event, l) IN
    /\ ctl' = h.ctl
    /\ lanes' = h.lanes
    /\ board' = h.board
    /\ turn' = IF h.moved THEN TurnAfter(t, event) ELSE t

Rest(lane) == [lanes EXCEPT ![lane] = Tail(@)]

\* QueueSystemSpeech: the event first, then the request.
QueueSystemSpeech(kind, event, l) ==
    LET request == [kind |-> kind, expected |-> ctl, settle |-> TRUE]
        posted == EnqueueEvent(l, event)
    IN  IF Len(board) < BoardCapacity
        THEN lanes' = posted /\ board' = Append(board, request)
        ELSE lanes' = EnqueueEvent(posted, "standbyReady") /\ UNCHANGED board

LocalCommands == {"wakeDetected", "interruptAndAcknowledge"}
Events == {m[1] : m \in UserMoves \cup SessionMoves}

\* A local command notes that an acknowledgement was asked for; one that is
\* refused must not leave the one-shot detector stopped.
LoopEvent(lane) ==
    LET event == Head(lanes[lane])
        t == IF event \in LocalCommands
             THEN [turn EXCEPT !.wakeAck = "requested"] ELSE turn
    IN
    /\ event \in Events
    /\ HandleInteractionEvent(event, Rest(lane), t)
    /\ gate' = IF /\ event \in LocalCommands \cup {"interruptRequested"}
                  /\ ~Handled(event, Rest(lane)).ok
               THEN StartStandby(gate) ELSE gate
    /\ UNCHANGED <<timer, wake, session, server, budget>>

LoopShake(lane) ==
    /\ Head(lanes[lane]) = "shake"
    /\ IF turn.dizzy
       THEN lanes' = Rest(lane) /\ UNCHANGED <<board, turn, timer>>
       ELSE /\ QueueSystemSpeech("shakeSpeech", "shakeSpeechRequested", Rest(lane))
            /\ turn' = [turn EXCEPT !.dizzy = Len(board) < BoardCapacity]
            /\ timer' = IF Len(board) < BoardCapacity THEN StartListenTimer(timer)
                                                      ELSE timer
    /\ UNCHANGED <<ctl, wake, gate, session, server, budget>>

\* ProcessVoiceEvidence: the timer, the flags, and the event it becomes.
StartsTimer(evidence) ==
    \/ evidence \in {"capture_started", "local_wake_ack_requested",
                     "interrupt_ack_requested"}
    \/ evidence = "tts_started" /\ turn.dizzy
    \/ evidence = "tts_first_audio" /\ turn.wakeAck # "no"
    \/ evidence = "capture_stopped" /\ ctl = "finalizing"
    \/ evidence = "vad_silence" /\ ctl = "listening"

CancelsTimer(evidence) ==
    \/ evidence \in {"speech_started", "stt_text_received", "mcp_tool_started",
                     "tts_stopped", "transport_disconnected", "provider_error",
                     "capture_stopped", "vad_silence"}
    \/ evidence = "tts_started" /\ turn.wakeAck = "no"

TimerAfter(evidence) ==
    IF StartsTimer(evidence) THEN StartListenTimer(timer)
    ELSE IF CancelsTimer(evidence) THEN CancelListenTimer(timer)
    ELSE timer

TurnWith(evidence, farewell) ==
    [turn EXCEPT
        !.speechSeen = CASE evidence = "capture_started" -> FALSE
                         [] evidence \in {"speech_started", "stt_text_received"} -> TRUE
                         [] OTHER -> @,
        !.wakeAck = IF @ = "no" THEN @
                    ELSE CASE evidence \in {"tts_started", "tts_first_audio"} -> "started"
                           [] evidence = "tts_stopped" /\ @ = "started" -> "no"
                           [] OTHER -> @,
        !.terminal = CASE evidence = "stt_text_received" -> farewell
                       [] evidence = "tts_stopped" /\ ctl = "speaking" -> FALSE
                       [] OTHER -> @]

EventsOf(evidence) ==
    CASE evidence = "capture_started"         -> <<"captureStarted">>
      [] evidence = "stt_text_received"       -> <<"intentReceived">>
      [] evidence = "mcp_tool_started"        ->
             IF ctl \in {"listening", "finalizing", "thinking"}
             THEN <<"intentReceived">> ELSE <<>>
      [] evidence = "tts_started"             -> <<"ttsStarted">>
      [] evidence = "interrupt_ack_requested" -> <<"interruptAcknowledged">>
      [] evidence = "tts_stopped"             ->
             IF ctl # "speaking" THEN <<>>
             ELSE IF turn.terminal THEN <<"terminalResponseCompleted">>
             ELSE <<"ttsStopped">>
      [] evidence = "transport_disconnected"  -> <<"transportDisconnected">>
      [] evidence = "transport_connected"     -> <<"transportConnected">>
      [] evidence = "provider_error"          ->
             IF ctl = "standby" THEN <<>> ELSE <<"failure">>
      [] evidence = "vad_silence"             ->
             IF ctl = "listening" THEN <<"endpointDetected">> ELSE <<>>
      [] OTHER                                -> <<>>

\* A farewell interrupts the turn and asks for a fixed speech instead.
LoopEvidence(lane) == \E farewell \in BOOLEAN :
    LET evidence == Head(lanes[lane])
        events == EventsOf(evidence)
        posted == IF events = <<>> THEN Rest(lane)
                  ELSE EnqueueEvent(Rest(lane), events[1])
    IN
    /\ evidence \notin Events \cup {"shake"}
    /\ farewell => evidence = "stt_text_received" /\ "farewell" \in Inputs
    /\ timer' = TimerAfter(evidence)
    /\ turn' = TurnWith(evidence, farewell)
    /\ IF farewell
       THEN QueueSystemSpeech("systemSpeech", "systemSpeechRequested", posted)
       ELSE lanes' = posted /\ UNCHANGED board
    /\ UNCHANGED <<ctl, wake, gate, session, server, budget>>

\* The event and the interruption of the session a timeout leads to.
TimeoutEvent ==
    CASE ctl = "acknowledging" -> "acknowledgementTimedOut"
      [] ctl = "speaking" /\ turn.wakeAck # "no" -> "acknowledgementTimedOut"
      [] ctl = "listening" -> IF turn.speechSeen THEN "endpointDetected"
                                                 ELSE "noSpeechTimeout"
      [] ctl = "finalizing" -> "finalizationTimedOut"
      [] turn.dizzy /\ ctl = "opening" -> "acknowledgementTimedOut"
      [] \/ turn.dizzy /\ ctl = "thinking"
         \/ turn.dizzy /\ ctl = "speaking" /\ turn.wakeAck = "no" -> "pressDown"
      [] OTHER -> "none"

TimeoutInterrupts ==
    \/ ctl = "speaking" /\ turn.wakeAck # "no"
    \/ ctl = "listening" /\ ~turn.speechSeen
    \/ ctl = "finalizing"

IsStale == timer.pending = "stale"

LoopTimeout ==
    LET taken == [timer EXCEPT !.pending = "no"]
        acknowledged == ctl \in {"acknowledging", "speaking"} /\ TimeoutEvent = "acknowledgementTimedOut"
        t == [turn EXCEPT !.wakeAck = IF acknowledged THEN "no" ELSE @,
                          !.dizzy = @ /\ TimeoutEvent # "pressDown"
                                      /\ ~(ctl = "opening")]
    IN
    /\ Lane = "timeout"
    /\ IF IsStale \/ TimeoutEvent = "none"
       THEN /\ timer' = taken
            /\ UNCHANGED <<ctl, lanes, board, turn, session, gate>>
       ELSE /\ IF TimeoutInterrupts THEN InterruptSession ELSE UNCHANGED <<session, gate>>
            /\ HandleInteractionEvent(TimeoutEvent, lanes, t)
            /\ timer' = IF TimeoutEvent = "endpointDetected"
                        THEN StartListenTimer(taken) ELSE taken
    /\ UNCHANGED <<wake, server, budget>>

Loop ==
    \/ \E lane \in {"emergency", "control", "best"} :
           Lane = lane /\ lanes[lane] # <<>>
               /\ (LoopEvent(lane) \/ LoopShake(lane) \/ LoopEvidence(lane))
    \/ LoopTimeout

-----------------------------------------------------------------------------
(* The WakeTask.                                                            *)

Request == wake.request
Idle == [at |-> "idle", request |-> <<>>]
Runs(kinds) == wake.at = "run" /\ Request.kind \in kinds

WakeTake ==
    /\ wake.at = "idle" /\ board # <<>>
    /\ wake' = [at |-> IF Head(board).kind = "restoreStandby" THEN "restore" ELSE "run",
                request |-> Head(board)]
    /\ board' = Tail(board)
    /\ UNCHANGED <<loop, lanes, gate, session, server, budget>>

\* RestoreStandbyFromWakeTask: a recovery for the state of now.
Recover == wake' = [at |-> "restore",
                    request |-> [kind |-> "restoreStandby", expected |-> ctl,
                                 settle |-> TRUE]]

\* Interrupt of the session, with a system speech to follow or without.
WakeInterrupt ==
    /\ Runs({"interruptSession"})
    /\ InterruptSession
    /\ IF ctl = "interrupting"
       THEN lanes' = EnqueueEvent(lanes, "interruptCompleted") /\ wake' = Idle
       ELSE Recover /\ UNCHANGED lanes
    /\ UNCHANGED <<loop, board, server, budget>>

WakeSpeak ==
    /\ Runs({"systemSpeech"})
    /\ IF session.state = "starting"
       THEN Recover /\ UNCHANGED <<session, gate, server>>
       ELSE /\ session' = [Interrupted EXCEPT !.armed = TRUE]
            /\ gate' = InterruptedGate
            /\ server' = Owe("speech")
            /\ wake' = Idle
    /\ UNCHANGED <<loop, lanes, board, budget>>

\* InterruptAndNotifyLocalWakeWord and InterruptAndSpeak: at once, or when the
\* stop of the stream that played is in.
Deferrable(kind) == IF kind = "shakeSpeech" THEN "speech" ELSE "ack"

WakeInterruptAnd(kind) ==
    LET accepts == \/ session.state \in {"capturing", "speaking"}
                   \/ kind = "shakeSpeech" /\ session.state = "ready"
        at_once == session.state # "speaking"
    IN
    /\ Runs({kind})
    /\ IF accepts
       THEN /\ session' = IF at_once THEN [NewTurn("none") EXCEPT !.armed = TRUE]
                                     ELSE NewTurn(Deferrable(kind))
            /\ gate' = InterruptedGate
            /\ server' = IF at_once THEN Owe(Deferrable(kind)) ELSE server
            /\ lanes' = IF at_once /\ Deferrable(kind) = "ack"
                        THEN EnqueueVoiceEvidence(lanes, "interrupt_ack_requested")
                        ELSE lanes
            /\ wake' = Idle
       ELSE Recover /\ UNCHANGED <<session, gate, server, lanes>>
    /\ UNCHANGED <<loop, board, budget>>

\* Mutant of WakeVoiceTurn: a session that is not ready is left at that.
WakeVoiceTurnUnanswered ==
    /\ Runs({"startVoiceTurn"})
    /\ session' = IF session.state # "ready" THEN session
                  ELSE [session EXCEPT !.armed = TRUE, !.lease = TRUE]
    /\ server' = IF session.state = "ready" THEN Owe("ack") ELSE server
    /\ lanes' = IF session.state # "ready" THEN lanes
                ELSE EnqueueVoiceEvidence(lanes, "local_wake_ack_requested")
    /\ wake' = Idle
    /\ UNCHANGED <<loop, board, gate, budget>>

\* NotifyLocalWakeWord, then BeginProviderCapture.
WakeVoiceTurn ==
    /\ Runs({"startVoiceTurn"})
    /\ IF session.state = "ready"
       THEN /\ session' = [session EXCEPT !.armed = TRUE, !.lease = TRUE]
            /\ server' = Owe("ack")
            /\ lanes' = EnqueueVoiceEvidence(lanes, "local_wake_ack_requested")
       ELSE /\ lanes' = EnqueueEvent(lanes, "standbyReady")
            /\ UNCHANGED <<session, server>>
    /\ wake' = Idle
    /\ UNCHANGED <<loop, board, gate, budget>>

\* BeginCapture, after an interruption or without one.  The gate stops the
\* detector first and starts it again when the microphone does not open.
WakeCapture == \E fails \in {FALSE, MayFail} :
    LET interrupts == Request.kind = "interruptAndStartCapture"
        s == IF interrupts THEN Interrupted ELSE session
        ready == \/ session.state = "ready"
                 \/ interrupts /\ session.state \in {"capturing", "speaking"}
    IN
    /\ Runs({"startCapture", "interruptAndStartCapture"})
    /\ IF ready /\ ~fails
       THEN /\ session' = [s EXCEPT !.state = "capturing", !.lease = TRUE,
                               !.armed = FALSE, !.finalAsr = FALSE, !.vad = "silent"]
            /\ gate' = [forwarding |-> TRUE, detector |-> FALSE]
            /\ lanes' = EnqueueVoiceEvidence(lanes, "capture_started")
       ELSE /\ session' = IF ready THEN [s EXCEPT !.lease = FALSE, !.armed = FALSE]
                                   ELSE session
            /\ gate' = IF ready THEN [forwarding |-> FALSE, detector |-> TRUE] ELSE gate
            /\ lanes' = EnqueueEvent(lanes, "standbyReady")
    /\ faults' = IF fails THEN faults + 1 ELSE faults
    /\ wake' = Idle
    /\ UNCHANGED <<loop, board, server, inputs, utterances>>

\* EndCapture, unless the phase the stop was meant for is over.
IsOverdue == ctl # Request.expected

WakeStop ==
    /\ Runs({"stopVoiceTurn"})
    /\ IF IsOverdue
       THEN wake' = Idle /\ UNCHANGED <<session, gate, server, lanes>>
       ELSE IF session.state = "starting"
       THEN /\ lanes' = EnqueueEvent(lanes, "failure")
            /\ wake' = Idle
            /\ UNCHANGED <<session, gate, server>>
       ELSE /\ IF session.state = "capturing"
               THEN /\ session' = [session EXCEPT !.state = "ready", !.lease = FALSE,
                                       !.finalAsr = TRUE]
                    /\ gate' = StopCapture(gate)
                    /\ server' = [server EXCEPT !.hears = TRUE]
                    /\ lanes' = EnqueueVoiceEvidence(lanes, "capture_stopped")
               ELSE UNCHANGED <<session, gate, server, lanes>>
            /\ wake' = IF Request.expected = "finalizing" THEN Idle
                       ELSE [wake EXCEPT !.at = "restore"]
    /\ UNCHANGED <<loop, board, budget>>

\* RestoreStandby: the phase is compared once, the gate is stopped, then
\* started; the controller is settled at the end.
RestoreStop == \E fails \in {FALSE, MayFail} :
    /\ wake.at = "restore"
    /\ fails => ~IsOverdue
    /\ gate' = IF IsOverdue THEN gate
               ELSE IF fails THEN [gate EXCEPT !.forwarding = FALSE]
               ELSE StopCapture(gate)
    /\ wake' = IF IsOverdue \/ fails THEN Idle ELSE [wake EXCEPT !.at = "rearm"]
    /\ lanes' = IF fails THEN EnqueueEvent(lanes, "failure") ELSE lanes
    /\ faults' = IF fails THEN faults + 1 ELSE faults
    /\ UNCHANGED <<loop, board, session, server, inputs, utterances>>

RestoreStart == \E fails \in {FALSE, MayFail} :
    /\ wake.at = "rearm"
    /\ gate' = IF fails THEN gate ELSE StartStandby(gate)
    /\ faults' = IF fails THEN faults + 1 ELSE faults
    /\ lanes' = IF fails \/ gate.forwarding THEN EnqueueEvent(lanes, "failure")
                ELSE IF Request.settle THEN EnqueueEvent(lanes, "standbyReady")
                ELSE lanes
    /\ wake' = Idle
    /\ UNCHANGED <<loop, board, session, server, inputs, utterances>>

WakeTask ==
    \/ WakeTake
    \/ WakeInterrupt \/ WakeSpeak \/ WakeVoiceTurn \/ WakeCapture \/ WakeStop
    \/ \E kind \in {"interruptAndStartVoiceTurn", "shakeSpeech"} : WakeInterruptAnd(kind)
    \/ RestoreStop \/ RestoreStart

-----------------------------------------------------------------------------
(* The user, the reminders, the connection and the server.                  *)

\* A wake word, heard only while the detector runs: it stops with the match.
WakeWord(event) ==
    /\ event \in Inputs \cap LocalCommands /\ MayAct
    /\ gate.detector /\ ~gate.forwarding
    /\ gate' = [gate EXCEPT !.detector = FALSE]
    /\ lanes' = EnqueueEvent(lanes, event)
    /\ inputs' = inputs + 1
    /\ UNCHANGED <<loop, board, wake, session, server, utterances, faults>>

\* Buttons and the motion sensor; a full queue drops them.
BoardInput(input) ==
    /\ input \in Inputs \cap {"toggleChat", "pressDown", "pressUp", "shake"}
    /\ MayAct
    /\ lanes' = IF Len(lanes.control) < ControlCapacity
                THEN [lanes EXCEPT !.control = Append(@, input)] ELSE lanes
    /\ inputs' = inputs + 1
    /\ UNCHANGED <<loop, board, wake, gate, session, server, utterances, faults>>

\* A reminder is announced; RequestInterrupt is called by a tool.
Announce ==
    /\ "reminder" \in Inputs /\ MayAct
    /\ QueueSystemSpeech("systemSpeech", "systemSpeechRequested", lanes)
    /\ inputs' = inputs + 1
    /\ UNCHANGED <<loop, wake, gate, session, server, utterances, faults>>

RequestInterrupt ==
    /\ "interruptRequested" \in Inputs /\ MayAct
    /\ lanes' = EnqueueEvent(lanes, "interruptRequested")
    /\ inputs' = inputs + 1
    /\ UNCHANGED <<loop, board, wake, gate, session, server, utterances, faults>>

\* The session's voice activity detection on the frames it is given.
Speech ==
    /\ session.state = "capturing" /\ gate.forwarding
    /\ \/ session.vad = "silent" /\ MayUtter
          /\ utterances' = utterances + 1
       \/ session.vad = "speech" /\ UNCHANGED utterances
    /\ session' = [session EXCEPT !.vad = IF @ = "silent" THEN "speech" ELSE "done"]
    /\ lanes' = EnqueueVoiceEvidence(lanes, IF session.vad = "silent"
                                            THEN "speech_started" ELSE "vad_silence")
    /\ UNCHANGED <<loop, board, wake, gate, server, inputs, faults>>

\* The server recognises what was said, after listen.stop or before it, and
\* will answer; it may call a tool first.
Recognise ==
    /\ \/ session.state = "capturing" /\ session.vad # "silent"
       \/ server.hears /\ session.state = "ready" /\ session.finalAsr
    /\ session' = [session EXCEPT !.armed = TRUE, !.finalAsr = FALSE]
    /\ server' = [Owe("answer") EXCEPT !.hears = FALSE]
    /\ server.owed = <<>>
    /\ \/ lanes' = EnqueueVoiceEvidence(lanes, "stt_text_received")
       \/ lanes' = EnqueueVoiceEvidence(EnqueueVoiceEvidence(lanes, "stt_text_received"),
                                        "mcp_tool_started")
    /\ UNCHANGED <<loop, board, wake, gate, budget>>

\* A stream begins; the session admits it when it is armed and not fenced, and
\* closes the microphone first.
StreamStarts ==
    /\ session.state # "starting"
    /\ server.stream = "none" /\ server.owed # <<>>
    /\ server' = [server EXCEPT !.stream = Head(server.owed), !.audible = FALSE,
                                !.owed = Tail(@)]
    /\ IF ~session.fence /\ (session.armed \/ session.state = "speaking")
       THEN /\ session' = [session EXCEPT !.state = "speaking"]
            /\ gate' = InterruptedGate
            /\ lanes' = EnqueueVoiceEvidence(lanes, "tts_started")
       ELSE UNCHANGED <<session, gate, lanes>>
    /\ UNCHANGED <<loop, board, wake, budget>>

FirstAudio ==
    /\ server.stream # "none" /\ ~server.audible
    /\ server' = [server EXCEPT !.audible = TRUE]
    /\ lanes' = IF session.state = "speaking"
                THEN EnqueueVoiceEvidence(lanes, "tts_first_audio") ELSE lanes
    /\ UNCHANGED <<loop, board, wake, gate, session, budget>>

\* The stop of a fenced stream releases what was deferred.
StreamStops ==
    /\ server.stream # "none"
    /\ \/ /\ session.fence
          /\ session' = [session EXCEPT !.fence = FALSE, !.finalAsr = FALSE,
                             !.deferred = "none", !.armed = session.deferred # "none"]
          /\ server' = [server EXCEPT !.stream = "none",
                            !.owed = IF session.deferred = "none" THEN @
                                     ELSE Append(@, session.deferred)]
          /\ lanes' = IF session.deferred = "ack"
                      THEN EnqueueVoiceEvidence(lanes, "interrupt_ack_requested")
                      ELSE lanes
       \/ /\ ~session.fence
          /\ server' = [server EXCEPT !.stream = "none"]
          /\ IF session.state = "speaking"
             THEN /\ session' = [session EXCEPT !.state = "ready", !.armed = FALSE]
                  /\ lanes' = EnqueueVoiceEvidence(lanes, "tts_stopped")
             ELSE UNCHANGED <<session, lanes>>
    /\ UNCHANGED <<loop, board, wake, gate, budget>>

\* The provider reports an error; the link is lost; it comes back with hello.
ProviderError ==
    /\ MayFail /\ session.state # "starting"
    /\ faults' = faults + 1
    /\ lanes' = EnqueueVoiceEvidence(lanes, "provider_error")
    /\ UNCHANGED <<loop, board, wake, gate, session, server, inputs, utterances>>

Disconnect ==
    /\ MayFail /\ session.state # "starting"
    /\ faults' = faults + 1
    /\ session' = [NewTurn("none") EXCEPT !.state = "starting", !.fence = FALSE]
    /\ server' = [owed |-> <<>>, stream |-> "none", audible |-> FALSE, hears |-> FALSE]
    /\ lanes' = EnqueueVoiceEvidence(lanes, "transport_disconnected")
    /\ UNCHANGED <<loop, board, wake, gate, inputs, utterances>>

Connect ==
    /\ session.state = "starting"
    /\ session' = [session EXCEPT !.state = "ready"]
    /\ lanes' = EnqueueVoiceEvidence(lanes, "transport_connected")
    /\ UNCHANGED <<loop, board, wake, gate, server, budget>>

Environment ==
    \/ \E event \in LocalCommands : WakeWord(event)
    \/ \E input \in Inputs : BoardInput(input)
    \/ Announce \/ RequestInterrupt
    \/ Speech \/ Recognise \/ StreamStarts \/ FirstAudio \/ StreamStops
    \/ ProviderError \/ Disconnect \/ Connect

Next == Loop \/ ListenTimeout \/ WakeTask \/ Environment

Spec == Init /\ [][Next]_vars

-----------------------------------------------------------------------------
(* Properties.                                                              *)

\* The loop has kept up: no evidence was dropped at a full control queue.  The
\* run explores such behaviours only; a dropped local_wake_ack_requested or
\* capture_stopped leaves the controller where it is.
NothingDropped == ~lanes.dropped

\* Nothing is queued, under way or about to be posted on the board.
AtRest ==
    /\ Quiet /\ board = <<>> /\ wake.at = "idle"
    /\ timer.pending = "no" /\ timer.firing = "no"

\* After a wake word the board shows that it heard and waits for the greeting.
\* Whatever is interrupted, lost or late, that wait is never forgotten: work is
\* queued or under way, or the listen timer runs (WakeTask, runtime.cc; the
\* acknowledgement deadline of ProcessVoiceEvidence).
AcknowledgementEnds == ctl = "acknowledging" => ~AtRest \/ timer.armed

\* Once everything queued is done, a board that waits for its connection does
\* not forward the microphone, whichever capture was being opened when the
\* link went down (RestoreStandby against BeginCapture, runtime.cc).
ReconnectingIsDeaf == AtRest /\ ctl = "reconnecting" => ~gate.forwarding

\* Once everything queued is done, a board in standby does not forward the
\* microphone: the comment of RestoreStandby says that an obsolete recovery
\* does not put its kStandbyReady back into the event loop.
MicIsOffInStandby == AtRest /\ ctl = "standby" => ~gate.forwarding
=============================================================================
