---------------------- MODULE InteractionRuntime_proofs ----------------------
(***************************************************************************)
(* What InteractionRuntime promises, proved for every set of inputs, every *)
(* bound and every capacity of the queues, as long as no evidence was      *)
(* dropped at a full control queue.                                        *)
(*                                                                         *)
(* Neither property is inductive: both speak of a board at rest and say    *)
(* nothing of what is on its way while it is not.                          *)
(*                                                                         *)
(* LinkInv says that a loss of the link which the loop has heard of last,  *)
(* or is still to hear of, is followed by a return while the session is    *)
(* connected.  So a capture, which needs a connected session, can open the *)
(* microphone of a board that waits for its connection only when that wait *)
(* is about to end; DeafInv adds the recovery that the loss has queued.    *)
(*                                                                         *)
(* WaitInv says who will end the wait for the greeting: something queued   *)
(* that leaves the phase, the request still to be carried out, or the      *)
(* timer.  Once the request was carried out, only speech is left to do and *)
(* the session is Harmless: it can report nothing that cancels the timer   *)
(* before a stream starts.                                                 *)
(***************************************************************************)
EXTENDS InteractionRuntime, TLAPS

\* The types of what the proof looks at.
Phases == {"booting", "standby", "opening", "acknowledging", "interrupting", "error",
           "reconnecting"} \cup Busy
Evidence == {"capture_started", "capture_stopped", "local_wake_ack_requested",
             "interrupt_ack_requested", "speech_started", "vad_silence", "stt_text_received",
             "mcp_tool_started", "tts_started", "tts_first_audio", "tts_stopped",
             "provider_error", "transport_disconnected", "transport_connected"}
Items == Events \cup Evidence \cup {"shake"}
LaneTypes == [control : Seq(Items), best : Seq(BestEffort),
              emergency : Seq(Events \cup EmergencyEvidence), dropped : BOOLEAN]
ProperLanes == {l \in LaneTypes : Len(l.control) <= ControlCapacity}
Speeches == {"systemSpeech", "shakeSpeech"}
RequestKinds == Speeches \cup
    {"restoreStandby", "startCapture", "stopVoiceTurn", "interruptSession",
     "interruptAndStartCapture", "startVoiceTurn", "interruptAndStartVoiceTurn"}
BoardRequest == [kind : RequestKinds, expected : Phases, settle : BOOLEAN]
Waking == [at : {"idle", "run", "restore", "rearm"}, request : BoardRequest \cup {<<>>}]
Timer == [armed : BOOLEAN, firing : {"no", "called", "fresh", "stale"},
          pending : {"no", "fresh", "stale"}]
Gate == [forwarding : BOOLEAN, detector : BOOLEAN]
Streams == {"ack", "speech", "answer"}
Session == [state : {"ready", "capturing", "speaking", "starting"}, armed : BOOLEAN,
            fence : BOOLEAN, deferred : {"none", "ack", "speech"}, finalAsr : BOOLEAN,
            lease : BOOLEAN, vad : {"silent", "speech", "done"}]
Server == [owed : Seq(Streams), stream : Streams \cup {"none"}, audible : BOOLEAN,
           hears : BOOLEAN]

\* The types of the variables, with the capacity of the control lane.
Typed ==
    /\ ctl \in Phases /\ lanes \in ProperLanes
    /\ timer \in Timer /\ board \in Seq(BoardRequest) /\ wake \in Waking
    /\ wake.at # "idle" => wake.request \in BoardRequest
    /\ gate \in Gate /\ session \in Session /\ server \in Server

\* Something of a set stands in a sequence, in a lane that is served.
Among(s, X) == \E i \in DOMAIN s : s[i] \in X
Queued(X) == Among(lanes.control, X) \/ Among(lanes.emergency, X)

-----------------------------------------------------------------------------
(* The link as the loop will hear of it.                                   *)

LinkEvidence == {"transport_disconnected", "transport_connected"}
LinkEvents == {"transportDisconnected", "transportConnected"}
Losses == {"transport_disconnected", "transportDisconnected"}
Returns == {"transport_connected", "transportConnected"}

\* Item j of a control lane is heard after item i: evidence becomes an event at the end of the
\* lane, so all events come before all evidence.
Later(c, i, j) ==
    \/ c[i] \in LinkEvents /\ c[j] \in LinkEvidence
    \/ i < j /\ (c[i] \in LinkEvents <=> c[j] \in LinkEvents)

\* Every loss that is still to be heard of is followed by a return.
Answered(c) ==
    \A i \in DOMAIN c : c[i] \in Losses =>
        \E j \in DOMAIN c : c[j] \in Returns /\ Later(c, i, j)

\* Reports of the link stand in the control lane only.  While the session is connected, every
\* loss, handled last or still to be handled, is followed by a return.
LinkInv ==
    /\ ~Among(lanes.emergency, LinkEvents)
    /\ session.state = "starting" => ~session.lease
    /\ session.state # "starting" =>
         /\ ctl = "reconnecting" => Among(lanes.control, Returns)
         /\ Answered(lanes.control)

\* A recovery meant for the reconnecting board is queued or has not stopped the gate yet.
RestoreQueued(b) ==
    \E i \in DOMAIN b : b[i].kind = "restoreStandby" /\ b[i].expected = "reconnecting"
RestoreComes ==
    \/ RestoreQueued(board)
    \/ wake.at = "restore" /\ wake.request.expected = "reconnecting"

\* A board that waits for its connection and forwards the microphone will stop it or leave.
DeafInv ==
    ctl = "reconnecting" /\ gate.forwarding =>
        RestoreComes \/ Queued({"failure"}) \/ Among(lanes.control, Returns)

-----------------------------------------------------------------------------
(* The wait for the greeting.                                              *)

\* What will take the controller out of acknowledging when the loop comes to it.
Leaving == {"standbyReady", "failure", "ttsStarted", "tts_started", "transportDisconnected",
            "transport_disconnected", "provider_error"}

\* Evidence that cancels the listen timer and does not take the controller further.
Cancelling == {"speech_started", "vad_silence", "stt_text_received", "mcp_tool_started",
               "tts_stopped", "capture_stopped"}

\* The timer runs, or its callback will report a timeout that counts.
Ticking == timer.armed \/ timer.firing \in {"called", "fresh"} \/ timer.pending = "fresh"

Ask == "local_wake_ack_requested"

\* The timer will be started, and nothing that is queued cancels it afterwards.
WillTick(c) == \E i \in DOMAIN c : c[i] = Ask /\ \A j \in DOMAIN c : i < j => c[j] \notin Cancelling

\* Requests of a board queue: one for the greeting; only speech behind the last of these; only
\* speech.
StartQueued(b) == \E i \in DOMAIN b : b[i].kind = "startVoiceTurn"
SpeechAfterStart(b) ==
    \A i \in DOMAIN b : b[i].kind \notin Speeches =>
        \E j \in DOMAIN b : i <= j /\ b[j].kind = "startVoiceTurn"
OnlySpeech(b) == \A i \in DOMAIN b : b[i].kind \in Speeches

\* The request for the greeting has not been carried out yet; what is queued behind it can
\* only be speech.
Asking ==
    /\ (wake.at = "run" /\ wake.request.kind = "startVoiceTurn") \/ StartQueued(board)
    /\ SpeechAfterStart(board)

\* The session is in no state to report anything that cancels the timer.
Harmless ==
    /\ session.state = "ready"
    /\ session.finalAsr => session.armed /\ server.owed # <<>>

\* It was carried out: only speech is left to do, and the timer runs or will be started.
Asked ==
    /\ OnlySpeech(board)
    /\ wake.at = "idle" \/ (wake.at = "run" /\ wake.request.kind \in Speeches)
    /\ Harmless
    /\ \/ Ticking /\ ~Among(lanes.control, Cancelling)
       \/ WillTick(lanes.control)

\* While the controller acknowledges, something will end that wait.
WaitInv == ctl = "acknowledging" => Queued(Leaving) \/ Asking \/ Asked

\* A fence stands only while the stream plays that it is for; a callback that is out of date
\* does not replace a timeout that counts.
FenceInv ==
    /\ session.fence \/ session.state = "speaking" => server.stream # "none"
    /\ session.fence => session.state # "speaking"
    /\ timer.pending = "fresh" => timer.firing # "stale"

\* All of it, as long as the loop has kept up.
IInv == Typed /\ FenceInv /\ (NothingDropped => LinkInv /\ DeafInv /\ WaitInv)

-----------------------------------------------------------------------------
(* The controller's table.                                                 *)

\* The rows.
Moves == UserMoves \cup SessionMoves

\* A row names an event, an action and, unless it is "same", a phase; an accepted "same" leaves
\* the phase.
LEMMA RowTypes ==
    ASSUME NEW m \in Moves
    PROVE  m[1] \in Events /\ m[3] \in Phases \cup {"same"} /\ m[4] \in RequestKinds \cup {"none"}
<1>1. m[1] \in Events
  BY DEF Events, Moves
<1>2. CASE m \in UserMoves
  BY <1>1, <1>2 DEF UserMoves, Phases, Busy, RequestKinds, Speeches
<1>3. CASE m \in SessionMoves
  BY <1>1, <1>3 DEF SessionMoves, Phases, Busy, RequestKinds, Speeches
<1> QED
  BY <1>1, <1>2, <1>3 DEF Moves

\* How the two phases the proof follows are entered.
LEMMA RowsInto ==
    ASSUME NEW m \in Moves
    PROVE  /\ m[3] = "reconnecting" =>
                m[1] = "transportDisconnected" /\ m[4] = "restoreStandby"
           /\ m[3] = "acknowledging" => m[1] = "wakeDetected" /\ m[4] = "startVoiceTurn"
           /\ m[3] = "same" => m[2] = {"booting", "standby"}
<1>1. CASE m \in UserMoves
  BY <1>1 DEF UserMoves
<1>2. CASE m \in SessionMoves
  BY <1>2 DEF SessionMoves
<1> QED
  BY <1>1, <1>2 DEF Moves

\* How they are left.
LEMMA RowsFrom ==
    ASSUME NEW m \in Moves
    PROVE  /\ "acknowledging" \in m[2] => m[3] # "acknowledging"
           /\ "reconnecting" \in m[2] => m[3] # "same" /\ (m[3] = "reconnecting" =>
                m[1] = "transportDisconnected")
<1>1. CASE m \in UserMoves
  BY <1>1 DEF UserMoves, Busy
<1>2. CASE m \in SessionMoves
  BY <1>2 DEF SessionMoves, Busy
<1> QED
  BY <1>1, <1>2 DEF Moves

\* Some events are accepted in them.
LEMMA RowsAccept ==
    /\ ctl = "reconnecting" =>
         MovesOf("transportConnected") # {} /\ MovesOf("failure") # {}
    /\ ctl = "acknowledging" =>
         \A e \in {"standbyReady", "failure", "ttsStarted", "transportDisconnected",
                   "acknowledgementTimedOut"} : MovesOf(e) # {}
<1>1. <<"transportConnected", {"reconnecting"}, "standby", "restoreStandby">> \in SessionMoves
  BY DEF SessionMoves
<1>2. PICK f \in SessionMoves : f[1] = "failure" /\ {"reconnecting", "acknowledging"} \subseteq f[2]
  <2>1. <<"failure", Busy \cup {"standby", "opening", "acknowledging", "interrupting",
          "reconnecting"}, "error", "interruptSession">> \in SessionMoves
    BY DEF SessionMoves
  <2> QED
    BY <2>1
<1>3. PICK r \in SessionMoves : r[1] = "standbyReady" /\ "acknowledging" \in r[2]
  <2>1. <<"standbyReady", {"standby", "error", "interrupting", "acknowledging", "opening"},
          "standby", "none">> \in SessionMoves
    BY DEF SessionMoves
  <2> QED
    BY <2>1
<1>4. PICK s \in SessionMoves : s[1] = "ttsStarted" /\ "acknowledging" \in s[2]
  <2>1. <<"ttsStarted", {"acknowledging", "listening", "thinking", "finalizing", "opening"},
          "speaking", "none">> \in SessionMoves
    BY DEF SessionMoves
  <2> QED
    BY <2>1
<1>5. PICK d \in SessionMoves : d[1] = "transportDisconnected" /\ "acknowledging" \in d[2]
  <2>1. <<"transportDisconnected", Busy \cup {"opening", "acknowledging", "interrupting",
          "reconnecting"}, "reconnecting", "restoreStandby">> \in SessionMoves
    BY DEF SessionMoves
  <2> QED
    BY <2>1
<1>6. PICK a \in SessionMoves : a[1] = "acknowledgementTimedOut" /\ "acknowledging" \in a[2]
  <2>1. <<"acknowledgementTimedOut", {"acknowledging", "speaking", "opening"}, "opening",
          "startCapture">> \in SessionMoves
    BY DEF SessionMoves
  <2> QED
    BY <2>1
<1>7. ASSUME ctl = "reconnecting" PROVE MovesOf("transportConnected") # {}
  <2>1. <<"transportConnected", {"reconnecting"}, "standby", "restoreStandby">> \in
          MovesOf("transportConnected")
    BY <1>1, <1>7 DEF MovesOf
  <2> QED
    BY <2>1
<1> QED
  BY <1>2, <1>3, <1>4, <1>5, <1>6, <1>7 DEF MovesOf

-----------------------------------------------------------------------------
(* The lanes.                                                              *)

\* A sequence with one more item.
LEMMA AppendAt ==
    ASSUME NEW S, NEW c \in Seq(S), NEW e \in S
    PROVE  /\ Append(c, e) \in Seq(S) /\ Len(Append(c, e)) = Len(c) + 1 /\ Len(c) \in Nat
           /\ DOMAIN c = 1..Len(c) /\ DOMAIN Append(c, e) = 1..(Len(c) + 1)
           /\ \A i \in 1..Len(c) : Append(c, e)[i] = c[i]
           /\ Append(c, e)[Len(c) + 1] = e
  OBVIOUS

\* What stands in a sequence when an item is added at its end.
LEMMA AppendAmong ==
    ASSUME NEW S, NEW c \in Seq(S), NEW e \in S
    PROVE  \A X : Among(Append(c, e), X) <=> Among(c, X) \/ e \in X
  BY AppendAt DEF Among

\* Reports of the link when an item is added.
LEMMA AppendAnswered ==
    ASSUME NEW c \in Seq(Items), NEW e \in Items
    PROVE  /\ e \notin Losses /\ Answered(c) => Answered(Append(c, e))
           /\ e = "transport_connected" => Answered(Append(c, e))
<1> DEFINE d == Append(c, e)
<1>1. /\ Len(c) \in Nat /\ DOMAIN c = 1..Len(c) /\ DOMAIN d = 1..(Len(c) + 1)
      /\ \A i \in 1..Len(c) : d[i] = c[i]
      /\ d[Len(c) + 1] = e
  OBVIOUS
<1> HIDE DEF d
<1>2. ASSUME e \notin Losses, Answered(c) PROVE Answered(d)
  <2>1. ASSUME NEW i \in DOMAIN d, d[i] \in Losses
        PROVE  \E j \in DOMAIN d : d[j] \in Returns /\ Later(d, i, j)
    <3>1. i \in DOMAIN c /\ c[i] \in Losses
      BY <1>1, <1>2, <2>1
    <3>2. PICK j \in DOMAIN c : c[j] \in Returns /\ Later(c, i, j)
      BY <1>2, <3>1 DEF Answered
    <3> QED
      BY <1>1, <3>1, <3>2 DEF Later
  <2> QED
    BY <2>1 DEF Answered
<1>3. ASSUME e = "transport_connected" PROVE Answered(d)
  <2>1. ASSUME NEW i \in DOMAIN d, d[i] \in Losses
        PROVE  \E j \in DOMAIN d : d[j] \in Returns /\ Later(d, i, j)
    <3>1. i \in 1..Len(c)
      BY <1>1, <1>3, <2>1 DEF Losses
    <3>2. e \in Returns /\ e \in LinkEvidence /\ e \notin LinkEvents
      BY <1>3 DEF Returns, LinkEvidence, LinkEvents
    <3> QED
      BY <1>1, <3>1, <3>2 DEF Later
  <2> QED
    BY <2>1 DEF Answered
<1> QED
  BY <1>2, <1>3 DEF d

\* The start of the timer when an item is added.
LEMMA AppendTicks ==
    ASSUME NEW c \in Seq(Items), NEW e \in Items, e \notin Cancelling
    PROVE  /\ WillTick(c) => WillTick(Append(c, e))
           /\ e = Ask => WillTick(Append(c, e))
<1> DEFINE d == Append(c, e)
<1>1. /\ Len(c) \in Nat /\ DOMAIN c = 1..Len(c) /\ DOMAIN d = 1..(Len(c) + 1)
      /\ \A i \in 1..Len(c) : d[i] = c[i]
      /\ d[Len(c) + 1] = e
  OBVIOUS
<1> HIDE DEF d
<1>2. ASSUME WillTick(c) PROVE WillTick(d)
  BY <1>1, <1>2 DEF WillTick
<1>3. ASSUME e = Ask PROVE WillTick(d)
  BY <1>1, <1>3 DEF WillTick
<1> QED
  BY <1>2, <1>3 DEF d

\* What stands in a sequence when its first item is taken.
LEMMA TailAmong ==
    ASSUME NEW S, NEW c \in Seq(S), c # <<>>
    PROVE  /\ Head(c) \in S /\ Tail(c) \in Seq(S) /\ Len(Tail(c)) = Len(c) - 1 /\ Len(c) \in Nat
           /\ \A X : Among(Tail(c), X) => Among(c, X)
           /\ \A X : Among(c, X) => Head(c) \in X \/ Among(Tail(c), X)
           /\ \A X : Head(c) \in X => Among(c, X)
<1> DEFINE d == Tail(c)
<1>1. /\ Len(c) \in Nat \ {0} /\ DOMAIN c = 1..Len(c) /\ DOMAIN d = 1..(Len(c) - 1)
      /\ \A i \in 1..(Len(c) - 1) : d[i] = c[i + 1]
      /\ Head(c) = c[1] /\ d \in Seq(S) /\ Len(d) = Len(c) - 1
  OBVIOUS
<1> HIDE DEF d
<1>2. \A X : Among(d, X) => Among(c, X)
  BY <1>1 DEF Among
<1>3. ASSUME NEW X, Among(c, X), Head(c) \notin X PROVE Among(d, X)
  <2>1. PICK i \in 1..Len(c) : c[i] \in X
    BY <1>1, <1>3 DEF Among
  <2>2. i - 1 \in DOMAIN d /\ d[i - 1] = c[i]
    BY <1>1, <1>3, <2>1
  <2> QED
    BY <2>1, <2>2 DEF Among
<1>4. \A X : Head(c) \in X => Among(c, X)
  BY <1>1 DEF Among
<1> QED
  BY <1>1, <1>2, <1>3, <1>4 DEF d

\* Reports of the link when the first item is taken, and when it is a report that becomes an
\* event.
LEMMA TailAnswered ==
    ASSUME NEW c \in Seq(Items), c # <<>>, Answered(c)
    PROVE  /\ Head(c) # "transport_connected" => Answered(Tail(c))
           /\ Head(c) = "transportDisconnected" => Among(Tail(c), Returns)
           /\ Head(c) = "transport_connected" => Answered(Append(Tail(c), "transportConnected"))
           /\ Head(c) = "transport_disconnected" =>
                Answered(Append(Tail(c), "transportDisconnected"))
<1> DEFINE d == Tail(c)
<1>1. /\ Len(c) \in Nat \ {0} /\ DOMAIN c = 1..Len(c) /\ DOMAIN d = 1..(Len(c) - 1)
      /\ \A i \in 1..(Len(c) - 1) : d[i] = c[i + 1]
      /\ Head(c) = c[1] /\ d \in Seq(Items) /\ Len(d) = Len(c) - 1
  OBVIOUS
<1> HIDE DEF d
<1>2. ASSUME NEW i \in DOMAIN c, NEW j \in DOMAIN c, Later(c, i, j), i # 1, j # 1
      PROVE  i - 1 \in DOMAIN d /\ j - 1 \in DOMAIN d /\ Later(d, i - 1, j - 1)
             /\ d[i - 1] = c[i] /\ d[j - 1] = c[j]
  BY <1>1, <1>2 DEF Later
<1>3. ASSUME Head(c) # "transport_connected" PROVE Answered(d)
  <2>1. ASSUME NEW k \in DOMAIN d, d[k] \in Losses
        PROVE  \E j \in DOMAIN d : d[j] \in Returns /\ Later(d, k, j)
    <3>1. k + 1 \in DOMAIN c /\ c[k + 1] \in Losses /\ k + 1 # 1 /\ (k + 1) - 1 = k
      BY <1>1, <2>1
    <3>2. PICK j \in DOMAIN c : c[j] \in Returns /\ Later(c, k + 1, j)
      BY <3>1 DEF Answered
    <3>3. j # 1
      BY <1>1, <1>3, <2>1, <3>1, <3>2 DEF Later, LinkEvidence, LinkEvents, Returns
    <3> QED
      BY <1>2, <3>1, <3>2, <3>3
  <2> QED
    BY <2>1 DEF Answered
<1>4. ASSUME Head(c) = "transportDisconnected" PROVE Among(d, Returns)
  <2>1. PICK j \in DOMAIN c : c[j] \in Returns /\ Later(c, 1, j)
    BY <1>1, <1>4 DEF Answered, Losses
  <2>2. j # 1
    BY <1>1, <1>4, <2>1 DEF Returns
  <2>3. j - 1 \in DOMAIN d /\ d[j - 1] = c[j]
    BY <1>1, <2>2
  <2> QED
    BY <2>1, <2>3 DEF Among
<1>5. ASSUME NEW e \in Items
      PROVE  /\ DOMAIN Append(d, e) = 1..Len(c) /\ Append(d, e)[Len(c)] = e
             /\ \A i \in 1..(Len(c) - 1) : Append(d, e)[i] = c[i + 1]
  <2>1. /\ DOMAIN Append(d, e) = 1..(Len(d) + 1) /\ Append(d, e)[Len(d) + 1] = e
        /\ \A i \in 1..Len(d) : Append(d, e)[i] = d[i]
    <3>1. d \in Seq(Items)
      BY <1>1
    <3> QED
      BY <3>1, AppendAt
  <2>2. Len(d) + 1 = Len(c)
    BY <1>1
  <2> QED
    BY <1>1, <2>1, <2>2
<1>6. {"transportConnected", "transportDisconnected"} \subseteq Items
  <2>1. \A m \in SessionMoves : m[1] \in Items
    BY DEF Items, Events
  <2>2. <<"transportConnected", {"reconnecting"}, "standby", "restoreStandby">> \in SessionMoves
    BY DEF SessionMoves
  <2>3. <<"transportDisconnected", {"standby"}, "standby", "restoreStandby">> \in SessionMoves
    BY DEF SessionMoves
  <2> QED
    BY <2>1, <2>2, <2>3
<1>7. ASSUME Head(c) = "transport_connected" PROVE Answered(Append(d, "transportConnected"))
  <2> DEFINE f == Append(d, "transportConnected")
  <2>1. /\ DOMAIN f = 1..Len(c) /\ f[Len(c)] = "transportConnected"
        /\ \A i \in 1..(Len(c) - 1) : f[i] = c[i + 1]
    BY <1>5, <1>6
  <2> HIDE DEF f
  <2>2. ASSUME NEW k \in DOMAIN f, f[k] \in Losses
        PROVE  \E j \in DOMAIN f : f[j] \in Returns /\ Later(f, k, j)
    <3>1. k # Len(c) /\ k + 1 \in DOMAIN c /\ c[k + 1] \in Losses /\ f[k] = c[k + 1] /\ k \in Nat
      BY <1>1, <2>1, <2>2 DEF Losses
    <3>2. PICK j \in DOMAIN c : c[j] \in Returns /\ Later(c, k + 1, j)
      BY <3>1 DEF Answered
    <3>3. CASE j = 1
      <4>1. f[k] \in LinkEvents
        BY <1>1, <1>7, <3>1, <3>2, <3>3 DEF Later, LinkEvents
      <4>2. Len(c) \in DOMAIN f /\ k < Len(c) /\ f[Len(c)] \in Returns /\ f[Len(c)] \in LinkEvents
        BY <1>1, <2>1, <3>1 DEF Returns, LinkEvents
      <4> QED
        BY <4>1, <4>2 DEF Later
    <3>4. CASE j # 1
      <4>1. j - 1 \in DOMAIN f /\ f[j - 1] = c[j]
        BY <1>1, <2>1, <3>4
      <4>2. Later(f, k, j - 1)
        BY <1>1, <3>1, <3>2, <4>1 DEF Later
      <4> QED
        BY <3>2, <4>1, <4>2
    <3> QED
      BY <3>3, <3>4
  <2> QED
    BY <2>2 DEF Answered, f
<1>8. ASSUME Head(c) = "transport_disconnected" PROVE Answered(Append(d, "transportDisconnected"))
  <2> DEFINE f == Append(d, "transportDisconnected")
  <2>1. /\ DOMAIN f = 1..Len(c) /\ f[Len(c)] = "transportDisconnected"
        /\ \A i \in 1..(Len(c) - 1) : f[i] = c[i + 1]
    BY <1>5, <1>6
  <2> HIDE DEF f
  <2>2. ASSUME NEW k \in DOMAIN f, f[k] \in Losses
        PROVE  \E j \in DOMAIN f : f[j] \in Returns /\ Later(f, k, j)
    <3>1. CASE k # Len(c)
      <4>1. k + 1 \in DOMAIN c /\ c[k + 1] \in Losses /\ f[k] = c[k + 1] /\ k \in Nat
        BY <1>1, <2>1, <2>2, <3>1
      <4>2. PICK j \in DOMAIN c : c[j] \in Returns /\ Later(c, k + 1, j)
        BY <4>1 DEF Answered
      <4>3. j # 1
        BY <1>1, <1>8, <4>2 DEF Returns
      <4>4. j - 1 \in DOMAIN f /\ f[j - 1] = c[j]
        BY <1>1, <2>1, <4>3
      <4>5. Later(f, k, j - 1)
        BY <1>1, <4>1, <4>2, <4>4 DEF Later
      <4> QED
        BY <4>2, <4>4, <4>5
    <3>2. CASE k = Len(c)
      <4>1. PICK j \in DOMAIN c : c[j] \in Returns /\ Later(c, 1, j)
        BY <1>1, <1>8 DEF Answered, Losses
      <4>2. j # 1 /\ c[j] \in LinkEvidence
        BY <1>1, <1>8, <4>1 DEF Returns, Later, LinkEvidence, LinkEvents
      <4>3. j - 1 \in DOMAIN f /\ f[j - 1] = c[j]
        BY <1>1, <2>1, <4>2
      <4>4. f[k] \in LinkEvents
        BY <2>1, <3>2 DEF LinkEvents
      <4> QED
        BY <4>1, <4>2, <4>3, <4>4 DEF Later
    <3> QED
      BY <3>1, <3>2
  <2> QED
    BY <2>2 DEF Answered, f
<1> QED
  BY <1>3, <1>4, <1>7, <1>8 DEF d

\* The start of the timer when the first item is taken.
LEMMA TailTicks ==
    ASSUME NEW c \in Seq(Items), c # <<>>, WillTick(c)
    PROVE  \/ WillTick(Tail(c))
           \/ Head(c) = Ask /\ ~Among(Tail(c), Cancelling)
<1> DEFINE d == Tail(c)
<1>1. /\ Len(c) \in Nat \ {0} /\ DOMAIN c = 1..Len(c) /\ DOMAIN d = 1..(Len(c) - 1)
      /\ \A i \in 1..(Len(c) - 1) : d[i] = c[i + 1]
      /\ Head(c) = c[1]
  OBVIOUS
<1> HIDE DEF d
<1>2. PICK i \in DOMAIN c : c[i] = Ask /\ \A j \in DOMAIN c : i < j => c[j] \notin Cancelling
  BY DEF WillTick
<1>3. CASE i = 1
  <2>1. ~Among(d, Cancelling)
    BY <1>1, <1>2, <1>3 DEF Among
  <2> QED
    BY <1>1, <1>2, <1>3, <2>1 DEF d
<1>4. CASE i # 1
  <2>1. i - 1 \in DOMAIN d /\ d[i - 1] = Ask
    BY <1>1, <1>2, <1>4
  <2>2. ASSUME NEW j \in DOMAIN d, i - 1 < j PROVE d[j] \notin Cancelling
    BY <1>1, <1>2, <2>2
  <2>3. WillTick(d)
    BY <2>1, <2>2 DEF WillTick
  <2> QED
    BY <2>3 DEF d
<1> QED
  BY <1>3, <1>4

\* An item is put anew into a lane, at the end.
LEMMA WithoutAmong ==
    ASSUME NEW S, NEW s \in Seq(S), NEW x \in S
    PROVE  /\ Append(Without(s, x), x) \in Seq(S)
           /\ \A X : Among(Append(Without(s, x), x), X) <=> Among(s, X) \/ x \in X
<1>1. CASE \A i \in DOMAIN s : s[i] # x
  <2>1. Without(s, x) = s
    BY <1>1 DEF Without
  <2> QED
    BY <2>1, AppendAmong
<1>2. CASE ~\A i \in DOMAIN s : s[i] # x
  <2> DEFINE k == CHOOSE i \in DOMAIN s : s[i] = x
             w == [i \in 1..(Len(s) - 1) |-> IF i < k THEN s[i] ELSE s[i + 1]]
  <2>1. k \in DOMAIN s /\ s[k] = x
    BY <1>2
  <2>2. Without(s, x) = w
    BY <1>2 DEF Without
  <2> HIDE DEF k
  <2>3. Len(s) \in Nat \ {0} /\ DOMAIN s = 1..Len(s) /\ Len(s) - 1 \in Nat
    BY <2>1
  <2>4. \A i \in 1..(Len(s) - 1) : w[i] \in S
    BY <2>1, <2>3
  <2>5. w \in Seq(S) /\ DOMAIN w = 1..(Len(s) - 1)
    BY <2>3, <2>4
  <2>6. \A X : Among(w, X) => Among(s, X)
    <3>1. ASSUME NEW i \in DOMAIN w PROVE \E j \in DOMAIN s : w[i] = s[j]
      BY <2>1, <2>3, <2>5
    <3> QED
      BY <3>1 DEF Among
  <2>7. \A X : Among(s, X) => Among(w, X) \/ x \in X
    <3>1. ASSUME NEW j \in DOMAIN s, j # k PROVE \E i \in DOMAIN w : w[i] = s[j]
      <4>1. CASE j < k
        <5>1. j \in 1..(Len(s) - 1) /\ w[j] = s[j]
          BY <2>1, <2>3, <4>1
        <5> QED
          BY <2>5, <5>1
      <4>2. CASE ~(j < k)
        <5>1. j - 1 \in 1..(Len(s) - 1) /\ ~(j - 1 < k) /\ (j - 1) + 1 = j
          BY <2>1, <2>3, <3>1, <4>2
        <5>2. w[j - 1] = s[j]
          BY <5>1
        <5> QED
          BY <2>5, <5>1, <5>2
      <4> QED
        BY <4>1, <4>2
    <3> QED
      BY <2>1, <3>1 DEF Among
  <2> HIDE DEF w
  <2>8. \A X : x \in X => Among(s, X)
    BY <2>1 DEF Among
  <2> QED
    BY <2>2, <2>5, <2>6, <2>7, <2>8, AppendAmong
<1> QED
  BY <1>1, <1>2

-----------------------------------------------------------------------------
(* What is posted.                                                         *)

\* No event has the name of evidence; the events that are posted.
LEMMA EventNames ==
    /\ Events \cap (Evidence \cup {"shake"}) = {}
    /\ {"bootCompleted", "failure", "standbyReady", "interruptCompleted", "wakeDetected",
        "interruptAndAcknowledge", "interruptRequested", "toggleChat", "pressDown", "pressUp",
        "systemSpeechRequested", "shakeSpeechRequested", "captureStarted", "intentReceived",
        "ttsStarted", "interruptAcknowledged", "terminalResponseCompleted", "ttsStopped",
        "transportDisconnected", "transportConnected", "endpointDetected"} \subseteq Events
<1>1. \A m \in UserMoves : m[1] \notin Evidence \cup {"shake"}
  BY DEF UserMoves, Evidence
<1>2. \A m \in SessionMoves : m[1] \notin Evidence \cup {"shake"}
  BY DEF SessionMoves, Evidence
<1>3. \A n \in {"bootCompleted", "wakeDetected", "interruptAndAcknowledge", "interruptRequested",
                "toggleChat", "pressDown", "pressUp", "systemSpeechRequested",
                "shakeSpeechRequested"} : \E m \in UserMoves : m[1] = n
  BY DEF UserMoves
<1>4. \A n \in {"failure", "standbyReady", "interruptCompleted", "captureStarted",
                "intentReceived", "ttsStarted", "interruptAcknowledged",
                "terminalResponseCompleted", "ttsStopped", "transportDisconnected",
                "transportConnected", "endpointDetected"} : \E m \in SessionMoves : m[1] = n
  BY DEF SessionMoves
<1> QED
  BY <1>1, <1>2, <1>3, <1>4 DEF Events

\* Lanes r are lanes l with some items of E added.
Extends(l, r, E) ==
    /\ r \in ProperLanes
    /\ l.dropped => r.dropped
    /\ \A X : Among(l.control, X) => Among(r.control, X)
    /\ \A X : Among(l.emergency, X) => Among(r.emergency, X)
    /\ \A X : Among(r.control, X) => Among(l.control, X) \/ E \cap X # {}
    /\ \A X : Among(r.emergency, X) => Among(l.emergency, X) \/ E \cap X # {}
    /\ Answered(l.control) /\ E \cap Losses = {} => Answered(r.control)
    /\ WillTick(l.control) /\ E \cap Cancelling = {} => WillTick(r.control)

\* Nothing was added.
LEMMA ExtendsSame ==
    ASSUME NEW l \in ProperLanes, NEW E
    PROVE  Extends(l, l, E)
  BY DEF Extends

\* Twice something was added.
LEMMA ExtendsTwice ==
    ASSUME NEW l, NEW r, NEW s, NEW E, NEW F, Extends(l, r, E), Extends(r, s, F)
    PROVE  Extends(l, s, E \cup F)
<1>1. \A X : Among(s.control, X) => Among(l.control, X) \/ (E \cup F) \cap X # {}
  BY DEF Extends
<1>2. \A X : Among(s.emergency, X) => Among(l.emergency, X) \/ (E \cup F) \cap X # {}
  BY DEF Extends
<1>3. Answered(l.control) /\ (E \cup F) \cap Losses = {} => Answered(s.control)
  BY DEF Extends
<1>4. WillTick(l.control) /\ (E \cup F) \cap Cancelling = {} => WillTick(s.control)
  BY DEF Extends
<1> QED
  BY <1>1, <1>2, <1>3, <1>4 DEF Extends

\* An item goes into the control lane.
LEMMA ControlExtends ==
    ASSUME NEW l \in ProperLanes, NEW e \in Items, Len(l.control) < ControlCapacity,
           NEW r, r = [l EXCEPT !.control = Append(@, e)]
    PROVE  /\ Extends(l, r, {e}) /\ Among(r.control, {e}) /\ r.emergency = l.emergency
           /\ r.control = Append(l.control, e)
           /\ e = "transport_connected" => Answered(r.control)
           /\ e = Ask => WillTick(r.control)
<1> DEFINE c == l.control
<1>1. c \in Seq(Items) /\ l \in LaneTypes
  BY DEF ProperLanes, LaneTypes
<1>2. /\ r.control = Append(c, e) /\ r.emergency = l.emergency /\ r.dropped = l.dropped
      /\ r.best = l.best
  BY <1>1 DEF LaneTypes
<1>3. r \in ProperLanes
  <2>1. Append(c, e) \in Seq(Items) /\ Len(Append(c, e)) = Len(c) + 1 /\ Len(c) \in Nat
    BY <1>1, AppendAt
  <2>2. r \in LaneTypes
    BY <1>1, <2>1 DEF LaneTypes
  <2>3. ControlCapacity \in Nat
    BY CapacityAssumption
  <2>4. Len(r.control) = Len(c) + 1 /\ Len(c) < ControlCapacity
    BY <1>2, <2>1
  <2>5. Len(r.control) <= ControlCapacity
    BY <2>1, <2>3, <2>4
  <2> QED
    BY <2>2, <2>5 DEF ProperLanes
<1> HIDE DEF c
<1>4. \A X : Among(r.control, X) <=> Among(c, X) \/ e \in X
  <2>1. \A X : Among(Append(c, e), X) <=> Among(c, X) \/ e \in X
    BY <1>1, AppendAmong
  <2> QED
    BY <1>2, <2>1
<1>5. /\ Answered(c) /\ {e} \cap Losses = {} => Answered(r.control)
      /\ e = "transport_connected" => Answered(r.control)
  BY <1>1, <1>2, AppendAnswered
<1>6. /\ WillTick(c) /\ {e} \cap Cancelling = {} => WillTick(r.control)
      /\ e = Ask => WillTick(r.control)
  <2>1. Ask \notin Cancelling
    BY DEF Ask, Cancelling
  <2> QED
    BY <1>1, <1>2, <2>1, AppendTicks
<1> QED
  BY <1>2, <1>3, <1>4, <1>5, <1>6 DEF Extends, c

\* An event, or evidence that has a slot, is posted: it is never lost.
LEMMA EventExtends ==
    ASSUME NEW l \in ProperLanes, NEW e \in Events \cup EmergencyEvidence,
           NEW r, r = EnqueueEvent(l, e)
    PROVE  /\ Extends(l, r, {e})
           /\ Among(r.control, {e}) \/ Among(r.emergency, {e})
           /\ r.dropped = l.dropped
<1>1. e \in Items
  BY DEF Items, EmergencyEvidence, Evidence
<1>2. CASE Len(l.control) < ControlCapacity
  <2>1. r = [l EXCEPT !.control = Append(@, e)]
    BY <1>2 DEF EnqueueEvent
  <2> QED
    BY <1>1, <1>2, <2>1, ControlExtends DEF ProperLanes, LaneTypes
<1>3. CASE ~(Len(l.control) < ControlCapacity)
  <2> DEFINE m == Append(Without(l.emergency, e), e)
  <2>1. r = [l EXCEPT !.emergency = m]
    BY <1>3 DEF EnqueueEvent
  <2>2. l.emergency \in Seq(Events \cup EmergencyEvidence) /\ l \in LaneTypes
    BY DEF ProperLanes, LaneTypes
  <2>3. m \in Seq(Events \cup EmergencyEvidence) /\
        \A X : Among(m, X) <=> Among(l.emergency, X) \/ e \in X
    BY <2>2, WithoutAmong
  <2> HIDE DEF m
  <2>4. r \in ProperLanes /\ r.control = l.control /\ r.emergency = m /\ r.dropped = l.dropped
    BY <2>1, <2>2, <2>3 DEF ProperLanes, LaneTypes
  <2> QED
    BY <2>3, <2>4 DEF Extends
<1> QED
  BY <1>2, <1>3

\* Evidence is posted: it is kept, unless it is dropped at a full queue or can be spared.
LEMMA EvidenceExtends ==
    ASSUME NEW l \in ProperLanes, NEW e \in Evidence, NEW r, r = EnqueueVoiceEvidence(l, e)
    PROVE  /\ Extends(l, r, {e})
           /\ e \notin BestEffort \cup EmergencyEvidence =>
                \/ r.dropped
                \/ /\ Among(r.control, {e})
                   /\ e = "transport_connected" => Answered(r.control)
                   /\ e = Ask => WillTick(r.control)
<1>1. l \in LaneTypes /\ Len(l.control) <= ControlCapacity /\ ControlCapacity \in Nat
      /\ Len(l.control) \in Nat
  BY CapacityAssumption DEF ProperLanes, LaneTypes
<1>2. CASE e \in BestEffort
  <2> DEFINE b == Append(IF Len(l.best) < BestEffortCapacity THEN l.best ELSE Tail(l.best), e)
  <2>1. r = [l EXCEPT !.best = b]
    BY <1>2 DEF EnqueueVoiceEvidence
  <2>2. b \in Seq(BestEffort)
    <3>1. l.best \in Seq(BestEffort) /\ BestEffortCapacity \in Nat \ {0}
      BY <1>1, CapacityAssumption DEF LaneTypes
    <3>2. CASE Len(l.best) < BestEffortCapacity
      BY <1>2, <3>1, <3>2
    <3>3. CASE ~(Len(l.best) < BestEffortCapacity)
      <4>1. l.best # <<>>
        BY <3>1, <3>3
      <4>2. Tail(l.best) \in Seq(BestEffort)
        BY <3>1, <4>1
      <4> QED
        BY <1>2, <3>3, <4>2
    <3> QED
      BY <3>2, <3>3
  <2> HIDE DEF b
  <2>3. r \in ProperLanes /\ r.control = l.control /\ r.emergency = l.emergency
        /\ r.dropped = l.dropped
    BY <1>1, <2>1, <2>2 DEF ProperLanes, LaneTypes
  <2> QED
    BY <1>2, <2>3 DEF Extends
<1>3. CASE e \notin BestEffort /\ Len(l.control) < ControlCapacity
  <2>1. r = [l EXCEPT !.control = Append(@, e)]
    BY <1>3 DEF EnqueueVoiceEvidence, EnqueueEvent
  <2>2. e \in Items
    BY DEF Items
  <2> QED
    BY <1>3, <2>1, <2>2, ControlExtends
<1>4. CASE e \notin BestEffort /\ e \in EmergencyEvidence
  <2>1. r = EnqueueEvent(l, e)
    BY <1>4 DEF EnqueueVoiceEvidence
  <2> QED
    BY <1>4, <2>1, EventExtends
<1>5. CASE e \notin BestEffort \cup EmergencyEvidence /\ ~(Len(l.control) < ControlCapacity)
  <2>1. r = [l EXCEPT !.dropped = TRUE]
    BY <1>5 DEF EnqueueVoiceEvidence
  <2>2. r \in ProperLanes /\ r.control = l.control /\ r.emergency = l.emergency /\ r.dropped
    BY <1>1, <2>1 DEF ProperLanes, LaneTypes
  <2> QED
    BY <2>2 DEF Extends
<1> QED
  BY <1>2, <1>3, <1>4, <1>5

\* The loop takes the first item of a lane.
LEMMA RestOf ==
    ASSUME lanes \in ProperLanes, NEW lane \in {"emergency", "control", "best"},
           lanes[lane] # <<>>, NEW r, r = Rest(lane), NEW e, e = Head(lanes[lane])
    PROVE  /\ r \in ProperLanes /\ r.dropped = lanes.dropped
           /\ lane = "control" => e \in Items /\ r.control = Tail(lanes.control)
                                  /\ Len(r.control) < ControlCapacity
                                  /\ r.emergency = lanes.emergency
           /\ lane = "emergency" => e \in Events \cup EmergencyEvidence
                                    /\ r.emergency = Tail(lanes.emergency)
                                    /\ r.control = lanes.control
           /\ lane = "best" => e \in BestEffort /\ r.emergency = lanes.emergency
                               /\ r.control = lanes.control
           /\ \A X : Among(lanes.control, X) => Among(r.control, X) \/ (lane = "control" /\ e \in X)
           /\ \A X : Among(lanes.emergency, X) =>
                Among(r.emergency, X) \/ (lane = "emergency" /\ e \in X)
           /\ \A X : Among(r.control, X) => Among(lanes.control, X)
           /\ \A X : Among(r.emergency, X) => Among(lanes.emergency, X)
<1>1. lanes \in LaneTypes /\ Len(lanes.control) <= ControlCapacity /\ ControlCapacity \in Nat
  BY CapacityAssumption DEF ProperLanes
<1>2. CASE lane = "control"
  <2> DEFINE t == Tail(lanes.control)
  <2>1. lanes.control \in Seq(Items) /\ lanes.control # <<>>
    BY <1>1, <1>2 DEF LaneTypes
  <2>2. /\ e \in Items /\ t \in Seq(Items) /\ Len(t) = Len(lanes.control) - 1
        /\ Len(lanes.control) \in Nat
        /\ \A X : Among(t, X) => Among(lanes.control, X)
        /\ \A X : Among(lanes.control, X) => e \in X \/ Among(t, X)
    BY <1>2, <2>1, TailAmong
  <2>3. r = [lanes EXCEPT !.control = t]
    BY <1>2 DEF Rest
  <2> HIDE DEF t
  <2>4. r.control = t /\ r.emergency = lanes.emergency /\ r.dropped = lanes.dropped
    BY <1>1, <2>3 DEF LaneTypes
  <2>5. r \in LaneTypes
    BY <1>1, <2>2, <2>3 DEF LaneTypes
  <2>6. r \in ProperLanes /\ Len(r.control) < ControlCapacity
    BY <1>1, <2>2, <2>4, <2>5 DEF ProperLanes
  <2> QED
    BY <1>2, <2>2, <2>4, <2>6 DEF t
<1>3. CASE lane = "emergency"
  <2> DEFINE t == Tail(lanes.emergency)
             S == Events \cup EmergencyEvidence
  <2>1. lanes.emergency \in Seq(S) /\ lanes.emergency # <<>>
    BY <1>1, <1>3 DEF LaneTypes
  <2> HIDE DEF S
  <2>2. /\ e \in S /\ t \in Seq(S)
        /\ \A X : Among(t, X) => Among(lanes.emergency, X)
        /\ \A X : Among(lanes.emergency, X) => e \in X \/ Among(t, X)
    BY <1>3, <2>1, TailAmong
  <2>3. r = [lanes EXCEPT !.emergency = t]
    BY <1>3 DEF Rest
  <2> HIDE DEF t
  <2>4. r.control = lanes.control /\ r.emergency = t /\ r.dropped = lanes.dropped
    BY <1>1, <2>3 DEF LaneTypes
  <2>5. r \in LaneTypes
    BY <1>1, <2>2, <2>3 DEF LaneTypes, S
  <2>6. r \in ProperLanes
    BY <1>1, <2>4, <2>5 DEF ProperLanes
  <2> QED
    BY <1>3, <2>2, <2>4, <2>6 DEF t, S
<1>4. CASE lane = "best"
  <2> DEFINE t == Tail(lanes.best)
  <2>1. lanes.best \in Seq(BestEffort) /\ lanes.best # <<>>
    BY <1>1, <1>4 DEF LaneTypes
  <2>2. e \in BestEffort /\ t \in Seq(BestEffort)
    BY <1>4, <2>1, TailAmong
  <2>3. r = [lanes EXCEPT !.best = t]
    BY <1>4 DEF Rest
  <2> HIDE DEF t
  <2>4. /\ r.control = lanes.control /\ r.emergency = lanes.emergency
        /\ r.dropped = lanes.dropped /\ r \in LaneTypes
    BY <1>1, <2>2, <2>3 DEF LaneTypes
  <2>5. r \in ProperLanes
    BY <1>1, <2>4 DEF ProperLanes
  <2> QED
    BY <1>4, <2>2, <2>4, <2>5
<1> QED
  BY <1>2, <1>3, <1>4

-----------------------------------------------------------------------------
(* The board queue.                                                        *)

\* A request is queued.
LEMMA BoardGrows ==
    ASSUME NEW b \in Seq(BoardRequest), NEW q \in BoardRequest, NEW d, d = Append(b, q)
    PROVE  /\ d \in Seq(BoardRequest)
           /\ RestoreQueued(b) => RestoreQueued(d)
           /\ q.kind = "restoreStandby" /\ q.expected = "reconnecting" => RestoreQueued(d)
           /\ StartQueued(b) => StartQueued(d)
           /\ q.kind \in Speeches =>
                /\ SpeechAfterStart(b) => SpeechAfterStart(d)
                /\ OnlySpeech(b) => OnlySpeech(d)
           /\ q.kind = "startVoiceTurn" => StartQueued(d) /\ SpeechAfterStart(d)
<1>1. /\ d \in Seq(BoardRequest) /\ Len(b) \in Nat
      /\ DOMAIN b = 1..Len(b) /\ DOMAIN d = 1..(Len(b) + 1)
      /\ \A i \in 1..Len(b) : d[i] = b[i]
      /\ d[Len(b) + 1] = q
  BY AppendAt
<1>2. RestoreQueued(b) => RestoreQueued(d)
  BY <1>1 DEF RestoreQueued
<1>3. q.kind = "restoreStandby" /\ q.expected = "reconnecting" => RestoreQueued(d)
  BY <1>1 DEF RestoreQueued
<1>4. StartQueued(b) => StartQueued(d)
  BY <1>1 DEF StartQueued
<1>5. ASSUME q.kind \in Speeches, SpeechAfterStart(b) PROVE SpeechAfterStart(d)
  <2>1. ASSUME NEW i \in DOMAIN d, d[i].kind \notin Speeches
        PROVE  \E j \in DOMAIN d : i <= j /\ d[j].kind = "startVoiceTurn"
    <3>1. i \in DOMAIN b /\ b[i].kind \notin Speeches
      BY <1>1, <1>5, <2>1
    <3>2. PICK j \in DOMAIN b : i <= j /\ b[j].kind = "startVoiceTurn"
      BY <1>5, <3>1 DEF SpeechAfterStart
    <3> QED
      BY <1>1, <3>2
  <2> QED
    BY <2>1 DEF SpeechAfterStart
<1>6. q.kind \in Speeches /\ OnlySpeech(b) => OnlySpeech(d)
  BY <1>1 DEF OnlySpeech
<1>7. q.kind = "startVoiceTurn" => StartQueued(d) /\ SpeechAfterStart(d)
  BY <1>1 DEF StartQueued, SpeechAfterStart
<1> QED
  BY <1>1, <1>2, <1>3, <1>4, <1>5, <1>6, <1>7

\* The WakeTask takes a request.
LEMMA BoardShrinks ==
    ASSUME NEW b \in Seq(BoardRequest), b # <<>>, NEW q, q = Head(b), NEW d, d = Tail(b)
    PROVE  /\ q \in BoardRequest /\ d \in Seq(BoardRequest)
           /\ RestoreQueued(b) =>
                \/ RestoreQueued(d)
                \/ q.kind = "restoreStandby" /\ q.expected = "reconnecting"
           /\ StartQueued(b) => StartQueued(d) \/ q.kind = "startVoiceTurn"
           /\ SpeechAfterStart(b) => SpeechAfterStart(d)
           /\ OnlySpeech(b) => OnlySpeech(d) /\ q.kind \in Speeches
<1>1. /\ Len(b) \in Nat \ {0} /\ DOMAIN b = 1..Len(b) /\ DOMAIN d = 1..(Len(b) - 1)
      /\ \A i \in 1..(Len(b) - 1) : d[i] = b[i + 1]
      /\ q = b[1] /\ d \in Seq(BoardRequest) /\ q \in BoardRequest
  OBVIOUS
<1>2. \A i \in DOMAIN b : i # 1 => i - 1 \in DOMAIN d /\ d[i - 1] = b[i]
  BY <1>1
<1>3. RestoreQueued(b) => RestoreQueued(d) \/ (q.kind = "restoreStandby" /\ q.expected = "reconnecting")
  BY <1>1, <1>2 DEF RestoreQueued
<1>4. StartQueued(b) => StartQueued(d) \/ q.kind = "startVoiceTurn"
  BY <1>1, <1>2 DEF StartQueued
<1>5. ASSUME SpeechAfterStart(b) PROVE SpeechAfterStart(d)
  <2>1. ASSUME NEW i \in DOMAIN d, d[i].kind \notin Speeches
        PROVE  \E j \in DOMAIN d : i <= j /\ d[j].kind = "startVoiceTurn"
    <3>1. i + 1 \in DOMAIN b /\ b[i + 1].kind \notin Speeches /\ i \in Nat \ {0}
      BY <1>1, <2>1
    <3>2. PICK j \in DOMAIN b : i + 1 <= j /\ b[j].kind = "startVoiceTurn"
      BY <1>5, <3>1 DEF SpeechAfterStart
    <3>3. j # 1 /\ i <= j - 1
      BY <1>1, <3>1, <3>2
    <3> QED
      BY <1>2, <3>2, <3>3
  <2> QED
    BY <2>1 DEF SpeechAfterStart
<1>6. OnlySpeech(b) => OnlySpeech(d) /\ q.kind \in Speeches
  BY <1>1 DEF OnlySpeech
<1> QED
  BY <1>1, <1>3, <1>4, <1>5, <1>6

\* A queue of only speech, or one that has a request for the greeting.
LEMMA SpeechOrStart ==
    ASSUME NEW b, SpeechAfterStart(b)
    PROVE  StartQueued(b) \/ OnlySpeech(b)
  BY DEF SpeechAfterStart, StartQueued, OnlySpeech

-----------------------------------------------------------------------------
(* The loop handles an event.                                              *)

\* What Handled returns: nothing happens, or the controller takes a row of its table whose
\* request is queued or becomes a failure.
LEMMA HandledCases ==
    ASSUME NEW e, NEW l, NEW h, h = Handled(e, l)
    PROVE  \/ /\ MovesOf(e) = {}
              /\ h.ctl = ctl /\ h.lanes = l /\ h.board = board
           \/ \E m \in Moves :
                /\ m[1] = e /\ ctl \in m[2]
                /\ h.ctl = IF m[3] = "same" THEN ctl ELSE m[3]
                /\ \/ m[4] = "none" /\ h.lanes = l /\ h.board = board
                   \/ /\ m[4] # "none" /\ h.lanes = l
                      /\ h.board = Append(board, [kind |-> m[4], expected |-> h.ctl,
                                                  settle |-> h.ctl # "reconnecting"])
                   \/ m[4] # "none" /\ h.lanes = EnqueueEvent(l, "failure") /\ h.board = board
<1>1. CASE MovesOf(e) = {}
  BY <1>1 DEF Handled
<1>2. CASE MovesOf(e) # {}
  <2> DEFINE m == CHOOSE n \in MovesOf(e) : TRUE
             next == IF m[3] = "same" THEN ctl ELSE m[3]
  <2>1. m \in MovesOf(e)
    BY <1>2
  <2>2. m \in Moves /\ m[1] = e /\ ctl \in m[2]
    BY <2>1 DEF MovesOf, Moves
  <2>3. h = IF m[4] = "none"
            THEN [moved |-> TRUE, ok |-> TRUE, ctl |-> next, lanes |-> l, board |-> board]
            ELSE IF Len(board) < BoardCapacity
            THEN [moved |-> TRUE, ok |-> TRUE, ctl |-> next, lanes |-> l,
                  board |-> Append(board, [kind |-> m[4], expected |-> next,
                                           settle |-> next # "reconnecting"])]
            ELSE [moved |-> TRUE, ok |-> FALSE, ctl |-> next,
                  lanes |-> EnqueueEvent(l, "failure"), board |-> board]
    BY <1>2 DEF Handled, ExpectedPhase
  <2> HIDE DEF m
  <2>4. h.ctl = next
    BY <2>3
  <2>5. \/ m[4] = "none" /\ h.lanes = l /\ h.board = board
        \/ /\ m[4] # "none" /\ h.lanes = l
           /\ h.board = Append(board, [kind |-> m[4], expected |-> next,
                                       settle |-> next # "reconnecting"])
        \/ m[4] # "none" /\ h.lanes = EnqueueEvent(l, "failure") /\ h.board = board
    BY <2>3
  <2> QED
    BY <2>2, <2>4, <2>5
<1> QED
  BY <1>1, <1>2

\* The controller's way into the two phases; a request that finds no place is a failure.
LEMMA HandledStep ==
    ASSUME Typed, NEW e, NEW l \in ProperLanes, NEW h, h = Handled(e, l)
    PROVE  /\ h.ctl \in Phases /\ h.board \in Seq(BoardRequest)
           /\ Extends(l, h.lanes, {"failure"}) /\ h.lanes.dropped = l.dropped
           /\ \/ MovesOf(e) = {} /\ h.ctl = ctl /\ h.lanes = l /\ h.board = board
              \/ /\ h.ctl = "reconnecting" =>
                      /\ e = "transportDisconnected"
                      /\ \/ RestoreQueued(h.board)
                         \/ Among(h.lanes.control, {"failure"})
                         \/ Among(h.lanes.emergency, {"failure"})
                 /\ h.ctl = "acknowledging" =>
                      /\ e = "wakeDetected"
                      /\ \/ StartQueued(h.board) /\ SpeechAfterStart(h.board)
                         \/ Among(h.lanes.control, {"failure"})
                         \/ Among(h.lanes.emergency, {"failure"})
<1>1. ctl \in Phases /\ board \in Seq(BoardRequest)
  BY DEF Typed
<1>2. CASE MovesOf(e) = {} /\ h.ctl = ctl /\ h.lanes = l /\ h.board = board
  BY <1>1, <1>2, ExtendsSame
<1>3. ASSUME NEW m \in Moves,
             m[1] = e, ctl \in m[2], h.ctl = IF m[3] = "same" THEN ctl ELSE m[3],
             \/ m[4] = "none" /\ h.lanes = l /\ h.board = board
             \/ /\ m[4] # "none" /\ h.lanes = l
                /\ h.board = Append(board, [kind |-> m[4], expected |-> h.ctl,
                                            settle |-> h.ctl # "reconnecting"])
             \/ m[4] # "none" /\ h.lanes = EnqueueEvent(l, "failure") /\ h.board = board
      PROVE  /\ h.ctl \in Phases /\ h.board \in Seq(BoardRequest)
             /\ Extends(l, h.lanes, {"failure"}) /\ h.lanes.dropped = l.dropped
             /\ h.ctl = "reconnecting" =>
                  /\ e = "transportDisconnected"
                  /\ \/ RestoreQueued(h.board)
                     \/ Among(h.lanes.control, {"failure"})
                     \/ Among(h.lanes.emergency, {"failure"})
             /\ h.ctl = "acknowledging" =>
                  /\ e = "wakeDetected"
                  /\ \/ StartQueued(h.board) /\ SpeechAfterStart(h.board)
                     \/ Among(h.lanes.control, {"failure"})
                     \/ Among(h.lanes.emergency, {"failure"})
  <2>1. h.ctl \in Phases
    BY <1>1, <1>3, RowTypes
  <2>2. /\ h.ctl = "reconnecting" => e = "transportDisconnected" /\ m[4] = "restoreStandby"
        /\ h.ctl = "acknowledging" => e = "wakeDetected" /\ m[4] = "startVoiceTurn"
    <3>1. CASE m[3] = "same"
      <4>1. h.ctl = ctl /\ ctl \in {"booting", "standby"}
        BY <1>3, <3>1, RowsInto
      <4> QED
        BY <4>1
    <3>2. CASE m[3] # "same"
      <4>1. h.ctl = m[3]
        BY <1>3, <3>2
      <4> QED
        BY <1>3, <4>1, RowsInto
    <3> QED
      BY <3>1, <3>2
  <2>3. CASE m[4] = "none" /\ h.lanes = l /\ h.board = board
    BY <1>1, <2>1, <2>2, <2>3, ExtendsSame
  <2>4. CASE /\ m[4] # "none" /\ h.lanes = l
             /\ h.board = Append(board, [kind |-> m[4], expected |-> h.ctl,
                                         settle |-> h.ctl # "reconnecting"])
    <3> DEFINE b == h.ctl # "reconnecting"
               q == [kind |-> m[4], expected |-> h.ctl, settle |-> b]
    <3>1. b \in BOOLEAN
      OBVIOUS
    <3>2. h.board = Append(board, q)
      BY <2>4
    <3> HIDE DEF b
    <3>3. m[4] \in RequestKinds
      BY <2>4, RowTypes
    <3>4. q \in BoardRequest /\ q.kind = m[4] /\ q.expected = h.ctl
      BY <2>1, <3>1, <3>3 DEF BoardRequest
    <3> HIDE DEF q
    <3>5. /\ h.board \in Seq(BoardRequest)
          /\ q.kind = "restoreStandby" /\ q.expected = "reconnecting" => RestoreQueued(h.board)
          /\ q.kind = "startVoiceTurn" => StartQueued(h.board) /\ SpeechAfterStart(h.board)
      BY <1>1, <3>2, <3>4, BoardGrows
    <3>6. Extends(l, h.lanes, {"failure"}) /\ h.lanes.dropped = l.dropped
      BY <2>4, ExtendsSame
    <3> QED
      BY <2>1, <2>2, <3>4, <3>5, <3>6
  <2>5. CASE m[4] # "none" /\ h.lanes = EnqueueEvent(l, "failure") /\ h.board = board
    <3>1. "failure" \in Events \cup EmergencyEvidence
      BY EventNames
    <3>2. /\ Extends(l, h.lanes, {"failure"}) /\ h.lanes.dropped = l.dropped
          /\ Among(h.lanes.control, {"failure"}) \/ Among(h.lanes.emergency, {"failure"})
      BY <2>5, <3>1, EventExtends
    <3> QED
      BY <1>1, <2>1, <2>2, <2>5, <3>2
  <2> QED
    BY <1>3, <2>3, <2>4, <2>5
<1>4. \/ MovesOf(e) = {} /\ h.ctl = ctl /\ h.lanes = l /\ h.board = board
      \/ \E m \in Moves :
           /\ m[1] = e /\ ctl \in m[2]
           /\ h.ctl = IF m[3] = "same" THEN ctl ELSE m[3]
           /\ \/ m[4] = "none" /\ h.lanes = l /\ h.board = board
              \/ /\ m[4] # "none" /\ h.lanes = l
                 /\ h.board = Append(board, [kind |-> m[4], expected |-> h.ctl,
                                             settle |-> h.ctl # "reconnecting"])
              \/ m[4] # "none" /\ h.lanes = EnqueueEvent(l, "failure") /\ h.board = board
  BY HandledCases
<1>5. CASE MovesOf(e) = {} /\ h.ctl = ctl /\ h.lanes = l /\ h.board = board
  BY <1>2, <1>5
<1>6. CASE ~(MovesOf(e) = {} /\ h.ctl = ctl /\ h.lanes = l /\ h.board = board)
  <2>1. PICK m \in Moves :
           /\ m[1] = e /\ ctl \in m[2]
           /\ h.ctl = IF m[3] = "same" THEN ctl ELSE m[3]
           /\ \/ m[4] = "none" /\ h.lanes = l /\ h.board = board
              \/ /\ m[4] # "none" /\ h.lanes = l
                 /\ h.board = Append(board, [kind |-> m[4], expected |-> h.ctl,
                                             settle |-> h.ctl # "reconnecting"])
              \/ m[4] # "none" /\ h.lanes = EnqueueEvent(l, "failure") /\ h.board = board
    BY <1>4, <1>6
  <2> QED
    BY <1>3, <2>1
<1> QED
  BY <1>5, <1>6

\* Board queue d is b, or b and one more speech.
MoreSpeech(b, d) ==
    /\ d \in Seq(BoardRequest)
    /\ RestoreQueued(b) => RestoreQueued(d)
    /\ StartQueued(b) => StartQueued(d)
    /\ SpeechAfterStart(b) => SpeechAfterStart(d)
    /\ OnlySpeech(b) => OnlySpeech(d)

\* A speech is asked for.
LEMMA SpeechQueued ==
    ASSUME Typed, NEW kind \in Speeches, NEW e \in Events, NEW l \in ProperLanes,
           QueueSystemSpeech(kind, e, l)
    PROVE  /\ Extends(l, lanes', {e, "standbyReady"}) /\ lanes'.dropped = l.dropped
           /\ MoreSpeech(board, board')
<1> DEFINE p == EnqueueEvent(l, e)
           q == [kind |-> kind, expected |-> ctl, settle |-> TRUE]
<1>1. q \in BoardRequest /\ q.kind = kind /\ board \in Seq(BoardRequest)
  BY DEF BoardRequest, Typed, RequestKinds
<1>2. Extends(l, p, {e}) /\ p.dropped = l.dropped
  BY EventExtends
<1>3. \/ lanes' = p /\ board' = Append(board, q)
      \/ lanes' = EnqueueEvent(p, "standbyReady") /\ board' = board
  BY DEF QueueSystemSpeech
<1> HIDE DEF p, q
<1>4. p \in ProperLanes /\ "standbyReady" \in Events
  BY <1>2, EventNames DEF Extends
<1>5. CASE lanes' = p /\ board' = Append(board, q)
  <2>1. Extends(l, lanes', {e} \cup {"standbyReady"})
    BY <1>2, <1>4, <1>5, ExtendsSame, ExtendsTwice
  <2>2. MoreSpeech(board, board')
    BY <1>1, <1>5, BoardGrows DEF MoreSpeech
  <2>3. {e} \cup {"standbyReady"} = {e, "standbyReady"}
    OBVIOUS
  <2> QED
    BY <1>2, <1>5, <2>1, <2>2, <2>3
<1>6. CASE lanes' = EnqueueEvent(p, "standbyReady") /\ board' = board
  <2>1. Extends(p, lanes', {"standbyReady"}) /\ lanes'.dropped = p.dropped
    BY <1>4, <1>6, EventExtends
  <2>2. Extends(l, lanes', {e} \cup {"standbyReady"})
    BY <1>2, <2>1, ExtendsTwice
  <2>3. {e} \cup {"standbyReady"} = {e, "standbyReady"}
    OBVIOUS
  <2> QED
    BY <1>1, <1>2, <1>6, <2>1, <2>2, <2>3 DEF MoreSpeech
<1> QED
  BY <1>3, <1>5, <1>6

-----------------------------------------------------------------------------
(* What steps preserve that leave the controller alone.                    *)

\* The link, when no report of it is posted.
LEMMA LinkKept ==
    ASSUME NEW E, LinkInv, ctl' = ctl, Extends(lanes, lanes', E),
           E \cap (Losses \cup LinkEvents) = {},
           session'.state = "starting" => ~session'.lease,
           session'.state # "starting" => session.state # "starting"
    PROVE  LinkInv'
<1>1. ~Among(lanes'.emergency, LinkEvents)
  BY DEF LinkInv, Extends
<1>2. session'.state # "starting" /\ ctl' = "reconnecting" => Among(lanes'.control, Returns)
  BY DEF LinkInv, Extends
<1>3. E \cap Losses = {}
  OBVIOUS
<1>4. session'.state # "starting" => Answered(lanes'.control)
  BY <1>3 DEF LinkInv, Extends
<1> QED
  BY <1>1, <1>2, <1>4 DEF LinkInv

\* The recovery, when the microphone is not opened.
LEMMA DeafKept ==
    ASSUME NEW E, DeafInv, ctl' = ctl, Extends(lanes, lanes', E),
           gate'.forwarding => gate.forwarding,
           ctl = "reconnecting" /\ gate'.forwarding /\ RestoreComes => RestoreComes'
    PROVE  DeafInv'
  BY DEF DeafInv, Extends, Queued

\* The wait, when the WakeTask does not turn to the request for the greeting.
LEMMA WaitKept ==
    ASSUME NEW E, WaitInv, ctl' = ctl, Extends(lanes, lanes', E), Asking => Asking',
           Asked => Asked' \/ Queued(Leaving)'
    PROVE  WaitInv'
  BY DEF WaitInv, Extends, Queued

\* A step of the environment.
LEMMA OutsideKept ==
    ASSUME NEW E, LinkInv, DeafInv, WaitInv, ctl' = ctl, wake' = wake, timer' = timer,
           MoreSpeech(board, board'), Extends(lanes, lanes', E),
           E \cap (Losses \cup LinkEvents) = {},
           session'.state = "starting" => ~session'.lease,
           session'.state # "starting" => session.state # "starting",
           gate'.forwarding => gate.forwarding,
           Harmless => (Harmless' /\ E \cap Cancelling = {}) \/ Queued(Leaving)'
    PROVE  LinkInv' /\ DeafInv' /\ WaitInv'
<1>1. LinkInv'
  BY LinkKept
<1>2. RestoreComes => RestoreComes'
  BY DEF RestoreComes, MoreSpeech
<1>3. DeafInv'
  BY <1>2, DeafKept
<1>4. Asking => Asking'
  BY DEF Asking, MoreSpeech
<1>5. ASSUME Asked, Harmless', E \cap Cancelling = {} PROVE Asked'
  <2>1. OnlySpeech(board')
    BY <1>5 DEF Asked, MoreSpeech
  <2>2. Ticking => Ticking'
    BY DEF Ticking
  <2>3. ~Among(lanes.control, Cancelling) => ~Among(lanes'.control, Cancelling)
    BY <1>5 DEF Extends
  <2>4. WillTick(lanes.control) => WillTick(lanes'.control)
    BY <1>5 DEF Extends
  <2> QED
    BY <1>5, <2>1, <2>2, <2>3, <2>4 DEF Asked
<1>6. Asked => Asked' \/ Queued(Leaving)'
  BY <1>5 DEF Asked
<1>7. WaitInv'
  BY <1>4, <1>6, WaitKept
<1> QED
  BY <1>1, <1>3, <1>7

\* A step of the WakeTask at a request for neither speech nor the greeting.
LEMMA WorkKept ==
    ASSUME NEW E, WaitInv, ctl' = ctl, board' = board, Extends(lanes, lanes', E),
           wake.at # "idle", wake.at = "run" => wake.request.kind \notin Speeches \cup {"startVoiceTurn"}
    PROVE  WaitInv'
<1>1. ~Asked
  BY DEF Asked
<1>2. Asking => Asking'
  BY DEF Asking
<1> QED
  BY <1>1, <1>2, WaitKept

-----------------------------------------------------------------------------
(* The loop.                                                               *)

\* Names that are none of the sets the proof speaks of.
LEMMA Names ==
    /\ Losses \subseteq Items /\ Returns \subseteq Items /\ LinkEvents \subseteq Events
    /\ Events \cap Cancelling = {} /\ Ask \notin Events
    /\ \A e \in Events : e \in Leaving =>
         e \in {"standbyReady", "failure", "ttsStarted", "transportDisconnected"}
    /\ \A e \in Events : e \in Returns => e = "transportConnected"
    /\ \A e \in Events : e \in Losses => e = "transportDisconnected"
    /\ {"failure"} \cap (Losses \cup LinkEvents \cup Cancelling) = {}
    /\ "failure" \in Leaving /\ "standbyReady" \in Leaving
    /\ Cancelling \subseteq Evidence
<1>1. Cancelling \subseteq Evidence /\ Ask \in Evidence
  BY DEF Cancelling, Evidence, Ask
<1>2. LinkEvents \subseteq Events
  BY EventNames DEF LinkEvents
<1>3. Losses \subseteq Items /\ Returns \subseteq Items
  BY EventNames DEF Losses, Returns, Items, Evidence
<1>4. {"tts_started", "transport_disconnected", "provider_error", "transport_connected"} \subseteq Evidence
  BY DEF Evidence
<1>5. \A e \in Events : e \notin Evidence
  BY EventNames
<1>6. \A e \in Events : e \in Leaving =>
         e \in {"standbyReady", "failure", "ttsStarted", "transportDisconnected"}
  BY <1>4, <1>5 DEF Leaving
<1>7. /\ \A e \in Events : e \in Returns => e = "transportConnected"
      /\ \A e \in Events : e \in Losses => e = "transportDisconnected"
  BY <1>4, <1>5 DEF Returns, Losses
<1>8. {"failure"} \cap (Losses \cup LinkEvents \cup Cancelling) = {}
  BY DEF Losses, LinkEvents, Cancelling
<1>9. "failure" \in Leaving /\ "standbyReady" \in Leaving
  BY DEF Leaving
<1> QED
  BY <1>1, <1>2, <1>3, <1>5, <1>6, <1>7, <1>8, <1>9

\* The loop handles an event.
LEMMA EventStep ==
    ASSUME IInv, NEW lane \in {"emergency", "control", "best"}, lanes[lane] # <<>>,
           LoopEvent(lane)
    PROVE  IInv'
<1> DEFINE e == Head(lanes[lane])
           r == Rest(lane)
           h == Handled(e, r)
<1>1. /\ e \in Events /\ ctl' = h.ctl /\ lanes' = h.lanes /\ board' = h.board
      /\ gate' = (IF e \in LocalCommands \cup {"interruptRequested"} /\ ~h.ok
                  THEN StartStandby(gate) ELSE gate)
      /\ timer' = timer /\ wake' = wake /\ session' = session /\ server' = server
  BY DEF LoopEvent, HandleInteractionEvent
<1>2. Typed /\ FenceInv /\ lanes \in ProperLanes /\ gate \in Gate /\ ctl \in Phases
  BY DEF IInv, Typed
<1>3. /\ r \in ProperLanes /\ r.dropped = lanes.dropped
      /\ lane = "control" => r.control = Tail(lanes.control) /\ r.emergency = lanes.emergency
      /\ lane = "emergency" => r.emergency = Tail(lanes.emergency) /\ r.control = lanes.control
      /\ lane = "best" => e \in BestEffort
      /\ \A X : Among(lanes.control, X) => Among(r.control, X) \/ (lane = "control" /\ e \in X)
      /\ \A X : Among(lanes.emergency, X) =>
           Among(r.emergency, X) \/ (lane = "emergency" /\ e \in X)
      /\ \A X : Among(r.control, X) => Among(lanes.control, X)
      /\ \A X : Among(r.emergency, X) => Among(lanes.emergency, X)
  BY <1>2, RestOf
<1> HIDE DEF e, r
<1>4. /\ h.ctl \in Phases /\ h.board \in Seq(BoardRequest)
      /\ Extends(r, h.lanes, {"failure"}) /\ h.lanes.dropped = r.dropped
      /\ \/ MovesOf(e) = {} /\ h.ctl = ctl /\ h.lanes = r /\ h.board = board
         \/ /\ h.ctl = "reconnecting" =>
                 /\ e = "transportDisconnected"
                 /\ \/ RestoreQueued(h.board)
                    \/ Among(h.lanes.control, {"failure"})
                    \/ Among(h.lanes.emergency, {"failure"})
            /\ h.ctl = "acknowledging" =>
                 /\ e = "wakeDetected"
                 /\ \/ StartQueued(h.board) /\ SpeechAfterStart(h.board)
                    \/ Among(h.lanes.control, {"failure"})
                    \/ Among(h.lanes.emergency, {"failure"})
  BY <1>2, <1>3, HandledStep
<1> HIDE DEF h
<1>5. lane # "best"
  <2>1. BestEffort \subseteq Evidence
    BY DEF BestEffort, Evidence
  <2> QED
    BY <1>1, <1>3, <2>1, EventNames
<1>6. gate' \in Gate /\ gate'.forwarding = gate.forwarding
  BY <1>1, <1>2 DEF StartStandby, Gate
<1>7. Typed'
  <2>1. lanes' \in ProperLanes
    BY <1>1, <1>4 DEF Extends
  <2> QED
    BY <1>1, <1>2, <1>4, <1>6, <2>1 DEF Typed
<1>8. FenceInv'
  BY <1>1, <1>2 DEF FenceInv
<1>9. ASSUME NothingDropped' PROVE LinkInv' /\ DeafInv' /\ WaitInv'
  <2>1. LinkInv /\ DeafInv /\ WaitInv
    BY <1>1, <1>3, <1>4, <1>9 DEF NothingDropped, IInv
  <2>2. lanes.control \in Seq(Items) /\ (lane = "control" => lanes.control # <<>>)
    BY <1>2 DEF ProperLanes, LaneTypes
  <2>3. e # "transport_connected" /\ e \notin Cancelling /\ e # Ask
    BY <1>1, Names, EventNames DEF Evidence
  <2>4. ASSUME session.state # "starting" PROVE Answered(lanes'.control)
    <3>1. Answered(lanes.control)
      BY <2>1, <2>4 DEF LinkInv
    <3>2. Answered(r.control)
      BY <1>3, <1>5, <2>2, <2>3, <3>1, TailAnswered DEF e
    <3> QED
      BY <1>1, <1>4, <3>2, Names DEF Extends
  <2>5. ~Among(lanes'.emergency, LinkEvents)
    BY <1>1, <1>3, <1>4, <2>1, Names DEF LinkInv, Extends
  <2>6. CASE MovesOf(e) = {} /\ h.ctl = ctl /\ h.lanes = r /\ h.board = board
    <3>1. /\ ctl = "reconnecting" => e # "transportConnected" /\ e # "failure"
          /\ ctl = "acknowledging" => e \notin Leaving
      BY <1>1, <2>6, RowsAccept, Names
    <3>2. LinkInv'
      <4>1. session.state # "starting" /\ ctl = "reconnecting" => Among(lanes'.control, Returns)
        BY <1>1, <1>3, <2>1, <2>6, <3>1, Names DEF LinkInv
      <4> QED
        BY <1>1, <2>1, <2>4, <2>5, <2>6, <4>1 DEF LinkInv
    <3>3. DeafInv'
      <4>1. ctl = "reconnecting" /\ Among(lanes.control, Returns) => Among(lanes'.control, Returns)
        BY <1>1, <1>3, <2>6, <3>1, Names
      <4>2. ctl = "reconnecting" /\ Queued({"failure"}) => Queued({"failure"})'
        BY <1>1, <1>3, <2>6, <3>1 DEF Queued
      <4>3. RestoreComes => RestoreComes'
        BY <1>1, <2>6 DEF RestoreComes
      <4> QED
        BY <1>1, <1>6, <2>1, <2>6, <4>1, <4>2, <4>3 DEF DeafInv
    <3>4. WaitInv'
      <4>1. ctl = "acknowledging" /\ Queued(Leaving) => Queued(Leaving)'
        BY <1>1, <1>3, <2>6, <3>1 DEF Queued
      <4>2. Asking => Asking'
        BY <1>1, <2>6 DEF Asking
      <4>3. WillTick(lanes.control) => WillTick(r.control)
        BY <1>3, <1>5, <2>2, <2>3, TailTicks DEF e
      <4>4. ~Among(lanes.control, Cancelling) => ~Among(r.control, Cancelling)
        BY <1>3
      <4>5. Asked => Asked'
        BY <1>1, <2>6, <4>3, <4>4 DEF Asked, Harmless, Ticking
      <4> QED
        BY <1>1, <2>1, <2>6, <4>1, <4>2, <4>5 DEF WaitInv
    <3> QED
      BY <3>2, <3>3, <3>4
  <2>7. CASE /\ h.ctl = "reconnecting" =>
                  /\ e = "transportDisconnected"
                  /\ \/ RestoreQueued(h.board)
                     \/ Among(h.lanes.control, {"failure"})
                     \/ Among(h.lanes.emergency, {"failure"})
             /\ h.ctl = "acknowledging" =>
                  /\ e = "wakeDetected"
                  /\ \/ StartQueued(h.board) /\ SpeechAfterStart(h.board)
                     \/ Among(h.lanes.control, {"failure"})
                     \/ Among(h.lanes.emergency, {"failure"})
    <3>1. LinkInv'
      <4>1. ASSUME session.state # "starting", h.ctl = "reconnecting"
            PROVE  Among(lanes'.control, Returns)
        <5>1. e = "transportDisconnected" /\ e \in LinkEvents
          BY <2>7, <4>1 DEF LinkEvents
        <5>2. lane = "control"
          <6>1. ASSUME lane = "emergency" PROVE FALSE
            <7>1. lanes.emergency \in Seq(Events \cup EmergencyEvidence) /\ lanes.emergency # <<>>
              BY <1>2, <6>1 DEF ProperLanes, LaneTypes
            <7>2. Among(lanes.emergency, LinkEvents)
              BY <5>1, <6>1, <7>1, TailAmong DEF e
            <7> QED
              BY <2>1, <7>2 DEF LinkInv
          <6> QED
            BY <1>5, <6>1
        <5>3. Among(r.control, Returns)
          BY <1>3, <2>1, <2>2, <4>1, <5>1, <5>2, TailAnswered DEF e, LinkInv
        <5> QED
          BY <1>1, <1>4, <5>3 DEF Extends
      <4> QED
        BY <1>1, <2>1, <2>4, <2>5, <4>1 DEF LinkInv
    <3>2. DeafInv'
      BY <1>1, <2>7 DEF DeafInv, RestoreComes, Queued
    <3>3. WaitInv'
      <4>1. Among(lanes'.control, {"failure"}) \/ Among(lanes'.emergency, {"failure"})
              => Queued(Leaving)'
        BY Names DEF Queued, Among
      <4> QED
        BY <1>1, <2>7, <4>1 DEF WaitInv, Asking
    <3> QED
      BY <3>1, <3>2, <3>3
  <2> QED
    BY <1>4, <2>6, <2>7
<1> QED
  BY <1>7, <1>8, <1>9 DEF IInv

\* The timer is started or cancelled.
LEMMA TimerSet ==
    ASSUME NEW t \in Timer
    PROVE  /\ StartListenTimer(t) \in Timer /\ CancelListenTimer(t) \in Timer
           /\ StartListenTimer(t).armed /\ StartListenTimer(t).pending = "no"
           /\ CancelListenTimer(t).pending = "no"
<1> DEFINE o == Outdated(t)
<1>1. o \in {"no", "called", "fresh", "stale"}
  BY DEF Outdated
<1>2. /\ StartListenTimer(t) = [armed |-> TRUE, firing |-> o, pending |-> "no"]
      /\ CancelListenTimer(t) = [armed |-> FALSE, firing |-> o, pending |-> "no"]
  BY DEF StartListenTimer, CancelListenTimer
<1> HIDE DEF o
<1> QED
  BY <1>1, <1>2 DEF Timer

\* The loop meets a shake: it is dropped, or a speech is asked for and the timer started.
LEMMA ShakeStep ==
    ASSUME IInv, NEW lane \in {"emergency", "control", "best"}, lanes[lane] # <<>>,
           LoopShake(lane)
    PROVE  IInv'
<1> DEFINE e == Head(lanes[lane])
           r == Rest(lane)
<1>1. e = "shake"
  BY DEF LoopShake
<1>2. Typed /\ FenceInv /\ lanes \in ProperLanes /\ timer \in Timer /\ board \in Seq(BoardRequest)
  BY DEF IInv, Typed
<1>3. ctl' = ctl /\ wake' = wake /\ gate' = gate /\ session' = session /\ server' = server
  BY DEF LoopShake
<1>4. \/ lanes' = r /\ board' = board /\ timer' = timer
      \/ /\ QueueSystemSpeech("shakeSpeech", "shakeSpeechRequested", r)
         /\ timer' = StartListenTimer(timer) \/ timer' = timer
  BY DEF LoopShake
<1>5. /\ r \in ProperLanes /\ r.dropped = lanes.dropped
      /\ lane = "control" => r.control = Tail(lanes.control) /\ r.emergency = lanes.emergency
      /\ lane = "emergency" => e \in Events \cup EmergencyEvidence
      /\ lane = "best" => e \in BestEffort
      /\ \A X : Among(lanes.control, X) => Among(r.control, X) \/ (lane = "control" /\ e \in X)
      /\ \A X : Among(lanes.emergency, X) =>
           Among(r.emergency, X) \/ (lane = "emergency" /\ e \in X)
      /\ \A X : Among(r.control, X) => Among(lanes.control, X)
      /\ \A X : Among(r.emergency, X) => Among(lanes.emergency, X)
  BY <1>2, RestOf
<1> HIDE DEF e, r
<1>6. lane = "control"
  BY <1>1, <1>5, EventNames DEF EmergencyEvidence, BestEffort
<1> DEFINE E == {"shakeSpeechRequested", "standbyReady"}
<1>7. Extends(r, lanes', E) /\ lanes'.dropped = r.dropped /\ MoreSpeech(board, board')
  <2>1. CASE lanes' = r /\ board' = board
    BY <1>2, <1>5, <2>1, ExtendsSame DEF MoreSpeech
  <2>2. CASE QueueSystemSpeech("shakeSpeech", "shakeSpeechRequested", r)
    <3>1. "shakeSpeech" \in Speeches /\ "shakeSpeechRequested" \in Events
      BY EventNames DEF Speeches
    <3> QED
      BY <1>2, <1>5, <2>2, <3>1, SpeechQueued
  <2> QED
    BY <1>4, <2>1, <2>2
<1>8. E \cap (Losses \cup LinkEvents \cup Cancelling) = {}
  BY DEF Losses, LinkEvents, Cancelling
<1> HIDE DEF E
<1>9. /\ timer' \in Timer
      /\ Ticking => Ticking'
      /\ FenceInv'
  <2>1. timer' = timer \/ (timer' \in Timer /\ timer'.armed /\ timer'.pending = "no")
    BY <1>2, <1>4, TimerSet
  <2>2. timer' \in Timer
    BY <1>2, <2>1
  <2>3. Ticking => Ticking'
    BY <2>1 DEF Ticking
  <2>4. FenceInv'
    BY <1>2, <1>3, <2>1 DEF FenceInv
  <2> QED
    BY <2>2, <2>3, <2>4
<1>10. Typed'
  BY <1>2, <1>3, <1>7, <1>9 DEF Typed, Extends, MoreSpeech
<1>11. ASSUME NothingDropped' PROVE LinkInv' /\ DeafInv' /\ WaitInv'
  <2>1. LinkInv /\ DeafInv /\ WaitInv
    BY <1>5, <1>7, <1>11 DEF NothingDropped, IInv
  <2>2. lanes.control \in Seq(Items) /\ lanes.control # <<>> /\ e = Head(lanes.control)
    BY <1>2, <1>6 DEF ProperLanes, LaneTypes, e
  <2>3. e \notin Leaving /\ e \notin Returns /\ e # "failure" /\ e # "transport_connected" /\ e # Ask
    BY <1>1 DEF Leaving, Returns, Ask
  <2>4. LinkInv'
    <3>1. ~Among(lanes'.emergency, LinkEvents)
      BY <1>5, <1>7, <1>8, <2>1 DEF LinkInv, Extends
    <3>2. Answered(lanes.control) => Answered(r.control)
      BY <1>5, <1>6, <2>2, <2>3, TailAnswered
    <3>3. Answered(lanes.control) => Answered(lanes'.control)
      BY <1>7, <1>8, <3>2 DEF Extends
    <3>4. Among(lanes.control, Returns) => Among(lanes'.control, Returns)
      BY <1>5, <1>7, <2>3 DEF Extends
    <3> QED
      BY <1>3, <2>1, <3>1, <3>3, <3>4 DEF LinkInv
  <2>5. DeafInv'
    <3>1. Among(lanes.control, Returns) => Among(lanes'.control, Returns)
      BY <1>5, <1>7, <2>3 DEF Extends
    <3>2. Queued({"failure"}) => Queued({"failure"})'
      BY <1>5, <1>7, <2>3 DEF Extends, Queued
    <3>3. RestoreComes => RestoreComes'
      BY <1>3, <1>7 DEF RestoreComes, MoreSpeech
    <3> QED
      BY <1>3, <2>1, <3>1, <3>2, <3>3 DEF DeafInv
  <2>6. WaitInv'
    <3>1. Queued(Leaving) => Queued(Leaving)'
      BY <1>5, <1>7, <2>3 DEF Extends, Queued
    <3>2. Asking => Asking'
      BY <1>3, <1>7 DEF Asking, MoreSpeech
    <3>3. WillTick(lanes.control) => WillTick(r.control)
      BY <1>5, <1>6, <2>2, <2>3, TailTicks
    <3>4. WillTick(lanes.control) => WillTick(lanes'.control)
      BY <1>7, <1>8, <3>3 DEF Extends
    <3>5. ~Among(lanes.control, Cancelling) => ~Among(lanes'.control, Cancelling)
      BY <1>5, <1>7, <1>8 DEF Extends
    <3>6. Asked => Asked'
      BY <1>3, <1>7, <1>9, <3>4, <3>5 DEF Asked, Harmless, MoreSpeech
    <3> QED
      BY <1>3, <2>1, <3>1, <3>2, <3>6 DEF WaitInv
  <2> QED
    BY <2>4, <2>5, <2>6
<1> QED
  BY <1>9, <1>10, <1>11 DEF IInv

\* What the loop makes of evidence: the event it becomes, and when a wait goes on.
LEMMA EvidenceBecomes ==
    ASSUME NEW e \in Evidence, timer \in Timer, NEW f, f = EventsOf(e)
    PROVE  /\ f # <<>> => f[1] \in Events
           /\ f # <<>> /\ f[1] \in Losses => e = "transport_disconnected"
           /\ f # <<>> /\ f[1] \in LinkEvents => e \in LinkEvidence
           /\ e = "transport_connected" => f = <<"transportConnected">>
           /\ e = "transport_disconnected" => f = <<"transportDisconnected">>
           /\ ctl = "acknowledging" /\ e \in Leaving => f # <<>> /\ f[1] \in Leaving
           /\ e \in EmergencyEvidence => f # <<>>
<1>1. f \in {<<>>, <<"captureStarted">>, <<"intentReceived">>, <<"ttsStarted">>,
             <<"interruptAcknowledged">>, <<"terminalResponseCompleted">>, <<"ttsStopped">>,
             <<"transportDisconnected">>, <<"transportConnected">>, <<"failure">>,
             <<"endpointDetected">>}
  BY DEF EventsOf, Evidence
<1>2. /\ f = <<"transportDisconnected">> => e = "transport_disconnected"
      /\ f = <<"transportConnected">> => e = "transport_connected"
  BY DEF EventsOf, Evidence
<1>3. f # <<>> => f[1] \in Events
  BY <1>1, EventNames
<1>4. f # <<>> /\ f[1] \in Losses => f = <<"transportDisconnected">>
  BY <1>1 DEF Losses
<1>5. f # <<>> /\ f[1] \in LinkEvents => f \in {<<"transportDisconnected">>, <<"transportConnected">>}
  BY <1>1 DEF LinkEvents
<1>6. /\ e = "transport_connected" => f = <<"transportConnected">>
      /\ e = "transport_disconnected" => f = <<"transportDisconnected">>
  BY DEF EventsOf
<1>7. ASSUME ctl = "acknowledging", e \in Leaving PROVE f # <<>> /\ f[1] \in Leaving
  <2>1. e \in {"tts_started", "transport_disconnected", "provider_error"}
    BY <1>7 DEF Leaving, Evidence
  <2>2. f \in {<<"ttsStarted">>, <<"transportDisconnected">>, <<"failure">>}
    BY <1>7, <2>1 DEF EventsOf
  <2> QED
    BY <2>2 DEF Leaving
<1>8. e \in EmergencyEvidence => f # <<>>
  BY DEF EmergencyEvidence, EventsOf
<1> QED
  BY <1>2, <1>3, <1>4, <1>5, <1>6, <1>7, <1>8 DEF LinkEvidence

\* What it does to the timer.
LEMMA EvidenceTimer ==
    ASSUME NEW e \in Evidence, timer \in Timer, NEW t, t = TimerAfter(e)
    PROVE  /\ t \in Timer
           /\ t.pending = "fresh" => t = timer
           /\ e = Ask => t.armed
           /\ e \notin Cancelling \cup Leaving => t = timer \/ t.armed
<1>1. t \in {StartListenTimer(timer), CancelListenTimer(timer), timer}
  BY DEF TimerAfter
<1>2. t \in Timer /\ (t.pending = "fresh" => t = timer)
  BY <1>1, TimerSet
<1>3. e = Ask => t.armed
  BY DEF TimerAfter, StartsTimer, Ask, StartListenTimer
<1>4. ASSUME e \notin Cancelling \cup Leaving PROVE t = timer \/ t.armed
  <2>1. ~CancelsTimer(e)
    BY <1>4 DEF CancelsTimer, Cancelling, Leaving
  <2> QED
    BY <2>1 DEF TimerAfter, StartListenTimer
<1> QED
  BY <1>2, <1>3, <1>4

\* The lanes when the loop has taken evidence and posted the event it becomes.
LEMMA EvidencePosted ==
    ASSUME Typed, NEW lane \in {"emergency", "control", "best"}, lanes[lane] # <<>>,
           NEW e, e = Head(lanes[lane]), e \notin Events \cup {"shake"},
           NEW f, f = EventsOf(e),
           NEW p, p = IF f = <<>> THEN Rest(lane) ELSE EnqueueEvent(Rest(lane), f[1])
    PROVE  /\ e \in Evidence /\ p \in ProperLanes /\ p.dropped = lanes.dropped
           /\ \A X : Among(lanes.control, X) /\ e \notin X => Among(p.control, X)
           /\ \A X : Among(lanes.emergency, X) /\ e \notin X => Among(p.emergency, X)
           /\ Answered(lanes.control) => Answered(p.control)
           /\ Among(lanes.control, Returns) => Among(p.control, Returns)
           /\ ~Among(lanes.emergency, LinkEvents) => ~Among(p.emergency, LinkEvents)
           /\ ctl = "acknowledging" /\ e \in Leaving =>
                Among(p.control, Leaving) \/ Among(p.emergency, Leaving)
           /\ ~Among(lanes.control, Cancelling) =>
                ~Among(p.control, Cancelling) /\ e \notin Cancelling
           /\ WillTick(lanes.control) =>
                WillTick(p.control) \/ (e = Ask /\ ~Among(p.control, Cancelling))
<1> DEFINE r == Rest(lane)
<1>1. lanes \in ProperLanes /\ timer \in Timer /\ lanes.control \in Seq(Items)
  BY DEF Typed, ProperLanes, LaneTypes
<1>2. /\ r \in ProperLanes /\ r.dropped = lanes.dropped
      /\ lane = "control" => e \in Items /\ r.control = Tail(lanes.control)
                             /\ Len(r.control) < ControlCapacity
                             /\ r.emergency = lanes.emergency
      /\ lane = "emergency" => e \in Events \cup EmergencyEvidence
                               /\ r.emergency = Tail(lanes.emergency)
                               /\ r.control = lanes.control
      /\ lane = "best" => e \in BestEffort /\ r.emergency = lanes.emergency
                          /\ r.control = lanes.control
      /\ \A X : Among(lanes.control, X) => Among(r.control, X) \/ (lane = "control" /\ e \in X)
      /\ \A X : Among(lanes.emergency, X) =>
           Among(r.emergency, X) \/ (lane = "emergency" /\ e \in X)
      /\ \A X : Among(r.control, X) => Among(lanes.control, X)
      /\ \A X : Among(r.emergency, X) => Among(lanes.emergency, X)
  BY <1>1, RestOf
<1>3. p = IF f = <<>> THEN r ELSE EnqueueEvent(r, f[1])
  OBVIOUS
<1> HIDE DEF r
<1>4. e \in Evidence /\ (lane # "control" => e \in EmergencyEvidence \cup BestEffort)
  BY <1>2 DEF Items, EmergencyEvidence, BestEffort, Evidence
<1>5. /\ f # <<>> => f[1] \in Events
      /\ f # <<>> /\ f[1] \in Losses => e = "transport_disconnected"
      /\ f # <<>> /\ f[1] \in LinkEvents => e \in LinkEvidence
      /\ e = "transport_connected" => f = <<"transportConnected">>
      /\ e = "transport_disconnected" => f = <<"transportDisconnected">>
      /\ ctl = "acknowledging" /\ e \in Leaving => f # <<>> /\ f[1] \in Leaving
  BY <1>1, <1>4, EvidenceBecomes
<1> DEFINE E == IF f = <<>> THEN {} ELSE {f[1]}
<1>6. /\ Extends(r, p, E) /\ p.dropped = r.dropped
      /\ f # <<>> => Among(p.control, {f[1]}) \/ Among(p.emergency, {f[1]})
  <2>1. CASE f = <<>>
    BY <1>2, <1>3, <2>1, ExtendsSame
  <2>2. CASE f # <<>>
    <3> DEFINE g == f[1]
    <3>1. g \in Events \cup EmergencyEvidence /\ p = EnqueueEvent(r, g) /\ E = {g}
      BY <1>3, <1>5, <2>2
    <3> HIDE DEF g
    <3>2. Extends(r, p, {g}) /\ p.dropped = r.dropped
          /\ (Among(p.control, {g}) \/ Among(p.emergency, {g}))
      BY <1>2, <3>1, EventExtends
    <3> QED
      BY <3>1, <3>2 DEF g
  <2> QED
    BY <2>1, <2>2
<1>7. E \cap Cancelling = {}
  BY <1>5, Names
<1>8. e \in LinkEvidence =>
        /\ lane = "control" /\ lanes.control # <<>> /\ e = Head(lanes.control)
        /\ p.control = Append(Tail(lanes.control), f[1]) /\ p.emergency = lanes.emergency
  <2>1. ASSUME e \in LinkEvidence
        PROVE /\ lane = "control" /\ lanes.control # <<>> /\ e = Head(lanes.control)
              /\ p.control = Append(Tail(lanes.control), f[1]) /\ p.emergency = lanes.emergency
    <3>1. lane = "control"
      BY <1>4, <2>1 DEF LinkEvidence, EmergencyEvidence, BestEffort
    <3>2. f # <<>> /\ f[1] \in Items
      BY <1>5, <2>1 DEF LinkEvidence, Items
    <3>3. p = EnqueueEvent(r, f[1]) /\ Len(r.control) < ControlCapacity
      BY <1>2, <1>3, <3>1, <3>2
    <3>4. p = [r EXCEPT !.control = Append(@, f[1])]
      BY <3>3 DEF EnqueueEvent
    <3>5. p.control = Append(r.control, f[1]) /\ p.emergency = r.emergency
      <4> DEFINE g == f[1]
      <4>1. g \in Items /\ p = [r EXCEPT !.control = Append(@, g)]
        BY <3>2, <3>4
      <4> HIDE DEF g
      <4>2. p.control = Append(r.control, g) /\ p.emergency = r.emergency
        BY <1>2, <4>1 DEF ProperLanes, LaneTypes
      <4> QED
        BY <4>2 DEF g
    <3> QED
      BY <1>2, <3>1, <3>5
  <2> QED
    BY <2>1
<1>9. \A X : Among(lanes.control, X) /\ e \notin X => Among(p.control, X)
  BY <1>2, <1>6 DEF Extends
<1>10. \A X : Among(lanes.emergency, X) /\ e \notin X => Among(p.emergency, X)
  BY <1>2, <1>6 DEF Extends
<1>11. Answered(lanes.control) => Answered(p.control)
  <2>1. CASE e \in LinkEvidence
    <3>1. /\ e = "transport_connected" =>
               p.control = Append(Tail(lanes.control), "transportConnected")
          /\ e = "transport_disconnected" =>
               p.control = Append(Tail(lanes.control), "transportDisconnected")
      BY <1>5, <1>8, <2>1
    <3>2. e = Head(lanes.control) /\ lanes.control # <<>>
      BY <1>8, <2>1
    <3>3. e = "transport_connected" \/ e = "transport_disconnected"
      BY <2>1 DEF LinkEvidence
    <3> QED
      BY <1>1, <3>1, <3>2, <3>3, TailAnswered
  <2>2. CASE e \notin LinkEvidence
    <3>1. Answered(lanes.control) => Answered(r.control)
      BY <1>1, <1>2, <2>2, TailAnswered DEF LinkEvidence
    <3>2. E \cap Losses = {}
      BY <1>5, <2>2 DEF LinkEvidence
    <3> QED
      BY <1>6, <3>1, <3>2 DEF Extends
  <2> QED
    BY <2>1, <2>2
<1>12. Among(lanes.control, Returns) => Among(p.control, Returns)
  <2>1. CASE e = "transport_connected"
    <3>1. p.control = Append(Tail(lanes.control), "transportConnected") /\ lanes.control # <<>>
      BY <1>5, <1>8, <2>1 DEF LinkEvidence
    <3>2. Tail(lanes.control) \in Seq(Items)
      BY <1>1, <3>1, TailAmong
    <3>3. "transportConnected" \in Items /\ "transportConnected" \in Returns
      BY EventNames DEF Items, Returns
    <3>4. Among(Append(Tail(lanes.control), "transportConnected"), Returns)
      BY <3>2, <3>3, AppendAmong
    <3> QED
      BY <3>1, <3>4
  <2>2. CASE e # "transport_connected"
    <3>1. e \notin Returns
      BY <1>4, <2>2, EventNames DEF Returns
    <3> QED
      BY <1>9, <3>1
  <2> QED
    BY <2>1, <2>2
<1>13. ~Among(lanes.emergency, LinkEvents) => ~Among(p.emergency, LinkEvents)
  <2>1. CASE e \in LinkEvidence
    BY <1>8, <2>1
  <2>2. CASE e \notin LinkEvidence
    <3>1. E \cap LinkEvents = {}
      BY <1>5, <2>2
    <3> QED
      BY <1>2, <1>6, <3>1 DEF Extends
  <2> QED
    BY <2>1, <2>2
<1>14. ctl = "acknowledging" /\ e \in Leaving =>
         Among(p.control, Leaving) \/ Among(p.emergency, Leaving)
  BY <1>5, <1>6 DEF Among
<1>15. ~Among(lanes.control, Cancelling) => ~Among(p.control, Cancelling) /\ e \notin Cancelling
  <2>1. ~Among(lanes.control, Cancelling) => ~Among(p.control, Cancelling)
    BY <1>2, <1>6, <1>7 DEF Extends
  <2>2. CASE lane = "control"
    BY <1>1, <2>1, <2>2, TailAmong
  <2>3. CASE lane # "control"
    BY <1>4, <2>1, <2>3 DEF EmergencyEvidence, BestEffort, Cancelling
  <2> QED
    BY <2>2, <2>3
<1>16. WillTick(lanes.control) =>
         WillTick(p.control) \/ (e = Ask /\ ~Among(p.control, Cancelling))
  <2>1. WillTick(lanes.control) =>
          WillTick(r.control) \/ (e = Ask /\ ~Among(r.control, Cancelling))
    BY <1>1, <1>2, TailTicks
  <2>2. /\ WillTick(r.control) => WillTick(p.control)
        /\ ~Among(r.control, Cancelling) => ~Among(p.control, Cancelling)
    BY <1>6, <1>7 DEF Extends
  <2> QED
    BY <2>1, <2>2
<1> QED
  BY <1>2, <1>4, <1>6, <1>9, <1>10, <1>11, <1>12, <1>13, <1>14, <1>15, <1>16 DEF Extends

\* The loop takes evidence.
LEMMA EvidenceStep ==
    ASSUME IInv, NEW lane \in {"emergency", "control", "best"}, lanes[lane] # <<>>,
           LoopEvidence(lane)
    PROVE  IInv'
<1> DEFINE e == Head(lanes[lane])
           f == EventsOf(e)
           p == IF f = <<>> THEN Rest(lane) ELSE EnqueueEvent(Rest(lane), f[1])
<1>1. Typed /\ FenceInv /\ timer \in Timer /\ board \in Seq(BoardRequest)
  BY DEF IInv, Typed
<1>2. /\ e \notin Events \cup {"shake"} /\ timer' = TimerAfter(e)
      /\ ctl' = ctl /\ wake' = wake /\ gate' = gate /\ session' = session /\ server' = server
      /\ \/ QueueSystemSpeech("systemSpeech", "systemSpeechRequested", p)
         \/ lanes' = p /\ board' = board
  BY DEF LoopEvidence
<1>3. /\ e \in Evidence /\ p \in ProperLanes /\ p.dropped = lanes.dropped
      /\ \A X : Among(lanes.control, X) /\ e \notin X => Among(p.control, X)
      /\ \A X : Among(lanes.emergency, X) /\ e \notin X => Among(p.emergency, X)
      /\ Answered(lanes.control) => Answered(p.control)
      /\ Among(lanes.control, Returns) => Among(p.control, Returns)
      /\ ~Among(lanes.emergency, LinkEvents) => ~Among(p.emergency, LinkEvents)
      /\ ctl = "acknowledging" /\ e \in Leaving =>
           Among(p.control, Leaving) \/ Among(p.emergency, Leaving)
      /\ ~Among(lanes.control, Cancelling) =>
           ~Among(p.control, Cancelling) /\ e \notin Cancelling
      /\ WillTick(lanes.control) =>
           WillTick(p.control) \/ (e = Ask /\ ~Among(p.control, Cancelling))
  BY <1>1, <1>2, EvidencePosted
<1> HIDE DEF e, p
<1>4. /\ timer' \in Timer
      /\ timer'.pending = "fresh" => timer' = timer
      /\ e = Ask => timer'.armed
      /\ e \notin Cancelling \cup Leaving => timer' = timer \/ timer'.armed
  BY <1>1, <1>2, <1>3, EvidenceTimer
<1> DEFINE E == {"systemSpeechRequested", "standbyReady"}
<1>5. Extends(p, lanes', E) /\ lanes'.dropped = p.dropped /\ MoreSpeech(board, board')
  <2>1. CASE lanes' = p /\ board' = board
    BY <1>1, <1>3, <2>1, ExtendsSame DEF MoreSpeech
  <2>2. CASE QueueSystemSpeech("systemSpeech", "systemSpeechRequested", p)
    <3>1. "systemSpeech" \in Speeches /\ "systemSpeechRequested" \in Events
      BY EventNames DEF Speeches
    <3> QED
      BY <1>1, <1>3, <2>2, <3>1, SpeechQueued
  <2> QED
    BY <1>2, <2>1, <2>2
<1>6. E \cap (Losses \cup LinkEvents \cup Cancelling) = {}
  BY DEF Losses, LinkEvents, Cancelling
<1> HIDE DEF E
<1>7. Typed'
  BY <1>1, <1>2, <1>4, <1>5 DEF Typed, Extends, MoreSpeech
<1>8. FenceInv'
  BY <1>1, <1>2, <1>4 DEF FenceInv
<1>9. ASSUME NothingDropped' PROVE LinkInv' /\ DeafInv' /\ WaitInv'
  <2>1. LinkInv /\ DeafInv /\ WaitInv
    BY <1>3, <1>5, <1>9 DEF NothingDropped, IInv
  <2>2. LinkInv'
    <3>1. ~Among(lanes'.emergency, LinkEvents)
      BY <1>3, <1>5, <1>6, <2>1 DEF LinkInv, Extends
    <3>2. Answered(lanes.control) => Answered(lanes'.control)
      BY <1>3, <1>5, <1>6 DEF Extends
    <3>3. Among(lanes.control, Returns) => Among(lanes'.control, Returns)
      BY <1>3, <1>5 DEF Extends
    <3> QED
      BY <1>2, <2>1, <3>1, <3>2, <3>3 DEF LinkInv
  <2>3. DeafInv'
    <3>1. Among(lanes.control, Returns) => Among(lanes'.control, Returns)
      BY <1>3, <1>5 DEF Extends
    <3>2. e \notin {"failure"}
      BY <1>3 DEF Evidence
    <3>3. Queued({"failure"}) => Queued({"failure"})'
      BY <1>3, <1>5, <3>2 DEF Extends, Queued
    <3>4. RestoreComes => RestoreComes'
      BY <1>2, <1>5 DEF RestoreComes, MoreSpeech
    <3> QED
      BY <1>2, <2>1, <3>1, <3>3, <3>4 DEF DeafInv
  <2>4. WaitInv'
    <3>1. ctl = "acknowledging" /\ (Queued(Leaving) \/ e \in Leaving) => Queued(Leaving)'
      BY <1>3, <1>5 DEF Extends, Queued
    <3>2. Asking => Asking'
      BY <1>2, <1>5 DEF Asking, MoreSpeech
    <3>3. ASSUME Asked, e \notin Leaving PROVE Asked'
      <4>1. /\ ~Among(p.control, Cancelling) => ~Among(lanes'.control, Cancelling)
            /\ WillTick(p.control) => WillTick(lanes'.control)
        BY <1>5, <1>6 DEF Extends
      <4>2. timer'.armed => Ticking'
        BY DEF Ticking
      <4>3. ASSUME Ticking, ~Among(lanes.control, Cancelling)
            PROVE  Ticking' /\ ~Among(lanes'.control, Cancelling)
        <5>1. timer' = timer \/ timer'.armed
          BY <1>3, <1>4, <3>3, <4>3
        <5>2. Ticking'
          BY <4>2, <4>3, <5>1 DEF Ticking
        <5> QED
          BY <1>3, <4>1, <4>3, <5>2
      <4>4. ASSUME WillTick(lanes.control)
            PROVE  WillTick(lanes'.control) \/ (Ticking' /\ ~Among(lanes'.control, Cancelling))
        BY <1>3, <1>4, <4>1, <4>2, <4>4
      <4>5. \/ Ticking' /\ ~Among(lanes'.control, Cancelling)
            \/ WillTick(lanes'.control)
        BY <3>3, <4>3, <4>4 DEF Asked
      <4>6. Harmless' /\ OnlySpeech(board')
        BY <1>2, <1>5, <3>3 DEF Asked, Harmless, MoreSpeech
      <4> QED
        BY <1>2, <3>3, <4>5, <4>6 DEF Asked
    <3> QED
      BY <1>2, <2>1, <3>1, <3>2, <3>3 DEF WaitInv
  <2> QED
    BY <2>2, <2>3, <2>4
<1> QED
  BY <1>7, <1>8, <1>9 DEF IInv

\* A new turn of the session.
LEMMA NewTurnIs ==
    ASSUME session \in Session, NEW d \in {"none", "ack", "speech"}, NEW s, s = NewTurn(d)
    PROVE  /\ s \in Session /\ s.state = "ready" /\ ~s.lease /\ ~s.finalAsr
           /\ s.fence <=> session.state = "speaking"
           /\ s.deferred = d
<1> DEFINE b == session.state = "speaking"
<1>1. s = [session EXCEPT !.state = "ready", !.armed = FALSE, !.lease = FALSE,
                          !.finalAsr = FALSE, !.fence = b, !.deferred = d]
  BY DEF NewTurn
<1>2. b \in BOOLEAN
  OBVIOUS
<1> HIDE DEF b
<1>3. s \in Session /\ s.state = "ready" /\ ~s.lease /\ ~s.finalAsr /\ s.fence = b /\ s.deferred = d
  BY <1>1, <1>2 DEF Session
<1> QED
  BY <1>3 DEF b

\* An interruption of the session.
LEMMA InterruptedIs ==
    ASSUME Typed, FenceInv, NEW s, s = Interrupted
    PROVE  /\ s \in Session /\ s.state \in {"ready", "starting"}
           /\ s.fence => server.stream # "none"
           /\ s.state = "starting" => session.state = "starting" /\ s = session
           /\ session.state = "starting" /\ ~session.lease => s = session
           /\ InterruptedGate \in Gate /\ (InterruptedGate.forwarding => gate.forwarding)
<1>1. session \in Session /\ gate \in Gate
  BY DEF Typed
<1>2. s = session \/ s = NewTurn("none")
  BY DEF Interrupted
<1>3. s = session => session.state \in {"ready", "starting"}
  <2>1. CASE session.state \in {"capturing", "speaking"}
    <3>1. s = NewTurn("none")
      BY <2>1 DEF Interrupted
    <3>2. NewTurn("none").state = "ready"
      BY <1>1, NewTurnIs
    <3> QED
      BY <2>1, <3>1, <3>2
  <2>2. CASE session.state \notin {"capturing", "speaking"}
    BY <1>1, <2>2 DEF Session
  <2> QED
    BY <2>1, <2>2
<1>4. CASE s = session
  BY <1>1, <1>3, <1>4 DEF FenceInv, InterruptedGate, StopCapture, Gate
<1>5. CASE s = NewTurn("none")
  <2>1. s \in Session /\ s.state = "ready" /\ (s.fence <=> session.state = "speaking")
    BY <1>1, <1>5, NewTurnIs
  <2>2. session.state = "starting" /\ ~session.lease => s = session
    BY DEF Interrupted
  <2> QED
    BY <1>1, <2>1, <2>2 DEF FenceInv, InterruptedGate, StopCapture, Gate
<1> QED
  BY <1>2, <1>4, <1>5

\* The loop meets a timeout: in acknowledging it always ends the wait.
LEMMA TimeoutStep ==
    ASSUME IInv, LoopTimeout
    PROVE  IInv'
<1> DEFINE taken == [timer EXCEPT !.pending = "no"]
           e == TimeoutEvent
           h == Handled(e, lanes)
<1>1. Typed /\ FenceInv /\ timer \in Timer /\ lanes \in ProperLanes /\ session \in Session
      /\ gate \in Gate
  BY DEF IInv, Typed
<1>2. wake' = wake /\ server' = server
  BY DEF LoopTimeout
<1>3. taken \in Timer /\ taken.pending = "no" /\ taken.armed = timer.armed
      /\ taken.firing = timer.firing
  BY <1>1 DEF Timer
<1>4. CASE IsStale \/ e = "none"
  <2>1. /\ timer' = taken /\ ctl' = ctl /\ lanes' = lanes /\ board' = board
        /\ session' = session /\ gate' = gate
    BY <1>4 DEF LoopTimeout
  <2> HIDE DEF taken
  <2>2. Typed' /\ FenceInv'
    BY <1>1, <1>2, <1>3, <2>1 DEF Typed, FenceInv
  <2>3. NothingDropped' <=> NothingDropped
    BY <2>1 DEF NothingDropped
  <2>4. LinkInv => LinkInv'
    BY <2>1 DEF LinkInv
  <2>5. DeafInv => DeafInv'
    BY <1>2, <2>1 DEF DeafInv, RestoreComes, Queued
  <2>6. ASSUME WaitInv PROVE WaitInv'
    <3>1. ctl = "acknowledging" => timer.pending = "stale"
      BY <1>4 DEF IsStale, TimeoutEvent
    <3>2. ctl = "acknowledging" /\ Ticking => Ticking'
      BY <1>3, <2>1, <3>1 DEF Ticking
    <3>3. ctl = "acknowledging" /\ Asked => Asked'
      BY <1>2, <2>1, <3>2 DEF Asked, Harmless
    <3>4. Asking => Asking'
      BY <1>2, <2>1 DEF Asking
    <3> QED
      BY <2>1, <2>6, <3>3, <3>4 DEF WaitInv, Queued
  <2> QED
    BY <2>2, <2>3, <2>4, <2>5, <2>6 DEF IInv
<1>5. CASE ~(IsStale \/ e = "none")
  <2>1. /\ ctl' = h.ctl /\ lanes' = h.lanes /\ board' = h.board
        /\ timer' = StartListenTimer(taken) \/ timer' = taken
        /\ \/ session' = Interrupted /\ gate' = InterruptedGate
           \/ session' = session /\ gate' = gate
    BY <1>5 DEF LoopTimeout, HandleInteractionEvent, InterruptSession
  <2> HIDE DEF taken
  <2>2. e \in {"acknowledgementTimedOut", "endpointDetected", "noSpeechTimeout",
               "finalizationTimedOut", "pressDown"}
    BY <1>5 DEF TimeoutEvent
  <2>3. ctl # "reconnecting" /\ (ctl = "acknowledging" => e = "acknowledgementTimedOut")
    BY <1>5 DEF TimeoutEvent
  <2> HIDE DEF e
  <2>4. /\ h.ctl \in Phases /\ h.board \in Seq(BoardRequest)
        /\ Extends(lanes, h.lanes, {"failure"}) /\ h.lanes.dropped = lanes.dropped
        /\ \/ MovesOf(e) = {} /\ h.ctl = ctl
           \/ /\ h.ctl = "reconnecting" => e = "transportDisconnected"
              /\ h.ctl = "acknowledging" => e = "wakeDetected"
    BY <1>1, HandledStep
  <2> HIDE DEF h
  <2>5. h.ctl # "reconnecting" /\ h.ctl # "acknowledging"
    BY <2>2, <2>3, <2>4, RowsAccept
  <2>6. timer' \in Timer /\ (timer'.pending = "no")
    BY <1>3, <2>1, TimerSet
  <2>7. /\ Interrupted \in Session /\ Interrupted.state \in {"ready", "starting"}
        /\ Interrupted.fence => server.stream # "none"
        /\ Interrupted.state = "starting" => session.state = "starting" /\ Interrupted = session
        /\ session.state = "starting" /\ ~session.lease => Interrupted = session
        /\ InterruptedGate \in Gate /\ (InterruptedGate.forwarding => gate.forwarding)
    BY <1>1, InterruptedIs
  <2>8. Typed'
    BY <1>1, <1>2, <2>1, <2>4, <2>6, <2>7 DEF Typed, Extends
  <2>9. FenceInv'
    BY <1>1, <1>2, <2>1, <2>6, <2>7 DEF FenceInv
  <2>10. ASSUME NothingDropped' PROVE LinkInv' /\ DeafInv' /\ WaitInv'
    <3>1. LinkInv
      BY <2>1, <2>4, <2>10 DEF NothingDropped, IInv
    <3>2. ~Among(lanes'.emergency, LinkEvents)
      BY <2>1, <2>4, <3>1, Names DEF LinkInv, Extends
    <3>3. /\ session'.state = "starting" => ~session'.lease
          /\ session'.state # "starting" => session.state # "starting"
      BY <2>1, <2>7, <3>1 DEF LinkInv
    <3>4. session'.state # "starting" => Answered(lanes'.control)
      BY <2>1, <2>4, <3>1, <3>3, Names DEF LinkInv, Extends
    <3>5. LinkInv'
      BY <2>1, <2>5, <3>2, <3>3, <3>4 DEF LinkInv
    <3> QED
      BY <2>1, <2>5, <3>5 DEF DeafInv, WaitInv
  <2> QED
    BY <2>8, <2>9, <2>10 DEF IInv
<1> QED
  BY <1>4, <1>5

\* The callback of the timer: a deadline that counts is not lost on the way to the loop.
LEMMA CallbackStep ==
    ASSUME IInv, ListenTimeout
    PROVE  IInv'
<1>1. /\ ctl' = ctl /\ lanes' = lanes /\ board' = board /\ wake' = wake /\ gate' = gate
      /\ session' = session /\ server' = server
  BY DEF ListenTimeout
<1>2. Typed /\ FenceInv /\ timer \in Timer
  BY DEF IInv, Typed
<1>3. timer' \in Timer /\ (timer'.pending = "fresh" => timer'.firing # "stale")
      /\ (Ticking => Ticking')
  <2>1. CASE timer.armed /\ timer.firing = "no" /\ timer' = [timer EXCEPT !.armed = FALSE, !.firing = "called"]
    BY <1>2, <2>1 DEF Timer, Ticking
  <2>2. CASE timer.firing = "called" /\ timer' = [timer EXCEPT !.firing = "fresh"]
    BY <1>2, <2>2 DEF Timer, Ticking
  <2>3. CASE timer.firing \in {"fresh", "stale"}
             /\ timer' = [timer EXCEPT !.firing = "no", !.pending = timer.firing]
    BY <1>2, <2>3 DEF Timer, Ticking, FenceInv
  <2> QED
    BY <2>1, <2>2, <2>3 DEF ListenTimeout
<1>4. Typed' /\ FenceInv'
  BY <1>1, <1>2, <1>3 DEF Typed, FenceInv
<1>5. LinkInv => LinkInv'
  BY <1>1 DEF LinkInv
<1>6. DeafInv => DeafInv'
  BY <1>1 DEF DeafInv, RestoreComes, Queued
<1>7. Asked => Asked'
  BY <1>1, <1>3 DEF Asked, Harmless
<1>8. WaitInv => WaitInv'
  BY <1>1, <1>7 DEF WaitInv, Queued, Asking
<1> QED
  BY <1>1, <1>4, <1>5, <1>6, <1>8 DEF IInv, NothingDropped

-----------------------------------------------------------------------------
(* The WakeTask.                                                           *)

\* The records it leaves in its own state.
LEMMA WakeRecords ==
    ASSUME Typed
    PROVE  /\ Idle \in Waking /\ Idle.at = "idle"
           /\ Recover => wake' \in Waking /\ wake'.request \in BoardRequest /\ wake'.at = "restore"
<1>1. Idle \in Waking /\ Idle.at = "idle"
  BY DEF Idle, Waking
<1>2. ASSUME Recover
      PROVE wake' \in Waking /\ wake'.request \in BoardRequest /\ wake'.at = "restore"
  <2> DEFINE q == [kind |-> "restoreStandby", expected |-> ctl, settle |-> TRUE]
  <2>1. q \in BoardRequest
    BY DEF Typed, BoardRequest, RequestKinds
  <2>2. wake' = [at |-> "restore", request |-> q]
    BY <1>2 DEF Recover
  <2> HIDE DEF q
  <2> QED
    BY <2>1, <2>2 DEF Waking
<1> QED
  BY <1>1, <1>2

\* It takes a request.
LEMMA TakeStep ==
    ASSUME IInv, WakeTake
    PROVE  IInv'
<1> DEFINE q == Head(board)
           at == IF q.kind = "restoreStandby" THEN "restore" ELSE "run"
<1>1. /\ wake.at = "idle" /\ board # <<>> /\ board' = Tail(board)
      /\ wake' = [at |-> at, request |-> q]
      /\ ctl' = ctl /\ timer' = timer /\ lanes' = lanes /\ gate' = gate
      /\ session' = session /\ server' = server
  BY DEF WakeTake, loop
<1>2. Typed /\ FenceInv /\ board \in Seq(BoardRequest)
  BY DEF IInv, Typed
<1>3. /\ q \in BoardRequest /\ board' \in Seq(BoardRequest)
      /\ RestoreQueued(board) =>
           \/ RestoreQueued(board')
           \/ q.kind = "restoreStandby" /\ q.expected = "reconnecting"
      /\ StartQueued(board) => StartQueued(board') \/ q.kind = "startVoiceTurn"
      /\ SpeechAfterStart(board) => SpeechAfterStart(board')
      /\ OnlySpeech(board) => OnlySpeech(board') /\ q.kind \in Speeches
  BY <1>1, <1>2, BoardShrinks
<1>4. at \in {"restore", "run"} /\ (at = "restore" <=> q.kind = "restoreStandby")
  OBVIOUS
<1> HIDE DEF q, at
<1>5. wake' \in Waking /\ wake'.at = at /\ wake'.request = q
  BY <1>1, <1>3, <1>4 DEF Waking
<1>6. Typed' /\ FenceInv'
  BY <1>1, <1>2, <1>3, <1>5 DEF Typed, FenceInv
<1>7. LinkInv => LinkInv'
  BY <1>1 DEF LinkInv
<1>8. RestoreComes => RestoreComes'
  BY <1>1, <1>3, <1>4, <1>5 DEF RestoreComes
<1>9. DeafInv => DeafInv'
  BY <1>1, <1>8 DEF DeafInv, Queued
<1>10. Asking => Asking'
  BY <1>1, <1>3, <1>4, <1>5 DEF Asking
<1>11. Asked => Asked'
  <2>1. q.kind \in Speeches => at = "run"
    BY <1>4 DEF Speeches
  <2> QED
    BY <1>1, <1>3, <1>5, <2>1 DEF Asked, Harmless, Ticking
<1>12. WaitInv => WaitInv'
  BY <1>1, <1>10, <1>11 DEF WaitInv, Queued
<1> QED
  BY <1>1, <1>6, <1>7, <1>9, <1>12 DEF IInv, NothingDropped

\* It interrupts the session.
LEMMA InterruptStep ==
    ASSUME IInv, WakeInterrupt
    PROVE  IInv'
<1> DEFINE E == {"interruptCompleted"}
<1>1. /\ wake.at = "run" /\ wake.request.kind = "interruptSession"
      /\ session' = Interrupted /\ gate' = InterruptedGate
      /\ ctl' = ctl /\ timer' = timer /\ board' = board /\ server' = server
      /\ \/ lanes' = EnqueueEvent(lanes, "interruptCompleted") /\ wake' = Idle
         \/ Recover /\ lanes' = lanes
  BY DEF WakeInterrupt, InterruptSession, Runs, Request, loop
<1>2. Typed /\ FenceInv /\ lanes \in ProperLanes
  BY DEF IInv, Typed
<1>3. /\ session' \in Session /\ session'.state \in {"ready", "starting"}
      /\ session'.fence => server.stream # "none"
      /\ session'.state = "starting" => session.state = "starting" /\ session' = session
      /\ session.state = "starting" /\ ~session.lease => session' = session
      /\ gate' \in Gate /\ (gate'.forwarding => gate.forwarding)
  BY <1>1, <1>2, InterruptedIs
<1>4. Extends(lanes, lanes', E)
  <2>1. "interruptCompleted" \in Events
    BY EventNames
  <2> QED
    BY <1>1, <1>2, <2>1, EventExtends, ExtendsSame
<1>5. /\ wake' \in Waking /\ (wake'.at # "idle" => wake'.request \in BoardRequest)
  BY <1>1, <1>2, WakeRecords
<1>6. Typed' /\ FenceInv'
  BY <1>1, <1>2, <1>3, <1>4, <1>5 DEF Typed, FenceInv, Extends
<1>7. ASSUME NothingDropped' PROVE LinkInv' /\ DeafInv' /\ WaitInv'
  <2>1. LinkInv /\ DeafInv /\ WaitInv
    BY <1>4, <1>7 DEF NothingDropped, IInv, Extends
  <2>2. E \cap (Losses \cup LinkEvents) = {}
    BY DEF Losses, LinkEvents
  <2>3. LinkInv'
    <3>1. /\ session'.state = "starting" => ~session'.lease
          /\ session'.state # "starting" => session.state # "starting"
      BY <1>3, <2>1 DEF LinkInv
    <3> QED
      BY <1>1, <1>4, <2>1, <2>2, <3>1, LinkKept
  <2>4. RestoreComes => RestoreComes'
    BY <1>1 DEF RestoreComes
  <2>5. DeafInv'
    BY <1>1, <1>3, <1>4, <2>1, <2>4, DeafKept
  <2>6. wake.request.kind \notin Speeches \cup {"startVoiceTurn"}
    BY <1>1 DEF Speeches
  <2>7. WaitInv'
    BY <1>1, <1>4, <2>1, <2>6, WorkKept
  <2> QED
    BY <2>3, <2>5, <2>7
<1> QED
  BY <1>6, <1>7 DEF IInv

\* A speech is sent.
LEMMA SpeakStep ==
    ASSUME IInv, WakeSpeak
    PROVE  IInv'
<1>1. /\ wake.at = "run" /\ wake.request.kind = "systemSpeech"
      /\ ctl' = ctl /\ timer' = timer /\ board' = board /\ lanes' = lanes
  BY DEF WakeSpeak, Runs, Request, loop
<1>2. Typed /\ FenceInv /\ lanes \in ProperLanes /\ session \in Session /\ server \in Server
      /\ gate \in Gate
  BY DEF IInv, Typed
<1>3. Extends(lanes, lanes', {}) /\ MoreSpeech(board, board')
  BY <1>1, <1>2, ExtendsSame DEF MoreSpeech, Typed
<1>4. CASE session.state = "starting"
  <2>1. Recover /\ session' = session /\ gate' = gate /\ server' = server
    BY <1>4 DEF WakeSpeak
  <2>2. /\ wake' \in Waking /\ wake'.request \in BoardRequest
    BY <1>2, <2>1, WakeRecords
  <2>3. Typed' /\ FenceInv'
    BY <1>1, <1>2, <2>1, <2>2 DEF Typed, FenceInv
  <2>4. LinkInv => LinkInv'
    BY <1>1, <2>1 DEF LinkInv
  <2>5. DeafInv => DeafInv'
    BY <1>1, <2>1 DEF DeafInv, RestoreComes, Queued
  <2>6. ~Asked
    BY <1>4 DEF Asked, Harmless
  <2>7. Asking => Asking'
    BY <1>1 DEF Asking
  <2>8. WaitInv => WaitInv'
    BY <1>3, <1>1, <2>6, <2>7, WaitKept
  <2> QED
    BY <1>1, <2>3, <2>4, <2>5, <2>8 DEF IInv, NothingDropped
<1>5. CASE session.state # "starting"
  <2> DEFINE i == Interrupted
  <2>1. /\ session' = [i EXCEPT !.armed = TRUE] /\ gate' = InterruptedGate
        /\ server' = [server EXCEPT !.owed = Append(@, "speech")] /\ wake' = Idle
    BY <1>5 DEF WakeSpeak, Owe
  <2>2. /\ i \in Session /\ i.state \in {"ready", "starting"}
        /\ i.fence => server.stream # "none"
        /\ i.state = "starting" => session.state = "starting" /\ i = session
        /\ gate' \in Gate /\ (gate'.forwarding => gate.forwarding)
    BY <1>2, <2>1, InterruptedIs
  <2> HIDE DEF i
  <2>3. /\ session' \in Session /\ session'.state = "ready" /\ session'.armed
        /\ session'.fence = i.fence
    BY <1>5, <2>1, <2>2 DEF Session
  <2>4. server' \in Server /\ server'.owed # <<>> /\ server'.stream = server.stream
    <3> DEFINE o == Append(server.owed, "speech")
    <3>1. server.owed \in Seq(Streams) /\ "speech" \in Streams
      BY <1>2 DEF Server, Streams
    <3>2. o \in Seq(Streams) /\ o # <<>>
      BY <3>1
    <3>3. server' = [server EXCEPT !.owed = o]
      BY <2>1
    <3> HIDE DEF o
    <3> QED
      BY <1>2, <3>2, <3>3 DEF Server
  <2>5. Idle \in Waking /\ Idle.at = "idle"
    BY <1>2, WakeRecords
  <2>6. Typed' /\ FenceInv'
    BY <1>1, <1>2, <2>1, <2>2, <2>3, <2>4, <2>5 DEF Typed, FenceInv
  <2>7. LinkInv => LinkInv'
    BY <1>1, <1>5, <2>3 DEF LinkInv
  <2>8. DeafInv => DeafInv'
    BY <1>1, <2>2 DEF DeafInv, RestoreComes, Queued
  <2>9. Asked => Asked'
    BY <1>1, <2>1, <2>3, <2>4, <2>5 DEF Asked, Harmless, Ticking
  <2>10. Asking => Asking'
    BY <1>1 DEF Asking
  <2>11. WaitInv => WaitInv'
    BY <1>1, <1>3, <2>9, <2>10, WaitKept
  <2> QED
    BY <1>1, <2>6, <2>7, <2>8, <2>11 DEF IInv, NothingDropped
<1> QED
  BY <1>4, <1>5

\* The server owes one more stream.
LEMMA OweIs ==
    ASSUME server \in Server, NEW k \in Streams, NEW s, s = Owe(k)
    PROVE  s \in Server /\ s.owed # <<>> /\ s.stream = server.stream
<1> DEFINE o == Append(server.owed, k)
<1>1. server.owed \in Seq(Streams)
  BY DEF Server
<1>2. o \in Seq(Streams) /\ o # <<>>
  BY <1>1
<1>3. s = [server EXCEPT !.owed = o]
  BY DEF Owe
<1> HIDE DEF o
<1> QED
  BY <1>2, <1>3 DEF Server

\* A stream is cut for the greeting or for a speech.
LEMMA CutStep ==
    ASSUME IInv, NEW kind \in {"interruptAndStartVoiceTurn", "shakeSpeech"},
           WakeInterruptAnd(kind)
    PROVE  IInv'
<1> DEFINE once == session.state # "speaking"
           dk == Deferrable(kind)
           E == {"interrupt_ack_requested"}
<1>1. /\ wake.at = "run" /\ wake.request.kind = kind
      /\ ctl' = ctl /\ timer' = timer /\ board' = board
  BY DEF WakeInterruptAnd, Runs, Request, loop
<1>2. Typed /\ FenceInv /\ lanes \in ProperLanes /\ session \in Session /\ server \in Server
      /\ gate \in Gate
  BY DEF IInv, Typed
<1>3. dk \in {"ack", "speech"} /\ (kind = "shakeSpeech" => dk = "speech")
  BY DEF Deferrable
<1>4. \/ /\ session.state \in {"capturing", "speaking"} \/ (kind = "shakeSpeech" /\ session.state = "ready")
         /\ session' = IF once THEN [NewTurn("none") EXCEPT !.armed = TRUE] ELSE NewTurn(dk)
         /\ gate' = InterruptedGate
         /\ server' = IF once THEN Owe(dk) ELSE server
         /\ lanes' = IF once /\ dk = "ack"
                     THEN EnqueueVoiceEvidence(lanes, "interrupt_ack_requested") ELSE lanes
         /\ wake' = Idle
      \/ /\ ~(session.state \in {"capturing", "speaking"} \/ (kind = "shakeSpeech" /\ session.state = "ready"))
         /\ Recover /\ session' = session /\ gate' = gate /\ server' = server /\ lanes' = lanes
  BY DEF WakeInterruptAnd
<1> HIDE DEF dk
<1>5. Extends(lanes, lanes', E)
  <2>1. "interrupt_ack_requested" \in Evidence
    BY DEF Evidence
  <2> QED
    BY <1>2, <1>4, <2>1, EvidenceExtends, ExtendsSame
<1>6. Idle \in Waking /\ Idle.at = "idle" /\
      (Recover => wake' \in Waking /\ wake'.request \in BoardRequest /\ wake'.at = "restore")
  BY <1>2, WakeRecords
<1>7. wake' \in Waking /\ (wake'.at # "idle" => wake'.request \in BoardRequest)
  BY <1>4, <1>6
<1>8. CASE session.state \in {"capturing", "speaking"} \/ (kind = "shakeSpeech" /\ session.state = "ready")
  <2> DEFINE n == NewTurn("none")
             m == NewTurn(dk)
  <2>1. /\ n \in Session /\ n.state = "ready" /\ ~n.finalAsr /\ (n.fence <=> session.state = "speaking")
        /\ m \in Session /\ m.state = "ready" /\ ~m.finalAsr /\ (m.fence <=> session.state = "speaking")
    BY <1>2, <1>3, NewTurnIs
  <2>2. session' = IF once THEN [n EXCEPT !.armed = TRUE] ELSE m
    BY <1>4, <1>8
  <2> HIDE DEF n, m
  <2>3. /\ session' \in Session /\ session'.state = "ready" /\ ~session'.finalAsr
        /\ session'.fence => session.state = "speaking"
    BY <2>1, <2>2 DEF Session
  <2>4. server' \in Server /\ server'.stream = server.stream
    BY <1>2, <1>3, <1>4, <1>8, OweIs DEF Streams
  <2>5. gate' \in Gate /\ (gate'.forwarding => gate.forwarding)
    BY <1>2, <1>4, <1>8, InterruptedIs
  <2>6. Typed' /\ FenceInv'
    BY <1>1, <1>2, <1>5, <1>7, <2>3, <2>4, <2>5 DEF Typed, FenceInv, Extends
  <2>7. ASSUME NothingDropped' PROVE LinkInv' /\ DeafInv' /\ WaitInv'
    <3>1. LinkInv /\ DeafInv /\ WaitInv
      BY <1>5, <2>7 DEF NothingDropped, IInv, Extends
    <3>2. E \cap (Losses \cup LinkEvents) = {}
      BY DEF Losses, LinkEvents
    <3>3. LinkInv'
      BY <1>1, <1>5, <1>8, <2>3, <3>1, <3>2, LinkKept
    <3>4. RestoreComes => RestoreComes'
      BY <1>1 DEF RestoreComes
    <3>5. DeafInv'
      BY <1>1, <1>5, <2>5, <3>1, <3>4, DeafKept
    <3>6. Asking => Asking'
      BY <1>1 DEF Asking
    <3>7. ASSUME Asked PROVE Asked'
      <4>1. kind = "shakeSpeech"
        BY <1>1, <3>7 DEF Asked, Speeches
      <4>2. lanes' = lanes /\ wake' = Idle
        BY <1>3, <1>4, <1>8, <4>1
      <4>3. Harmless'
        BY <2>3 DEF Harmless
      <4> QED
        BY <1>1, <1>6, <3>7, <4>2, <4>3 DEF Asked, Ticking
    <3>8. WaitInv'
      BY <1>1, <1>5, <3>1, <3>6, <3>7, WaitKept
    <3> QED
      BY <3>3, <3>5, <3>8
  <2> QED
    BY <2>6, <2>7 DEF IInv
<1>9. CASE ~(session.state \in {"capturing", "speaking"} \/ (kind = "shakeSpeech" /\ session.state = "ready"))
  <2>1. Recover /\ session' = session /\ gate' = gate /\ server' = server /\ lanes' = lanes
    BY <1>4, <1>9
  <2>2. Typed' /\ FenceInv'
    BY <1>1, <1>2, <1>7, <2>1 DEF Typed, FenceInv
  <2>3. LinkInv => LinkInv'
    BY <1>1, <2>1 DEF LinkInv
  <2>4. DeafInv => DeafInv'
    BY <1>1, <2>1 DEF DeafInv, RestoreComes, Queued
  <2>5. ~Asked
    BY <1>1, <1>9 DEF Asked, Harmless, Speeches
  <2>6. Asking => Asking'
    BY <1>1 DEF Asking
  <2>7. WaitInv => WaitInv'
    BY <1>1, <1>5, <2>5, <2>6, WaitKept
  <2> QED
    BY <2>1, <2>2, <2>3, <2>4, <2>7 DEF IInv, NothingDropped
<1> QED
  BY <1>8, <1>9

\* The greeting is asked for: the deadline is posted with it, or standby.
LEMMA VoiceTurnStep ==
    ASSUME IInv, WakeVoiceTurn
    PROVE  IInv'
<1>1. /\ wake.at = "run" /\ wake.request.kind = "startVoiceTurn" /\ wake' = Idle
      /\ ctl' = ctl /\ timer' = timer /\ board' = board /\ gate' = gate
  BY DEF WakeVoiceTurn, Runs, Request, loop
<1>2. Typed /\ FenceInv /\ lanes \in ProperLanes /\ session \in Session /\ server \in Server
  BY DEF IInv, Typed
<1>3. Idle \in Waking /\ Idle.at = "idle"
  BY <1>2, WakeRecords
<1>4. ~Asked /\ (RestoreComes => RestoreComes')
  BY <1>1 DEF Asked, Speeches, RestoreComes
<1>5. CASE session.state = "ready"
  <2> DEFINE E == {Ask}
  <2>1. /\ session' = [session EXCEPT !.armed = TRUE, !.lease = TRUE]
        /\ server' = Owe("ack")
        /\ lanes' = EnqueueVoiceEvidence(lanes, Ask)
    BY <1>5 DEF WakeVoiceTurn, Ask
  <2>2. session' \in Session /\ session'.state = "ready" /\ session'.armed
        /\ session'.fence = session.fence
    BY <1>2, <1>5, <2>1 DEF Session
  <2>3. server' \in Server /\ server'.owed # <<>> /\ server'.stream = server.stream
    BY <1>2, <2>1, OweIs DEF Streams
  <2>4. /\ Extends(lanes, lanes', E)
        /\ lanes'.dropped \/ WillTick(lanes'.control)
    <3>1. Ask \in Evidence /\ Ask \notin BestEffort \cup EmergencyEvidence
      BY DEF Ask, Evidence, BestEffort, EmergencyEvidence
    <3> QED
      BY <1>2, <2>1, <3>1, EvidenceExtends
  <2>5. Typed' /\ FenceInv'
    BY <1>1, <1>2, <1>3, <1>5, <2>2, <2>3, <2>4 DEF Typed, FenceInv, Extends
  <2>6. ASSUME NothingDropped' PROVE LinkInv' /\ DeafInv' /\ WaitInv'
    <3>1. LinkInv /\ DeafInv /\ WaitInv
      BY <2>4, <2>6 DEF NothingDropped, IInv, Extends
    <3>2. E \cap (Losses \cup LinkEvents) = {}
      BY DEF Losses, LinkEvents, Ask
    <3>3. LinkInv'
      BY <1>1, <1>5, <2>2, <2>4, <3>1, <3>2, LinkKept
    <3>4. DeafInv'
      BY <1>1, <1>4, <2>4, <3>1, DeafKept
    <3>5. Queued(Leaving) => Queued(Leaving)'
      BY <2>4 DEF Queued, Extends
    <3>6. ASSUME Asking PROVE Asking' \/ Asked'
      <4>1. SpeechAfterStart(board)
        BY <3>6 DEF Asking
      <4>2. StartQueued(board) \/ OnlySpeech(board)
        BY <4>1, SpeechOrStart
      <4>3. Harmless'
        BY <2>2, <2>3 DEF Harmless
      <4>4. WillTick(lanes'.control)
        BY <2>4, <2>6 DEF NothingDropped
      <4> QED
        BY <1>1, <1>3, <4>1, <4>2, <4>3, <4>4 DEF Asking, Asked
    <3>7. WaitInv'
      BY <1>1, <1>4, <3>1, <3>5, <3>6 DEF WaitInv
    <3> QED
      BY <3>3, <3>4, <3>7
  <2> QED
    BY <2>5, <2>6 DEF IInv
<1>6. CASE session.state # "ready"
  <2> DEFINE E == {"standbyReady"}
  <2>1. session' = session /\ server' = server /\ lanes' = EnqueueEvent(lanes, "standbyReady")
    BY <1>6 DEF WakeVoiceTurn
  <2>2. /\ Extends(lanes, lanes', E)
        /\ Among(lanes'.control, E) \/ Among(lanes'.emergency, E)
    BY <1>2, <2>1, EventExtends, EventNames
  <2>3. Typed' /\ FenceInv'
    BY <1>1, <1>2, <1>3, <2>1, <2>2 DEF Typed, FenceInv, Extends
  <2>4. ASSUME NothingDropped' PROVE LinkInv' /\ DeafInv' /\ WaitInv'
    <3>1. LinkInv /\ DeafInv /\ WaitInv
      BY <2>2, <2>4 DEF NothingDropped, IInv, Extends
    <3>2. E \cap (Losses \cup LinkEvents) = {}
      BY DEF Losses, LinkEvents
    <3>3. LinkInv'
      <4>1. session'.state = "starting" => ~session'.lease
        BY <2>1, <3>1 DEF LinkInv
      <4> QED
        BY <1>1, <2>1, <2>2, <3>1, <3>2, <4>1, LinkKept
    <3>4. DeafInv'
      BY <1>1, <1>4, <2>2, <3>1, DeafKept
    <3>5. Queued(Leaving)'
      BY <2>2, Names DEF Queued, Among
    <3> QED
      BY <3>3, <3>4, <3>5 DEF WaitInv
  <2> QED
    BY <2>3, <2>4 DEF IInv
<1> QED
  BY <1>5, <1>6

\* The microphone is opened: only while the session is connected, so that a board that still
\* waits for its connection has the report of it queued.
LEMMA CaptureStep ==
    ASSUME IInv, WakeCapture
    PROVE  IInv'
<1> DEFINE interrupts == wake.request.kind = "interruptAndStartCapture"
           s == IF interrupts THEN Interrupted ELSE session
           ready == \/ session.state = "ready"
                    \/ interrupts /\ session.state \in {"capturing", "speaking"}
<1>1. /\ wake.at = "run" /\ wake.request.kind \in {"startCapture", "interruptAndStartCapture"}
      /\ wake' = Idle
      /\ ctl' = ctl /\ timer' = timer /\ board' = board /\ server' = server
  BY DEF WakeCapture, Runs, Request, loop
<1>2. \/ /\ ready
         /\ session' = [s EXCEPT !.state = "capturing", !.lease = TRUE,
                               !.armed = FALSE, !.finalAsr = FALSE, !.vad = "silent"]
         /\ gate' = [forwarding |-> TRUE, detector |-> FALSE]
         /\ lanes' = EnqueueVoiceEvidence(lanes, "capture_started")
      \/ /\ session' = IF ready THEN [s EXCEPT !.lease = FALSE, !.armed = FALSE] ELSE session
         /\ gate' = IF ready THEN [forwarding |-> FALSE, detector |-> TRUE] ELSE gate
         /\ lanes' = EnqueueEvent(lanes, "standbyReady")
  BY DEF WakeCapture, Request
<1>3. Typed /\ FenceInv /\ lanes \in ProperLanes /\ session \in Session /\ gate \in Gate
  BY DEF IInv, Typed
<1>4. ready => /\ s \in Session /\ s.state = "ready" /\ session.state # "starting"
               /\ s.fence => server.stream # "none"
  <2>1. /\ Interrupted \in Session /\ Interrupted.state \in {"ready", "starting"}
        /\ Interrupted.fence => server.stream # "none"
        /\ Interrupted.state = "starting" => session.state = "starting"
    BY <1>3, InterruptedIs
  <2>2. ready => session.state # "starting"
    OBVIOUS
  <2>3. CASE interrupts
    BY <2>1, <2>2, <2>3
  <2>4. CASE ~interrupts
    BY <1>3, <2>2, <2>4 DEF FenceInv
  <2> QED
    BY <2>3, <2>4
<1> DEFINE E == {"capture_started", "standbyReady"}
<1>5. Extends(lanes, lanes', E)
  <2>1. "capture_started" \in Evidence /\ "standbyReady" \in Events
    BY EventNames DEF Evidence
  <2>2. Extends(lanes, lanes', {"capture_started"}) \/ Extends(lanes, lanes', {"standbyReady"})
    BY <1>2, <1>3, <2>1, EvidenceExtends, EventExtends
  <2>3. lanes' \in ProperLanes
    BY <2>2 DEF Extends
  <2>4. /\ {"capture_started"} \cup {"standbyReady"} = E
        /\ {"standbyReady"} \cup {"capture_started"} = E
    OBVIOUS
  <2>5. /\ Extends(lanes', lanes', {"capture_started"})
        /\ Extends(lanes', lanes', {"standbyReady"})
    BY <2>3, ExtendsSame
  <2>6. CASE Extends(lanes, lanes', {"capture_started"})
    <3>1. Extends(lanes, lanes', {"capture_started"} \cup {"standbyReady"})
      BY <2>5, <2>6, ExtendsTwice
    <3> QED
      BY <2>4, <3>1
  <2>7. CASE Extends(lanes, lanes', {"standbyReady"})
    <3>1. Extends(lanes, lanes', {"standbyReady"} \cup {"capture_started"})
      BY <2>5, <2>7, ExtendsTwice
    <3> QED
      BY <2>4, <3>1
  <2> QED
    BY <2>2, <2>6, <2>7
<1> HIDE DEF s, ready
<1>6. /\ session' \in Session
      /\ ready => session'.state # "starting" /\ session'.state # "speaking"
                  /\ session'.fence = s.fence
      /\ ~ready => session' = session
  BY <1>2, <1>3, <1>4 DEF Session
<1>7. gate' \in Gate /\ (gate'.forwarding => gate.forwarding \/ ready)
  <2>1. \/ gate' = [forwarding |-> TRUE, detector |-> FALSE] /\ ready
        \/ gate' = [forwarding |-> FALSE, detector |-> TRUE]
        \/ gate' = gate
    BY <1>2
  <2>2. [forwarding |-> TRUE, detector |-> FALSE] \in Gate
        /\ [forwarding |-> FALSE, detector |-> TRUE] \in Gate
    BY DEF Gate
  <2>3. gate' \in Gate
    BY <1>3, <2>1, <2>2
  <2>4. ~ready => gate' = gate \/ gate' = [forwarding |-> FALSE, detector |-> TRUE]
    BY <2>1
  <2>5. ~ready /\ gate'.forwarding => gate.forwarding
    BY <2>4
  <2> QED
    BY <2>3, <2>5
<1>8. Idle \in Waking /\ Idle.at = "idle"
  BY <1>3, WakeRecords
<1>9. Typed' /\ FenceInv'
  <2>1. Typed'
    BY <1>1, <1>3, <1>5, <1>6, <1>7, <1>8 DEF Typed, Extends
  <2>2. FenceInv'
    BY <1>1, <1>3, <1>4, <1>6 DEF FenceInv
  <2> QED
    BY <2>1, <2>2
<1>10. ASSUME NothingDropped' PROVE LinkInv' /\ DeafInv' /\ WaitInv'
  <2>1. LinkInv /\ DeafInv /\ WaitInv
    BY <1>5, <1>10 DEF NothingDropped, IInv, Extends
  <2>2. E \cap (Losses \cup LinkEvents) = {}
    BY DEF Losses, LinkEvents
  <2>3. LinkInv'
    <3>1. /\ session'.state = "starting" => ~session'.lease
          /\ session'.state # "starting" => session.state # "starting"
      BY <1>4, <1>6, <2>1 DEF LinkInv
    <3> QED
      BY <1>1, <1>5, <2>1, <2>2, <3>1, LinkKept
  <2>4. DeafInv'
    <3>1. CASE ready
      <4>1. ctl = "reconnecting" => Among(lanes.control, Returns)
        BY <1>4, <2>1, <3>1 DEF LinkInv
      <4> QED
        BY <1>1, <1>5, <4>1 DEF DeafInv, Extends
    <3>2. CASE ~ready
      <4>1. RestoreComes => RestoreComes'
        BY <1>1 DEF RestoreComes
      <4> QED
        BY <1>1, <1>5, <1>7, <2>1, <3>2, <4>1, DeafKept
    <3> QED
      BY <3>1, <3>2
  <2>5. wake.request.kind \notin Speeches \cup {"startVoiceTurn"}
    BY <1>1 DEF Speeches
  <2>6. WaitInv'
    BY <1>1, <1>5, <2>1, <2>5, WorkKept
  <2> QED
    BY <2>3, <2>4, <2>6
<1> QED
  BY <1>9, <1>10 DEF IInv

\* The gate is stopped or put on standby.
LEMMA GateSet ==
    ASSUME NEW g \in Gate
    PROVE  /\ StopCapture(g) \in Gate /\ ~StopCapture(g).forwarding
           /\ StartStandby(g) \in Gate /\ StartStandby(g).forwarding = g.forwarding
           /\ [g EXCEPT !.forwarding = FALSE] \in Gate
           /\ ~[g EXCEPT !.forwarding = FALSE].forwarding
<1>1. StopCapture(g) \in Gate /\ ~StopCapture(g).forwarding
  BY DEF StopCapture, Gate
<1>2. StartStandby(g) \in Gate /\ StartStandby(g).forwarding = g.forwarding
  BY DEF StartStandby, Gate
<1>3. [g EXCEPT !.forwarding = FALSE] \in Gate /\ ~[g EXCEPT !.forwarding = FALSE].forwarding
  BY DEF Gate
<1> QED
  BY <1>1, <1>2, <1>3

\* The capture ends.
LEMMA StopStep ==
    ASSUME IInv, WakeStop
    PROVE  IInv'
<1>1. /\ wake.at = "run" /\ wake.request.kind = "stopVoiceTurn"
      /\ ctl' = ctl /\ timer' = timer /\ board' = board
  BY DEF WakeStop, Runs, Request, loop
<1>2. Typed /\ FenceInv /\ lanes \in ProperLanes /\ session \in Session /\ gate \in Gate
      /\ server \in Server /\ wake \in Waking /\ wake.request \in BoardRequest
  BY <1>1 DEF IInv, Typed
<1> DEFINE E == {"failure", "capture_stopped"}
<1>3. \/ session' = session /\ gate' = gate /\ server' = server
         /\ (lanes' = lanes \/ lanes' = EnqueueEvent(lanes, "failure"))
      \/ /\ session.state = "capturing"
         /\ session' = [session EXCEPT !.state = "ready", !.lease = FALSE, !.finalAsr = TRUE]
         /\ gate' = StopCapture(gate)
         /\ server' = [server EXCEPT !.hears = TRUE]
         /\ lanes' = EnqueueVoiceEvidence(lanes, "capture_stopped")
  BY DEF WakeStop
<1>4. wake' = Idle \/ wake' = [wake EXCEPT !.at = "restore"]
  BY DEF WakeStop
<1>5. Extends(lanes, lanes', E)
  <2>1. "capture_stopped" \in Evidence /\ "failure" \in Events
    BY EventNames DEF Evidence
  <2>2. Extends(lanes, lanes', {"capture_stopped"}) \/ Extends(lanes, lanes', {"failure"})
    BY <1>2, <1>3, <2>1, EvidenceExtends, EventExtends, ExtendsSame
  <2>3. lanes' \in ProperLanes
    BY <2>2 DEF Extends
  <2>4. /\ {"capture_stopped"} \cup {"failure"} = E
        /\ {"failure"} \cup {"capture_stopped"} = E
    OBVIOUS
  <2>5. /\ Extends(lanes', lanes', {"capture_stopped"})
        /\ Extends(lanes', lanes', {"failure"})
    BY <2>3, ExtendsSame
  <2>6. CASE Extends(lanes, lanes', {"capture_stopped"})
    <3>1. Extends(lanes, lanes', {"capture_stopped"} \cup {"failure"})
      BY <2>5, <2>6, ExtendsTwice
    <3> QED
      BY <2>4, <3>1
  <2>7. CASE Extends(lanes, lanes', {"failure"})
    <3>1. Extends(lanes, lanes', {"failure"} \cup {"capture_stopped"})
      BY <2>5, <2>7, ExtendsTwice
    <3> QED
      BY <2>4, <3>1
  <2> QED
    BY <2>2, <2>6, <2>7
<1>6. /\ session' \in Session /\ session'.fence = session.fence
      /\ session' = session \/ (session.state = "capturing" /\ session'.state = "ready")
  BY <1>2, <1>3 DEF Session
<1>7. server' \in Server /\ server'.stream = server.stream
  BY <1>2, <1>3 DEF Server
<1>8. gate' \in Gate /\ (gate'.forwarding => gate.forwarding)
  <2>1. gate' = gate \/ gate' = StopCapture(gate)
    BY <1>3
  <2> QED
    BY <1>2, <2>1, GateSet
<1>9. wake' \in Waking /\ (wake'.at # "idle" => wake'.request \in BoardRequest)
  <2>1. Idle \in Waking /\ Idle.at = "idle"
    BY <1>2, WakeRecords
  <2> QED
    BY <1>2, <1>4, <2>1 DEF Waking
<1>10. Typed' /\ FenceInv'
  BY <1>1, <1>2, <1>5, <1>6, <1>7, <1>8, <1>9 DEF Typed, FenceInv, Extends
<1>11. ASSUME NothingDropped' PROVE LinkInv' /\ DeafInv' /\ WaitInv'
  <2>1. LinkInv /\ DeafInv /\ WaitInv
    BY <1>5, <1>11 DEF NothingDropped, IInv, Extends
  <2>2. E \cap (Losses \cup LinkEvents) = {}
    BY DEF Losses, LinkEvents
  <2>3. LinkInv'
    <3>1. /\ session'.state = "starting" => ~session'.lease
          /\ session'.state # "starting" => session.state # "starting"
      BY <1>6, <2>1 DEF LinkInv
    <3> QED
      BY <1>1, <1>5, <2>1, <2>2, <3>1, LinkKept
  <2>4. RestoreComes => RestoreComes'
    BY <1>1 DEF RestoreComes
  <2>5. DeafInv'
    BY <1>1, <1>5, <1>8, <2>1, <2>4, DeafKept
  <2>6. wake.request.kind \notin Speeches \cup {"startVoiceTurn"}
    BY <1>1 DEF Speeches
  <2>7. WaitInv'
    BY <1>1, <1>5, <2>1, <2>6, WorkKept
  <2> QED
    BY <2>3, <2>5, <2>7
<1> QED
  BY <1>10, <1>11 DEF IInv

\* A recovery: it stops the gate, unless the phase it was meant for is over; then it starts the
\* detector and settles the controller.
LEMMA RestoreStep ==
    ASSUME IInv, RestoreStop \/ RestoreStart
    PROVE  IInv'
<1>1. /\ wake.at \in {"restore", "rearm"}
      /\ ctl' = ctl /\ timer' = timer /\ board' = board /\ session' = session /\ server' = server
  BY DEF RestoreStop, RestoreStart, loop
<1>2. Typed /\ FenceInv /\ lanes \in ProperLanes /\ gate \in Gate
      /\ wake \in Waking /\ wake.request \in BoardRequest
  BY <1>1 DEF IInv, Typed
<1> DEFINE E == {"failure", "standbyReady"}
<1>3. lanes' = lanes \/ \E x \in E : lanes' = EnqueueEvent(lanes, x)
  BY DEF RestoreStop, RestoreStart
<1>4. Extends(lanes, lanes', E)
  <2>1. E \subseteq Events
    BY EventNames
  <2>2. CASE lanes' = lanes
    BY <1>2, <2>2, ExtendsSame
  <2>3. ASSUME NEW x \in E, lanes' = EnqueueEvent(lanes, x) PROVE Extends(lanes, lanes', E)
    <3>1. Extends(lanes, lanes', {x})
      BY <1>2, <2>1, <2>3, EventExtends
    <3>2. Extends(lanes', lanes', E)
      BY <3>1, ExtendsSame DEF Extends
    <3>3. Extends(lanes, lanes', {x} \cup E)
      BY <3>1, <3>2, ExtendsTwice
    <3>4. {x} \cup E = E
      OBVIOUS
    <3> QED
      BY <3>3, <3>4
  <2> QED
    BY <1>3, <2>2, <2>3
<1>5. gate' \in Gate /\ (gate'.forwarding => gate.forwarding)
  <2>1. gate' \in {gate, [gate EXCEPT !.forwarding = FALSE], StopCapture(gate), StartStandby(gate)}
    BY DEF RestoreStop, RestoreStart
  <2> QED
    BY <1>2, <2>1, GateSet
<1>6. wake' \in Waking /\ (wake'.at # "idle" => wake'.request \in BoardRequest)
  <2>1. wake' = Idle \/ wake' = [wake EXCEPT !.at = "rearm"]
    BY DEF RestoreStop, RestoreStart
  <2>2. Idle \in Waking /\ Idle.at = "idle"
    BY <1>2, WakeRecords
  <2> QED
    BY <1>2, <2>1, <2>2 DEF Waking
<1>7. Typed' /\ FenceInv'
  BY <1>1, <1>2, <1>4, <1>5, <1>6 DEF Typed, FenceInv, Extends
<1>8. ASSUME NothingDropped' PROVE LinkInv' /\ DeafInv' /\ WaitInv'
  <2>1. LinkInv /\ DeafInv /\ WaitInv
    BY <1>4, <1>8 DEF NothingDropped, IInv, Extends
  <2>2. E \cap (Losses \cup LinkEvents) = {}
    BY DEF Losses, LinkEvents
  <2>3. LinkInv'
    <3>1. session'.state = "starting" => ~session'.lease
      BY <1>1, <2>1 DEF LinkInv
    <3> QED
      BY <1>1, <1>4, <2>1, <2>2, <3>1, LinkKept
  <2>4. ASSUME ctl = "reconnecting", gate'.forwarding, RestoreComes PROVE RestoreComes'
    <3>1. CASE wake.at = "restore"
      <4>1. RestoreStop
        BY <3>1 DEF RestoreStart
      <4>2. ctl # wake.request.expected
        <5>1. ~IsOverdue => ~gate'.forwarding
          BY <1>2, <4>1 DEF RestoreStop, StopCapture, Gate
        <5> QED
          BY <2>4, <5>1 DEF IsOverdue, Request
      <4> QED
        BY <1>1, <2>4, <4>2 DEF RestoreComes
    <3>2. CASE wake.at # "restore"
      BY <1>1, <2>4, <3>2 DEF RestoreComes
    <3> QED
      BY <3>1, <3>2
  <2>5. DeafInv'
    BY <1>1, <1>4, <1>5, <2>1, <2>4, DeafKept
  <2>6. WaitInv'
    BY <1>1, <1>4, <2>1, WorkKept
  <2> QED
    BY <2>3, <2>5, <2>6
<1> QED
  BY <1>7, <1>8 DEF IInv

-----------------------------------------------------------------------------
(* The environment.                                                        *)

\* The user, the reminders and the tools only post.
LEMMA InputStep ==
    ASSUME IInv,
           \/ \E event \in LocalCommands : WakeWord(event)
           \/ \E input \in Inputs : BoardInput(input)
           \/ Announce \/ RequestInterrupt
    PROVE  IInv'
<1> DEFINE E == LocalCommands \cup {"toggleChat", "pressDown", "pressUp", "shake",
                "interruptRequested", "systemSpeechRequested", "standbyReady"}
<1>1. /\ ctl' = ctl /\ timer' = timer /\ wake' = wake /\ session' = session /\ server' = server
      /\ gate' = gate \/ gate' = [gate EXCEPT !.detector = FALSE]
  BY DEF WakeWord, BoardInput, Announce, RequestInterrupt, loop
<1>2. Typed /\ FenceInv /\ lanes \in ProperLanes /\ gate \in Gate /\ board \in Seq(BoardRequest)
  BY DEF IInv, Typed
<1>3. E \cap (Losses \cup LinkEvents \cup Cancelling) = {}
  BY DEF Losses, LinkEvents, Cancelling, LocalCommands
<1>4. Extends(lanes, lanes', E) /\ MoreSpeech(board, board')
  <2>1. MoreSpeech(board, board)
    BY <1>2 DEF MoreSpeech
  <2>2. ASSUME NEW F, F \subseteq E, Extends(lanes, lanes', F) PROVE Extends(lanes, lanes', E)
    <3>1. Extends(lanes', lanes', E)
      BY <2>2, ExtendsSame DEF Extends
    <3>2. Extends(lanes, lanes', F \cup E)
      BY <2>2, <3>1, ExtendsTwice
    <3>3. F \cup E = E
      BY <2>2
    <3> QED
      BY <3>2, <3>3
  <2>3. CASE \E event \in LocalCommands : WakeWord(event)
    <3>1. PICK event \in LocalCommands : lanes' = EnqueueEvent(lanes, event) /\ board' = board
      BY <2>3 DEF WakeWord
    <3>2. event \in Events
      BY EventNames DEF LocalCommands
    <3>3. Extends(lanes, lanes', {event})
      BY <1>2, <3>1, <3>2, EventExtends
    <3> QED
      BY <2>1, <2>2, <3>1, <3>3
  <2>4. CASE \E input \in Inputs : BoardInput(input)
    <3>1. PICK x \in {"toggleChat", "pressDown", "pressUp", "shake"} :
             /\ board' = board
             /\ lanes' = IF Len(lanes.control) < ControlCapacity
                         THEN [lanes EXCEPT !.control = Append(@, x)] ELSE lanes
      BY <2>4 DEF BoardInput
    <3>2. x \in Items
      BY EventNames DEF Items
    <3>3. Extends(lanes, lanes', {x})
      <4>1. CASE Len(lanes.control) < ControlCapacity
        BY <1>2, <3>1, <3>2, <4>1, ControlExtends
      <4>2. CASE ~(Len(lanes.control) < ControlCapacity)
        BY <1>2, <3>1, <4>2, ExtendsSame
      <4> QED
        BY <4>1, <4>2
    <3> QED
      BY <2>1, <2>2, <3>1, <3>3
  <2>5. CASE Announce
    <3>1. "systemSpeech" \in Speeches /\ "systemSpeechRequested" \in Events
      BY EventNames DEF Speeches
    <3>2. QueueSystemSpeech("systemSpeech", "systemSpeechRequested", lanes)
      BY <2>5 DEF Announce
    <3>3. Extends(lanes, lanes', {"systemSpeechRequested", "standbyReady"})
          /\ MoreSpeech(board, board')
      BY <1>2, <3>1, <3>2, SpeechQueued
    <3> QED
      BY <2>2, <3>3
  <2>6. CASE RequestInterrupt
    <3>1. lanes' = EnqueueEvent(lanes, "interruptRequested") /\ board' = board
      BY <2>6 DEF RequestInterrupt
    <3>2. Extends(lanes, lanes', {"interruptRequested"})
      BY <1>2, <3>1, EventExtends, EventNames
    <3> QED
      BY <2>1, <2>2, <3>1, <3>2
  <2> QED
    BY <2>3, <2>4, <2>5, <2>6
<1> HIDE DEF E
<1>5. gate' \in Gate /\ gate'.forwarding = gate.forwarding
  BY <1>1, <1>2 DEF Gate
<1>6. Typed' /\ FenceInv'
  BY <1>1, <1>2, <1>4, <1>5 DEF Typed, FenceInv, Extends, MoreSpeech
<1>7. ASSUME NothingDropped' PROVE LinkInv' /\ DeafInv' /\ WaitInv'
  <2>1. LinkInv /\ DeafInv /\ WaitInv
    BY <1>4, <1>7 DEF NothingDropped, IInv, Extends
  <2>2. session'.state = "starting" => ~session'.lease
    BY <1>1, <2>1 DEF LinkInv
  <2>3. Harmless => Harmless' /\ E \cap Cancelling = {}
    BY <1>1, <1>3 DEF Harmless
  <2> QED
    BY <1>1, <1>3, <1>4, <1>5, <2>1, <2>2, <2>3, OutsideKept
<1> QED
  BY <1>6, <1>7 DEF IInv

\* What the session hears of the user and of the server's recognition: not while the board waits
\* for its greeting, unless that is already followed by something.
LEMMA HearingStep ==
    ASSUME IInv, Speech \/ Recognise
    PROVE  IInv'
<1> DEFINE E == {"speech_started", "vad_silence", "stt_text_received", "mcp_tool_started"}
<1>1. /\ ctl' = ctl /\ timer' = timer /\ wake' = wake /\ board' = board /\ gate' = gate
  BY DEF Speech, Recognise, loop
<1>2. Typed /\ FenceInv /\ lanes \in ProperLanes /\ session \in Session /\ server \in Server
      /\ board \in Seq(BoardRequest)
  BY DEF IInv, Typed
<1>3. ~Harmless
  BY DEF Speech, Recognise, Harmless
<1>4. E \cap (Losses \cup LinkEvents) = {}
  BY DEF Losses, LinkEvents
<1>5. Extends(lanes, lanes', E)
  <2>1. E \subseteq Evidence
    BY DEF Evidence
  <2>2. ASSUME NEW l \in ProperLanes, NEW x \in E, NEW r, r = EnqueueVoiceEvidence(l, x)
        PROVE  Extends(l, r, E)
    <3>1. Extends(l, r, {x})
      BY <2>1, <2>2, EvidenceExtends
    <3>2. Extends(r, r, E)
      BY <3>1, ExtendsSame DEF Extends
    <3>3. Extends(l, r, {x} \cup E)
      BY <3>1, <3>2, ExtendsTwice
    <3>4. {x} \cup E = E
      OBVIOUS
    <3> QED
      BY <3>3, <3>4
  <2>3. CASE \E x \in E : lanes' = EnqueueVoiceEvidence(lanes, x)
    BY <1>2, <2>2, <2>3
  <2>4. CASE lanes' = EnqueueVoiceEvidence(EnqueueVoiceEvidence(lanes, "stt_text_received"),
                                           "mcp_tool_started")
    <3> DEFINE m == EnqueueVoiceEvidence(lanes, "stt_text_received")
    <3>1. Extends(lanes, m, E)
      BY <1>2, <2>2
    <3>2. lanes' = EnqueueVoiceEvidence(m, "mcp_tool_started")
      BY <2>4
    <3> HIDE DEF m
    <3>3. m \in ProperLanes
      BY <3>1 DEF Extends
    <3>4. Extends(m, lanes', E)
      BY <2>2, <3>2, <3>3
    <3>5. Extends(lanes, lanes', E \cup E)
      BY <3>1, <3>4, ExtendsTwice
    <3>6. E \cup E = E
      OBVIOUS
    <3> QED
      BY <3>5, <3>6
  <2> QED
    BY <2>3, <2>4 DEF Speech, Recognise
<1> HIDE DEF E
<1>6. /\ session' \in Session /\ session'.state = session.state /\ session'.fence = session.fence
      /\ session.state # "starting"
      /\ server' \in Server /\ server'.stream = server.stream
  <2>1. CASE Speech
    <3> DEFINE v == IF session.vad = "silent" THEN "speech" ELSE "done"
    <3>1. session' = [session EXCEPT !.vad = v] /\ server' = server /\ session.state = "capturing"
      BY <2>1 DEF Speech
    <3>2. v \in {"silent", "speech", "done"}
      OBVIOUS
    <3> HIDE DEF v
    <3> QED
      BY <1>2, <3>1, <3>2 DEF Session
  <2>2. CASE Recognise
    <3> DEFINE o == Owe("answer")
    <3>1. /\ session' = [session EXCEPT !.armed = TRUE, !.finalAsr = FALSE]
          /\ session.state \in {"capturing", "ready"}
          /\ server' = [o EXCEPT !.hears = FALSE]
      BY <2>2 DEF Recognise
    <3>2. o \in Server /\ o.stream = server.stream
      BY <1>2, OweIs DEF Streams
    <3> HIDE DEF o
    <3>3. server' \in Server /\ server'.stream = server.stream
      BY <3>1, <3>2 DEF Server
    <3>4. session' \in Session /\ session'.state = session.state /\ session'.fence = session.fence
      BY <1>2, <3>1 DEF Session
    <3> QED
      BY <3>1, <3>3, <3>4
  <2> QED
    BY <2>1, <2>2
<1>7. MoreSpeech(board, board')
  BY <1>1, <1>2 DEF MoreSpeech
<1>8. Typed' /\ FenceInv'
  BY <1>1, <1>2, <1>5, <1>6 DEF Typed, FenceInv, Extends
<1>9. ASSUME NothingDropped' PROVE LinkInv' /\ DeafInv' /\ WaitInv'
  <2>1. LinkInv /\ DeafInv /\ WaitInv
    BY <1>5, <1>9 DEF NothingDropped, IInv, Extends
  <2> QED
    BY <1>1, <1>3, <1>4, <1>5, <1>6, <1>7, <2>1, OutsideKept
<1> QED
  BY <1>8, <1>9 DEF IInv

\* A stream starts, is heard, stops.  One that is admitted ends the wait for the greeting; one
\* that is not leaves the session as harmless as it was.
LEMMA StartsStep ==
    ASSUME IInv, StreamStarts
    PROVE  IInv'
<1> DEFINE E == {"tts_started"}
           admitted == ~session.fence /\ (session.armed \/ session.state = "speaking")
<1>1. /\ ctl' = ctl /\ timer' = timer /\ wake' = wake /\ board' = board
      /\ session.state # "starting" /\ server.stream = "none" /\ server.owed # <<>>
      /\ server' = [server EXCEPT !.stream = Head(server.owed), !.audible = FALSE,
                                  !.owed = Tail(@)]
  BY DEF StreamStarts, loop
<1>2. IF admitted
      THEN /\ session' = [session EXCEPT !.state = "speaking"]
           /\ gate' = InterruptedGate
           /\ lanes' = EnqueueVoiceEvidence(lanes, "tts_started")
      ELSE session' = session /\ gate' = gate /\ lanes' = lanes
  BY DEF StreamStarts
<1>3. Typed /\ FenceInv /\ lanes \in ProperLanes /\ session \in Session /\ server \in Server
      /\ gate \in Gate /\ board \in Seq(BoardRequest)
  BY DEF IInv, Typed
<1>4. server' \in Server /\ server'.stream \in Streams
  <2> DEFINE o == Tail(server.owed)
             k == Head(server.owed)
  <2>1. server.owed \in Seq(Streams) /\ server.owed # <<>>
    BY <1>1, <1>3 DEF Server
  <2>2. o \in Seq(Streams) /\ k \in Streams
    BY <2>1
  <2>3. server' = [server EXCEPT !.stream = k, !.audible = FALSE, !.owed = o]
    BY <1>1
  <2> HIDE DEF o, k
  <2> QED
    BY <1>3, <2>2, <2>3 DEF Server
<1>5. server'.stream # "none"
  BY <1>4 DEF Streams
<1>6. session' \in Session /\ session'.fence = session.fence /\ session'.state # "starting"
      /\ (admitted => ~session'.fence)
  BY <1>1, <1>2, <1>3 DEF Session
<1>7. gate' \in Gate /\ (gate'.forwarding => gate.forwarding)
  <2>1. gate' = gate \/ gate' = InterruptedGate
    BY <1>2
  <2> QED
    BY <1>3, <2>1, InterruptedIs
<1>8. Extends(lanes, lanes', E) /\ (admitted => lanes'.dropped \/ Among(lanes'.control, E))
  <2>1. "tts_started" \in Evidence /\ "tts_started" \notin BestEffort \cup EmergencyEvidence
    BY DEF Evidence, BestEffort, EmergencyEvidence
  <2>2. CASE admitted
    BY <1>2, <1>3, <2>1, <2>2, EvidenceExtends
  <2>3. CASE ~admitted
    <3>1. lanes' = lanes
      BY <1>2, <2>3
    <3> QED
      BY <1>3, <2>3, <3>1, ExtendsSame
  <2> QED
    BY <2>2, <2>3
<1>9. Typed'
  BY <1>1, <1>3, <1>4, <1>6, <1>7, <1>8 DEF Typed, Extends
<1>10. FenceInv'
  <2>1. ~session.fence
    BY <1>1, <1>3 DEF FenceInv
  <2> QED
    BY <1>1, <1>3, <1>5, <1>6, <2>1 DEF FenceInv
<1>11. ASSUME NothingDropped' PROVE LinkInv' /\ DeafInv' /\ WaitInv'
  <2>1. LinkInv /\ DeafInv /\ WaitInv
    BY <1>8, <1>11 DEF NothingDropped, IInv, Extends
  <2>2. E \cap (Losses \cup LinkEvents) = {} /\ E \cap Cancelling = {}
    BY DEF Losses, LinkEvents, Cancelling
  <2>3. MoreSpeech(board, board')
    BY <1>1, <1>3 DEF MoreSpeech
  <2>4. Harmless => Harmless' \/ Queued(Leaving)'
    <3>1. CASE admitted
      <4>1. Among(lanes'.control, E)
        BY <1>8, <1>11, <3>1 DEF NothingDropped
      <4>2. Among(lanes'.control, Leaving)
        BY <4>1 DEF Among, Leaving
      <4> QED
        BY <4>2 DEF Queued
    <3>2. CASE ~admitted
      <4>1. ~session.armed /\ session' = session
        BY <1>1, <1>2, <1>3, <3>2 DEF FenceInv
      <4> QED
        BY <4>1 DEF Harmless
    <3> QED
      BY <3>1, <3>2
  <2> QED
    BY <1>1, <1>6, <1>7, <1>8, <2>1, <2>2, <2>3, <2>4, OutsideKept
<1> QED
  BY <1>9, <1>10, <1>11 DEF IInv

\* The first audio of a stream, and its stop.
LEMMA PlaysStep ==
    ASSUME IInv, FirstAudio \/ StreamStops
    PROVE  IInv'
<1> DEFINE E == {"tts_first_audio", "interrupt_ack_requested", "tts_stopped"}
<1>1. /\ ctl' = ctl /\ timer' = timer /\ wake' = wake /\ board' = board /\ gate' = gate
      /\ server.stream # "none"
  BY DEF FirstAudio, StreamStops, loop
<1>2. Typed /\ FenceInv /\ lanes \in ProperLanes /\ session \in Session /\ server \in Server
      /\ board \in Seq(BoardRequest)
  BY DEF IInv, Typed
<1>3. \/ /\ session' = session /\ server' = [server EXCEPT !.audible = TRUE]
         /\ lanes' = lanes \/ lanes' = EnqueueVoiceEvidence(lanes, "tts_first_audio")
      \/ /\ session.fence
         /\ session' = [session EXCEPT !.fence = FALSE, !.finalAsr = FALSE,
                            !.deferred = "none", !.armed = session.deferred # "none"]
         /\ server' = [server EXCEPT !.stream = "none",
                           !.owed = IF session.deferred = "none" THEN @
                                    ELSE Append(@, session.deferred)]
         /\ lanes' = lanes \/ lanes' = EnqueueVoiceEvidence(lanes, "interrupt_ack_requested")
      \/ /\ ~session.fence /\ server' = [server EXCEPT !.stream = "none"]
         /\ session.state = "speaking"
         /\ session' = [session EXCEPT !.state = "ready", !.armed = FALSE]
         /\ lanes' = EnqueueVoiceEvidence(lanes, "tts_stopped")
      \/ /\ ~session.fence /\ server' = [server EXCEPT !.stream = "none"]
         /\ session.state # "speaking" /\ session' = session /\ lanes' = lanes
  BY DEF FirstAudio, StreamStops
<1>4. \A x \in E : x \in Evidence
  BY DEF Evidence
<1>5. ASSUME lanes' = lanes \/ \E x \in E : lanes' = EnqueueVoiceEvidence(lanes, x)
      PROVE  Extends(lanes, lanes', E)
  <2>1. CASE lanes' = lanes
    BY <1>2, <2>1, ExtendsSame
  <2>2. ASSUME NEW x \in E, lanes' = EnqueueVoiceEvidence(lanes, x)
        PROVE  Extends(lanes, lanes', E)
    <3>1. Extends(lanes, lanes', {x})
      BY <1>2, <1>4, <2>2, EvidenceExtends
    <3>2. Extends(lanes', lanes', E)
      BY <3>1, ExtendsSame DEF Extends
    <3>3. Extends(lanes, lanes', {x} \cup E)
      BY <3>1, <3>2, ExtendsTwice
    <3>4. {x} \cup E = E
      OBVIOUS
    <3> QED
      BY <3>3, <3>4
  <2> QED
    BY <1>5, <2>1, <2>2
<1>6. Extends(lanes, lanes', E)
  <2>1. lanes' = lanes \/ \E x \in E : lanes' = EnqueueVoiceEvidence(lanes, x)
    BY <1>3
  <2> QED
    BY <1>5, <2>1
<1>7. MoreSpeech(board, board')
  BY <1>1, <1>2 DEF MoreSpeech
<1>8. E \cap (Losses \cup LinkEvents) = {}
  BY DEF Losses, LinkEvents
<1>9. /\ session' \in Session /\ server' \in Server
      /\ session'.fence => session.fence /\ server'.stream = server.stream
      /\ session'.state = "speaking" => session.state = "speaking" /\ server'.stream = server.stream
      /\ session.fence /\ session'.fence => session' = session
      /\ session'.state = session.state \/ (session.state = "speaking" /\ session'.state = "ready")
      /\ session'.lease = session.lease
      /\ Harmless => Harmless'
      /\ Harmless => lanes' = lanes \/ lanes' \in {EnqueueVoiceEvidence(lanes, "tts_first_audio"),
                                      EnqueueVoiceEvidence(lanes, "interrupt_ack_requested")}
  <2>1. CASE /\ session' = session /\ server' = [server EXCEPT !.audible = TRUE]
             /\ lanes' = lanes \/ lanes' = EnqueueVoiceEvidence(lanes, "tts_first_audio")
    <3>1. server' \in Server /\ server'.stream = server.stream /\ server'.owed = server.owed
      BY <1>2, <2>1 DEF Server
    <3> QED
      BY <1>2, <2>1, <3>1 DEF Harmless
  <2>2. CASE /\ session.fence
             /\ session' = [session EXCEPT !.fence = FALSE, !.finalAsr = FALSE,
                                !.deferred = "none", !.armed = session.deferred # "none"]
             /\ server' = [server EXCEPT !.stream = "none",
                               !.owed = IF session.deferred = "none" THEN @
                                        ELSE Append(@, session.deferred)]
             /\ lanes' = lanes \/ lanes' = EnqueueVoiceEvidence(lanes, "interrupt_ack_requested")
    <3> DEFINE b == session.deferred # "none"
               o == IF session.deferred = "none" THEN server.owed
                    ELSE Append(server.owed, session.deferred)
    <3>1. /\ session' = [session EXCEPT !.fence = FALSE, !.finalAsr = FALSE,
                                !.deferred = "none", !.armed = b]
          /\ server' = [server EXCEPT !.stream = "none", !.owed = o]
      BY <2>2
    <3>2. b \in BOOLEAN
      OBVIOUS
    <3>3. o \in Seq(Streams)
      <4>1. server.owed \in Seq(Streams) /\ session.deferred \in {"none", "ack", "speech"}
        BY <1>2 DEF Server, Session
      <4> QED
        BY <4>1 DEF Streams
    <3> HIDE DEF b, o
    <3>4. session' \in Session /\ ~session'.fence /\ ~session'.finalAsr
          /\ session'.state = session.state /\ session'.lease = session.lease
      BY <1>2, <3>1, <3>2 DEF Session
    <3>5. server' \in Server
      BY <1>2, <3>1, <3>3 DEF Server
    <3>6. session.state # "speaking"
      BY <1>2, <2>2 DEF FenceInv
    <3> QED
      BY <2>2, <3>4, <3>5, <3>6 DEF Harmless
  <2>3. CASE /\ ~session.fence /\ server' = [server EXCEPT !.stream = "none"]
             /\ session.state = "speaking"
             /\ session' = [session EXCEPT !.state = "ready", !.armed = FALSE]
             /\ lanes' = EnqueueVoiceEvidence(lanes, "tts_stopped")
    <3>1. server' \in Server
      BY <1>2, <2>3 DEF Server
    <3>2. session' \in Session /\ ~session'.fence /\ session'.state = "ready"
          /\ session'.lease = session.lease
      BY <1>2, <2>3 DEF Session
    <3>3. ~Harmless
      BY <2>3 DEF Harmless
    <3> QED
      BY <2>3, <3>1, <3>2, <3>3
  <2>4. CASE /\ ~session.fence /\ server' = [server EXCEPT !.stream = "none"]
             /\ session.state # "speaking" /\ session' = session /\ lanes' = lanes
    <3>1. server' \in Server /\ server'.owed = server.owed
      BY <1>2, <2>4 DEF Server
    <3> QED
      BY <1>2, <2>4, <3>1 DEF Harmless
  <2> QED
    BY <1>3, <2>1, <2>2, <2>3, <2>4
<1> DEFINE F == {"tts_first_audio", "interrupt_ack_requested"}
<1>10. Harmless => Extends(lanes, lanes', F)
  <2>1. ASSUME NEW x \in F, lanes' = EnqueueVoiceEvidence(lanes, x)
        PROVE  Extends(lanes, lanes', F)
    <3>1. Extends(lanes, lanes', {x})
      BY <1>2, <1>4, <2>1, EvidenceExtends
    <3>2. Extends(lanes', lanes', F)
      BY <3>1, ExtendsSame DEF Extends
    <3>3. Extends(lanes, lanes', {x} \cup F)
      BY <3>1, <3>2, ExtendsTwice
    <3>4. {x} \cup F = F
      OBVIOUS
    <3> QED
      BY <3>3, <3>4
  <2>2. lanes' = lanes => Extends(lanes, lanes', F)
    BY <1>2, ExtendsSame
  <2> QED
    BY <1>9, <2>1, <2>2
<1>11. F \cap (Losses \cup LinkEvents) = {} /\ F \cap Cancelling = {}
  BY DEF Losses, LinkEvents, Cancelling
<1> HIDE DEF E, F
<1>12. Typed' /\ FenceInv'
  BY <1>1, <1>2, <1>6, <1>9 DEF Typed, FenceInv, Extends
<1>13. ASSUME NothingDropped' PROVE LinkInv' /\ DeafInv' /\ WaitInv'
  <2>1. LinkInv /\ DeafInv /\ WaitInv
    BY <1>6, <1>13 DEF NothingDropped, IInv, Extends
  <2>2. /\ session'.state = "starting" => ~session'.lease
        /\ session'.state # "starting" => session.state # "starting"
    BY <1>9, <2>1 DEF LinkInv
  <2>3. CASE Harmless
    BY <1>1, <1>7, <1>9, <1>10, <1>11, <2>1, <2>2, <2>3, OutsideKept
  <2>4. CASE ~Harmless
    BY <1>1, <1>6, <1>7, <1>8, <2>1, <2>2, <2>4, OutsideKept
  <2> QED
    BY <2>3, <2>4
<1> QED
  BY <1>12, <1>13 DEF IInv

\* Errors of the provider, and the link.
LEMMA LinkStep ==
    ASSUME IInv, ProviderError \/ Disconnect \/ Connect
    PROVE  IInv'
<1>1. /\ ctl' = ctl /\ timer' = timer /\ wake' = wake /\ board' = board /\ gate' = gate
  BY DEF ProviderError, Disconnect, Connect, loop
<1>2. Typed /\ FenceInv /\ lanes \in ProperLanes /\ session \in Session /\ server \in Server
      /\ board \in Seq(BoardRequest)
  BY DEF IInv, Typed
<1>3. MoreSpeech(board, board')
  BY <1>1, <1>2 DEF MoreSpeech
<1>4. RestoreComes => RestoreComes'
  BY <1>1 DEF RestoreComes
<1>5. Asking => Asking'
  BY <1>1 DEF Asking
<1>6. CASE ProviderError
  <2> DEFINE E == {"provider_error"}
  <2>1. session' = session /\ server' = server
        /\ lanes' = EnqueueVoiceEvidence(lanes, "provider_error")
    BY <1>6 DEF ProviderError
  <2>2. Extends(lanes, lanes', E) /\ (lanes'.dropped \/ Among(lanes'.control, E))
    <3>1. "provider_error" \in Evidence /\ "provider_error" \notin BestEffort \cup EmergencyEvidence
      BY DEF Evidence, BestEffort, EmergencyEvidence
    <3> QED
      BY <1>2, <2>1, <3>1, EvidenceExtends
  <2>3. Typed' /\ FenceInv'
    BY <1>1, <1>2, <2>1, <2>2 DEF Typed, FenceInv, Extends
  <2>4. ASSUME NothingDropped' PROVE LinkInv' /\ DeafInv' /\ WaitInv'
    <3>1. LinkInv /\ DeafInv /\ WaitInv
      BY <2>2, <2>4 DEF NothingDropped, IInv, Extends
    <3>2. E \cap (Losses \cup LinkEvents) = {}
      BY DEF Losses, LinkEvents
    <3>3. Among(lanes'.control, Leaving)
      BY <2>2, <2>4 DEF NothingDropped, Among, Leaving
    <3>4. Queued(Leaving)'
      BY <3>3 DEF Queued
    <3>5. session'.state = "starting" => ~session'.lease
      BY <2>1, <3>1 DEF LinkInv
    <3> QED
      BY <1>1, <1>3, <2>1, <2>2, <3>1, <3>2, <3>4, <3>5, OutsideKept
  <2> QED
    BY <2>3, <2>4 DEF IInv
<1>7. CASE Disconnect
  <2> DEFINE E == {"transport_disconnected"}
             n == NewTurn("none")
  <2>1. /\ session' = [n EXCEPT !.state = "starting", !.fence = FALSE]
        /\ server' = [owed |-> <<>>, stream |-> "none", audible |-> FALSE, hears |-> FALSE]
        /\ lanes' = EnqueueVoiceEvidence(lanes, "transport_disconnected")
    BY <1>7 DEF Disconnect
  <2>2. n \in Session /\ ~n.lease
    BY <1>2, NewTurnIs
  <2> HIDE DEF n
  <2>3. session' \in Session /\ session'.state = "starting" /\ ~session'.fence /\ ~session'.lease
    BY <2>1, <2>2 DEF Session
  <2>4. server' \in Server
    BY <2>1 DEF Server
  <2>5. Extends(lanes, lanes', E) /\ (lanes'.dropped \/ Among(lanes'.control, E))
    <3>1. /\ "transport_disconnected" \in Evidence
          /\ "transport_disconnected" \notin BestEffort \cup EmergencyEvidence
      BY DEF Evidence, BestEffort, EmergencyEvidence
    <3> QED
      BY <1>2, <2>1, <3>1, EvidenceExtends
  <2>6. Typed' /\ FenceInv'
    BY <1>1, <1>2, <2>3, <2>4, <2>5 DEF Typed, FenceInv, Extends
  <2>7. ASSUME NothingDropped' PROVE LinkInv' /\ DeafInv' /\ WaitInv'
    <3>1. LinkInv /\ DeafInv /\ WaitInv
      BY <2>5, <2>7 DEF NothingDropped, IInv, Extends
    <3>2. E \cap LinkEvents = {}
      BY DEF LinkEvents
    <3>3. LinkInv'
      BY <2>3, <2>5, <3>1, <3>2 DEF LinkInv, Extends
    <3>4. DeafInv'
      BY <1>1, <1>4, <2>5, <3>1, DeafKept
    <3>5. Among(lanes'.control, Leaving)
      BY <2>5, <2>7 DEF NothingDropped, Among, Leaving
    <3>6. WaitInv'
      BY <3>5 DEF WaitInv, Queued
    <3> QED
      BY <3>3, <3>4, <3>6
  <2> QED
    BY <2>6, <2>7 DEF IInv
<1>8. CASE Connect
  <2> DEFINE E == {"transport_connected"}
  <2>1. /\ session.state = "starting" /\ session' = [session EXCEPT !.state = "ready"]
        /\ server' = server
        /\ lanes' = EnqueueVoiceEvidence(lanes, "transport_connected")
    BY <1>8 DEF Connect
  <2>2. session' \in Session /\ session'.state = "ready" /\ session'.fence = session.fence
    BY <1>2, <2>1 DEF Session
  <2>3. /\ Extends(lanes, lanes', E)
        /\ lanes'.dropped \/ (Among(lanes'.control, E) /\ Answered(lanes'.control))
    <3>1. /\ "transport_connected" \in Evidence
          /\ "transport_connected" \notin BestEffort \cup EmergencyEvidence
      BY DEF Evidence, BestEffort, EmergencyEvidence
    <3> QED
      BY <1>2, <2>1, <3>1, EvidenceExtends
  <2>4. Typed' /\ FenceInv'
    BY <1>1, <1>2, <2>1, <2>2, <2>3 DEF Typed, FenceInv, Extends
  <2>5. ASSUME NothingDropped' PROVE LinkInv' /\ DeafInv' /\ WaitInv'
    <3>1. LinkInv /\ DeafInv /\ WaitInv
      BY <2>3, <2>5 DEF NothingDropped, IInv, Extends
    <3>2. E \cap LinkEvents = {}
      BY DEF LinkEvents
    <3>3. Among(lanes'.control, Returns) /\ Answered(lanes'.control)
      BY <2>3, <2>5 DEF NothingDropped, Among, Returns
    <3>4. LinkInv'
      BY <2>2, <2>3, <3>1, <3>2, <3>3 DEF LinkInv, Extends
    <3>5. DeafInv'
      BY <1>1, <1>4, <2>3, <3>1, DeafKept
    <3>6. ~Asked
      BY <2>1 DEF Asked, Harmless
    <3>7. WaitInv'
      BY <1>1, <1>5, <2>3, <3>1, <3>6, WaitKept
    <3> QED
      BY <3>4, <3>5, <3>7
  <2> QED
    BY <2>4, <2>5 DEF IInv
<1> QED
  BY <1>6, <1>7, <1>8

-----------------------------------------------------------------------------
(* The theorems.                                                           *)

\* The invariant holds at start-up.
LEMMA StartsWell == Init => IInv
<1> SUFFICES ASSUME Init PROVE IInv
  OBVIOUS
<1>1. lanes \in ProperLanes /\ lanes.emergency = <<>> /\ lanes.control = <<"bootCompleted">>
  <2>1. <<"bootCompleted">> \in Seq(Items) /\ Len(<<"bootCompleted">>) = 1
    BY EventNames DEF Items
  <2>2. lanes \in LaneTypes /\ lanes.emergency = <<>> /\ lanes.control = <<"bootCompleted">>
    BY <2>1 DEF Init, LaneTypes
  <2>3. 1 <= ControlCapacity
    BY CapacityAssumption
  <2> QED
    BY <2>1, <2>2, <2>3 DEF ProperLanes
<1>2. ctl = "booting" /\ ctl \in Phases
  BY DEF Init, Phases
<1>3. timer \in Timer /\ timer.pending = "no"
  BY DEF Init, Timer
<1>4. board \in Seq(BoardRequest) /\ wake \in Waking /\ wake.at = "idle"
  BY DEF Init, Waking
<1>5. gate \in Gate
  BY DEF Init, Gate
<1>6. session \in Session /\ session.state = "ready" /\ ~session.fence
  BY DEF Init, Session
<1>7. server \in Server
  BY DEF Init, Server
<1>8. Typed /\ FenceInv
  BY <1>1, <1>2, <1>3, <1>4, <1>5, <1>6, <1>7 DEF Typed, FenceInv
<1>9. ~Among(lanes.emergency, LinkEvents)
  BY <1>1 DEF Among
<1>10. Answered(lanes.control)
  BY <1>1 DEF Answered, Losses
<1>11. LinkInv
  BY <1>2, <1>6, <1>9, <1>10 DEF LinkInv
<1> QED
  BY <1>2, <1>8, <1>11 DEF IInv, DeafInv, WaitInv

\* Every step of loop, timer, WakeTask and environment preserves it.
LEMMA Inductive == IInv /\ [Next]_vars => IInv'
<1> SUFFICES ASSUME IInv, [Next]_vars PROVE IInv'
  OBVIOUS
<1>1. CASE Loop
  <2>1. CASE LoopTimeout
    BY <2>1, TimeoutStep
  <2>2. ASSUME NEW lane \in {"emergency", "control", "best"}, lanes[lane] # <<>>,
               LoopEvent(lane) \/ LoopShake(lane) \/ LoopEvidence(lane)
        PROVE  IInv'
    BY <2>2, EventStep, ShakeStep, EvidenceStep
  <2> QED
    BY <1>1, <2>1, <2>2 DEF Loop
<1>2. CASE ListenTimeout
  BY <1>2, CallbackStep
<1>3. CASE WakeTask
  <2>1. CASE WakeTake
    BY <2>1, TakeStep
  <2>2. CASE WakeInterrupt
    BY <2>2, InterruptStep
  <2>3. CASE WakeSpeak
    BY <2>3, SpeakStep
  <2>4. CASE WakeVoiceTurn
    BY <2>4, VoiceTurnStep
  <2>5. CASE WakeCapture
    BY <2>5, CaptureStep
  <2>6. CASE WakeStop
    BY <2>6, StopStep
  <2>7. ASSUME NEW kind \in {"interruptAndStartVoiceTurn", "shakeSpeech"}, WakeInterruptAnd(kind)
        PROVE  IInv'
    BY <2>7, CutStep
  <2>8. CASE RestoreStop \/ RestoreStart
    BY <2>8, RestoreStep
  <2> QED
    BY <1>3, <2>1, <2>2, <2>3, <2>4, <2>5, <2>6, <2>7, <2>8 DEF WakeTask
<1>4. CASE Environment
  <2>1. CASE \/ \E event \in LocalCommands : WakeWord(event)
             \/ \E input \in Inputs : BoardInput(input)
             \/ Announce \/ RequestInterrupt
    BY <2>1, InputStep
  <2>2. CASE Speech \/ Recognise
    BY <2>2, HearingStep
  <2>3. CASE StreamStarts
    BY <2>3, StartsStep
  <2>4. CASE FirstAudio \/ StreamStops
    BY <2>4, PlaysStep
  <2>5. CASE ProviderError \/ Disconnect \/ Connect
    BY <2>5, LinkStep
  <2> QED
    BY <1>4, <2>1, <2>2, <2>3, <2>4, <2>5 DEF Environment
<1>5. CASE UNCHANGED vars
  <2>1. /\ ctl' = ctl /\ timer' = timer /\ wake' = wake /\ board' = board /\ gate' = gate
        /\ lanes' = lanes /\ session' = session /\ server' = server
    BY <1>5 DEF vars
  <2>2. Typed' /\ FenceInv'
    BY <2>1 DEF IInv, Typed, FenceInv
  <2>3. (LinkInv => LinkInv') /\ (DeafInv => DeafInv') /\ (NothingDropped' => NothingDropped)
    BY <2>1 DEF LinkInv, DeafInv, RestoreComes, Queued, NothingDropped
  <2>4. WaitInv => WaitInv'
    BY <2>1 DEF WaitInv, Queued, Asking, Asked, Harmless, Ticking
  <2> QED
    BY <2>2, <2>3, <2>4 DEF IInv
<1> QED
  BY <1>1, <1>2, <1>3, <1>4, <1>5 DEF Next

\* Nothing stands in a lane that is empty.
LEMMA EmptyHasNone == \A X : ~Among(<<>>, X)
  BY DEF Among

\* What the invariant says of a board at rest: neither phase is forgotten.
LEMMA AtRestIsSettled ==
    ASSUME IInv, NothingDropped
    PROVE  ReconnectingIsDeaf /\ AcknowledgementEnds
<1>1. Typed /\ DeafInv /\ WaitInv
  BY DEF IInv
<1>2. ASSUME AtRest
      PROVE  /\ \A X : ~Queued(X)
             /\ \A X : ~Among(lanes.control, X)
             /\ ~RestoreComes /\ ~Asking /\ ~WillTick(lanes.control)
             /\ timer.pending = "no" /\ timer.firing = "no"
  <2>1. /\ lanes.control = <<>> /\ lanes.emergency = <<>> /\ board = <<>> /\ wake.at = "idle"
        /\ timer.pending = "no" /\ timer.firing = "no"
    BY <1>2 DEF AtRest, Quiet
  <2>2. ~RestoreQueued(board) /\ ~StartQueued(board)
    BY <2>1 DEF RestoreQueued, StartQueued
  <2>3. ~WillTick(lanes.control)
    BY <2>1 DEF WillTick
  <2> QED
    BY <2>1, <2>2, <2>3, EmptyHasNone DEF Queued, RestoreComes, Asking
<1>3. ReconnectingIsDeaf
  BY <1>1, <1>2 DEF ReconnectingIsDeaf, DeafInv
<1>4. ASSUME ctl = "acknowledging", AtRest PROVE timer.armed
  <2>1. Asked
    BY <1>1, <1>2, <1>4 DEF WaitInv
  <2> QED
    BY <1>2, <1>4, <2>1 DEF Asked, Ticking
<1> QED
  BY <1>3, <1>4 DEF AcknowledgementEnds

\* As long as no evidence was dropped at a full queue, a board that waits for its connection and
\* has nothing left to do does not forward the microphone, whatever the sizes of the queues and
\* however often the link is lost (RestoreStandby against BeginCapture, runtime.cc).
THEOREM BoardIsDeaf == Spec => [](NothingDropped => ReconnectingIsDeaf)
<1>1. Init => IInv
  BY StartsWell
<1>2. IInv /\ [Next]_vars => IInv'
  BY Inductive
<1>3. IInv => (NothingDropped => ReconnectingIsDeaf)
  BY AtRestIsSettled
<1> QED
  BY <1>1, <1>2, <1>3, PTL DEF Spec

\* Under the same condition the wait for the greeting is never forgotten: as long as the
\* controller acknowledges, work is queued or under way or the listen timer runs (WakeTask and
\* ProcessVoiceEvidence, runtime.cc).
THEOREM WaitIsGuarded == Spec => [](NothingDropped => AcknowledgementEnds)
<1>1. Init => IInv
  BY StartsWell
<1>2. IInv /\ [Next]_vars => IInv'
  BY Inductive
<1>3. IInv => (NothingDropped => AcknowledgementEnds)
  BY AtRestIsSettled
<1> QED
  BY <1>1, <1>2, <1>3, PTL DEF Spec
=============================================================================
