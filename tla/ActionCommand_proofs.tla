------------------------ MODULE ActionCommand_proofs ------------------------
(***************************************************************************)
(* What the gateway says of an action is true, and no command is stranded, *)
(* for every number of connections, recoveries, reports, losses and        *)
(* restarts and every size of the queues.                                  *)
(***************************************************************************)
EXTENDS ActionCommand, TLAPS

\* The types of the parts of the state that can decide what a row says.
RowOK    == row \in Rows
FactOK   == fact \in {"none"} \cup Kinds
StreamOK == stream \in [Conns -> [pc : {"idle", "replay", "replay write", "send",
                                        "mark", "mark write", "wait", "ended", "cut"},
                                  copy : Rows, seen : BOOLEAN]]
ReqOK    == req \in [Requests -> [pc : RequestPCs, copy : Rows,
                                  input : {"none"} \cup Outcomes \cup Kinds]]
DevOK    == dev \in [pc : {"off", "read", "handle", "report", "done"},
                     conn : 0 .. MaxConnects, cached : {"none"} \cup Outcomes]
LocalOK  == local \in [kind : {"none"} \cup Kinds, by : {"nobody", "card", "voice"}]
SpentOK  == spent \in [faults : Nat, recoveries : Nat, reports : Nat,
                       drops : Nat, crashes : Nat]

Typed == /\ RowOK /\ FactOK /\ StreamOK /\ ReqOK /\ DevOK /\ LocalOK /\ SpentOK

\* What a request was posted with.
Inputs ==
    /\ req[Trigger].pc = "insert" => req[Trigger].input \in {"none"} \cup Kinds
    /\ req[Voice].pc = "write" => req[Voice].input \in Kinds
    /\ \A c \in Conns : req[c].pc \in {"posted", "write"}
                           => req[c].input \in Outcomes
    /\ local.by = "voice" => local.kind \in Kinds

\* An outcome that agrees with what the device did.
Agrees(out) ==
    /\ out = "succeeded" => local.kind = "same"
    /\ out = "failed" => local.kind = "other" \/ spent.faults > 0

\* Everything that may still decide the status of the row agrees with what
\* the device did: its cache, the posted results, the fact and its copies.
Truth ==
    /\ Agrees(row.status)
    /\ Agrees(dev.cached)
    /\ \A c \in Conns : req[c].pc \in {"posted", "write"} => Agrees(req[c].input)
    /\ fact # "none" => local.kind = fact
    /\ req[Trigger].pc = "insert" /\ req[Trigger].input # "none"
          => local.kind = req[Trigger].input
    /\ req[Voice].pc = "write" => local.kind = req[Voice].input

IInv == Typed /\ Inputs /\ Truth
-----------------------------------------------------------------------------
\* The values requests and rows are reset to.
LEMMA Defaults ==
    /\ NoRow \in Rows
    /\ Rest \in [pc : RequestPCs, copy : Rows,
                 input : {"none"} \cup Outcomes \cup Kinds]
    /\ Rest.pc = "idle" /\ Rest.copy = NoRow /\ Rest.input = "none"
    /\ DOMAIN Rest = {"pc", "copy", "input"}
  BY DEF NoRow, Rows, Rest, RequestPCs

\* Every step keeps the types.
LEMMA TypedStep ==
    ASSUME Typed, Inputs, [Next]_vars
    PROVE  Typed'
<1> USE Defaults, ActionAssumption DEF Typed
<1>1. ASSUME NEW r \in Requests, DispatchRead(r) PROVE Typed'
  <2>1. ReqOK'
    BY <1>1 DEF DispatchRead, ReqOK, RequestPCs, RowOK
  <2> QED
    BY <1>1, <2>1
       DEF DispatchRead, device, RowOK, StreamOK, DevOK, LocalOK, SpentOK,
           FactOK
<1>2. ASSUME NEW r \in Requests, DispatchWrite(r) PROVE Typed'
  <2>1. RowOK'
    BY <1>2 DEF DispatchWrite, RowOK, Rows, Unfinished, Terminal, NoRow, ReqOK
  <2>2. ReqOK'
    BY <1>2 DEF DispatchWrite, ReqOK, RequestPCs
  <2> QED
    BY <1>2, <2>1, <2>2
       DEF DispatchWrite, device, StreamOK, DevOK, LocalOK, SpentOK, FactOK
<1>3. ASSUME NEW r \in Requests, Publish(r) PROVE Typed'
  <2>1. ReqOK'
    BY <1>3 DEF Publish, ReqOK, RequestPCs, After
  <2> QED
    BY <1>3, <2>1
       DEF Publish, device, RowOK, StreamOK, DevOK, LocalOK, SpentOK, FactOK
<1>4. ASSUME NEW r \in Requests, Close(r) PROVE Typed'
  <2>1. ReqOK'
    BY <1>4 DEF Close, ReqOK, RequestPCs, After
  <2> QED
    BY <1>4, <2>1
       DEF Close, device, RowOK, StreamOK, DevOK, LocalOK, SpentOK, FactOK
<1>5. CASE TriggerInsert
  <2>1. RowOK'
    BY <1>5
       DEF TriggerInsert, RowOK, Rows, Unfinished, Terminal, NoRow, Decided,
           Outcomes
  <2>2. ReqOK'
    BY <1>5 DEF TriggerInsert, ReqOK, RequestPCs, Requests, Trigger
  <2> QED
    BY <1>5, <2>1, <2>2
       DEF TriggerInsert, device, StreamOK, DevOK, LocalOK, SpentOK, FactOK
<1>6. ASSUME NEW c \in Conns, ResultRead(c) PROVE Typed'
  <2>1. ReqOK'
    BY <1>6 DEF ResultRead, ReqOK, RequestPCs, AfterResult, Requests
  <2> QED
    BY <1>6, <2>1
       DEF ResultRead, device, RowOK, StreamOK, DevOK, LocalOK, SpentOK, FactOK
<1>7. ASSUME NEW c \in Conns, ResultWrite(c) PROVE Typed'
  <2>1. RowOK'
    BY <1>7
       DEF ResultWrite, RowOK, Rows, Unfinished, Terminal, NoRow, Inputs,
           Outcomes
  <2>2. ReqOK'
    BY <1>7 DEF ResultWrite, ReqOK, RequestPCs, AfterResult, Requests
  <2> QED
    BY <1>7, <2>1, <2>2
       DEF ResultWrite, device, StreamOK, DevOK, LocalOK, SpentOK, FactOK
<1>8. CASE ExpireRead
  <2>1. ReqOK'
    BY <1>8 DEF ExpireRead, ReqOK, RequestPCs, RowOK, Requests, Worker
  <2> QED
    BY <1>8, <2>1
       DEF ExpireRead, device, RowOK, StreamOK, DevOK, LocalOK, SpentOK, FactOK
<1>9. CASE ExpireWrite
  <2>1. RowOK'
    BY <1>9
       DEF ExpireWrite, RowOK, Rows, Unfinished, Terminal, NoRow, ReqOK,
           Requests, Worker
  <2>2. ReqOK'
    BY <1>9 DEF ExpireWrite, ReqOK, RequestPCs, Requests, Worker
  <2> QED
    BY <1>9, <2>1, <2>2
       DEF ExpireWrite, device, StreamOK, DevOK, LocalOK, SpentOK, FactOK
<1>10. CASE VoiceWrite
  <2>1. RowOK'
    BY <1>10
       DEF VoiceWrite, RowOK, Rows, Unfinished, Terminal, NoRow, Decided,
           Outcomes
  <2>2. ReqOK'
    <3>1. req' \in {[req EXCEPT ![Voice] = [Rest EXCEPT !.pc = "close"]],
                    [req EXCEPT ![Voice] = Rest]}
      BY <1>10 DEF VoiceWrite
    <3>2. CASE req' = [req EXCEPT ![Voice] = [Rest EXCEPT !.pc = "close"]]
      BY <3>2 DEF ReqOK, RequestPCs
    <3>3. CASE req' = [req EXCEPT ![Voice] = Rest]
      BY <3>3 DEF ReqOK
    <3> QED
      BY <3>1, <3>2, <3>3
  <2>3. FactOK'
    BY <1>10 DEF VoiceWrite, FactOK, Inputs
  <2> QED
    BY <1>10, <2>1, <2>2, <2>3
       DEF VoiceWrite, device, StreamOK, DevOK, LocalOK, SpentOK
<1>11. ASSUME NEW c \in Conns, ReplayRead(c) PROVE Typed'
  <2>1. StreamOK'
    BY <1>11 DEF ReplayRead, StreamOK, RowOK
  <2> QED
    BY <1>11, <2>1
       DEF ReplayRead, device, RowOK, ReqOK, DevOK, LocalOK, SpentOK, FactOK
<1>12. ASSUME NEW c \in Conns, ReplayWrite(c) PROVE Typed'
  <2>1. RowOK'
    BY <1>12
       DEF ReplayWrite, RowOK, Rows, Unfinished, Terminal, NoRow, StreamOK
  <2>2. StreamOK'
    BY <1>12 DEF ReplayWrite, StreamOK
  <2> QED
    BY <1>12, <2>1, <2>2
       DEF ReplayWrite, device, ReqOK, DevOK, LocalOK, SpentOK, FactOK
<1>13. ASSUME NEW c \in Conns, SendFrame(c) PROVE Typed'
  <2>1. StreamOK'
    <3>1. \E q \in {"mark", "ended"} : stream' = [stream EXCEPT ![c].pc = q]
      BY <1>13 DEF SendFrame
    <3>2. ASSUME stream' = [stream EXCEPT ![c].pc = "mark"] PROVE StreamOK'
      BY <3>2 DEF StreamOK
    <3>3. ASSUME stream' = [stream EXCEPT ![c].pc = "ended"] PROVE StreamOK'
      BY <3>3 DEF StreamOK
    <3> QED
      BY <3>1, <3>2, <3>3
  <2> QED
    BY <1>13, <2>1
       DEF SendFrame, device, RowOK, ReqOK, DevOK, LocalOK, SpentOK, FactOK
<1>14. ASSUME NEW c \in Conns, MarkRead(c) PROVE Typed'
  <2>1. StreamOK'
    BY <1>14 DEF MarkRead, StreamOK, RowOK
  <2> QED
    BY <1>14, <2>1
       DEF MarkRead, device, RowOK, ReqOK, DevOK, LocalOK, SpentOK, FactOK
<1>15. ASSUME NEW c \in Conns, MarkWrite(c) PROVE Typed'
  <2>1. RowOK'
    BY <1>15 DEF MarkWrite, RowOK, Rows, Unfinished, Terminal, NoRow, StreamOK
  <2>2. StreamOK'
    BY <1>15 DEF MarkWrite, StreamOK
  <2> QED
    BY <1>15, <2>1, <2>2
       DEF MarkWrite, device, ReqOK, DevOK, LocalOK, SpentOK, FactOK
<1>16. ASSUME NEW c \in Conns, NextCommand(c) PROVE Typed'
  <2>1. StreamOK'
    <3>1. CASE UNCHANGED stream
      BY <3>1 DEF StreamOK
    <3>2. CASE stream' = [stream EXCEPT ![c] = [@ EXCEPT !.pc = "send", !.seen = TRUE]]
      BY <3>2 DEF StreamOK
    <3>3. CASE stream' = [stream EXCEPT ![c].pc = "ended"]
      BY <3>3 DEF StreamOK
    <3>4. CASE stream' = [stream EXCEPT ![c] =
                            IF stream[c].seen THEN @
                            ELSE [@ EXCEPT !.pc = "send", !.seen = TRUE]]
      <4>1. CASE stream[c].seen
        BY <3>1, <3>4, <4>1 DEF StreamOK
      <4>2. CASE ~stream[c].seen
        BY <3>2, <3>4, <4>2
      <4> QED
        BY <4>1, <4>2
    <3> QED
      BY <1>16, <3>3, <3>4 DEF NextCommand
  <2> QED
    BY <1>16, <2>1
       DEF NextCommand, device, RowOK, ReqOK, DevOK, LocalOK, SpentOK, FactOK
<1>17. ASSUME NEW c \in Conns, SubscriptionExpires(c) PROVE Typed'
  BY <1>17
     DEF SubscriptionExpires, device, RowOK, StreamOK, ReqOK, DevOK, LocalOK,
         SpentOK, FactOK
<1>18. ASSUME NEW c \in Conns, Connect(c) PROVE Typed'
  <2>1. StreamOK'
    BY <1>18 DEF Connect, StreamOK
  <2>2. DevOK'
    <3>1. c \in 0 .. MaxConnects
      BY DEF Conns
    <3>2. dev' = [dev EXCEPT !.pc = "read", !.conn = c]
      BY <1>18 DEF Connect
    <3> QED
      BY <3>1, <3>2 DEF DevOK
  <2> QED
    BY <1>18, <2>1, <2>2
       DEF Connect, device, RowOK, ReqOK, LocalOK, SpentOK, FactOK
<1>19. CASE Receive
  <2>1. DevOK'
    BY <1>19 DEF Receive, DevOK
  <2> QED
    BY <1>19, <2>1
       DEF Receive, device, RowOK, StreamOK, ReqOK, LocalOK, SpentOK, FactOK
<1>20. CASE RunEnds
  <2>1. DevOK'
    BY <1>20 DEF RunEnds, DevOK
  <2> QED
    BY <1>20, <2>1
       DEF RunEnds, device, RowOK, StreamOK, ReqOK, LocalOK, SpentOK, FactOK
<1>21. CASE HandleExpired
  <2>1. ReqOK'
    BY <1>21 DEF HandleExpired, ReqOK, RequestPCs, Post, Outcomes
  <2>2. DevOK'
    BY <1>21 DEF HandleExpired, DevOK
  <2> QED
    BY <1>21, <2>1, <2>2
       DEF HandleExpired, device, RowOK, StreamOK, LocalOK, SpentOK, FactOK
<1>22. CASE HandleCached
  <2>1. ReqOK'
    BY <1>22 DEF HandleCached, ReqOK, RequestPCs, Post, DevOK
  <2>2. DevOK'
    BY <1>22 DEF HandleCached, DevOK
  <2> QED
    BY <1>22, <2>1, <2>2
       DEF HandleCached, device, RowOK, StreamOK, LocalOK, SpentOK, FactOK
<1>23. CASE Execute
  <2>1. ReqOK'
    <3>1. PICK out \in {"succeeded", "retryable_failed", "failed"} : Post(out)
      BY <1>23 DEF Execute
    <3> QED
      BY <3>1 DEF ReqOK, RequestPCs, Post, Outcomes
  <2>2. DevOK'
    BY <1>23 DEF Execute, DevOK, Outcomes
  <2>3. LocalOK'
    BY <1>23 DEF Execute, LocalOK, Kinds
  <2>4. SpentOK'
    BY <1>23 DEF Execute, SpentOK, Spend
  <2> QED
    BY <1>23, <2>1, <2>2, <2>3, <2>4
       DEF Execute, device, RowOK, StreamOK, FactOK
<1>24. CASE Confirmed
  <2>1. DevOK'
    BY <1>24 DEF Confirmed, DevOK
  <2> QED
    BY <1>24, <2>1
       DEF Confirmed, device, RowOK, StreamOK, ReqOK, LocalOK, SpentOK, FactOK
<1>25. CASE NotConfirmed
  <2>1. DevOK'
    BY <1>25 DEF NotConfirmed, DevOK, Leave
  <2> QED
    BY <1>25, <2>1
       DEF NotConfirmed, device, RowOK, StreamOK, ReqOK, LocalOK, SpentOK,
           FactOK
<1>26. CASE StreamBroken
  <2>1. DevOK'
    BY <1>26 DEF StreamBroken, DevOK, Leave
  <2> QED
    BY <1>26, <2>1
       DEF StreamBroken, device, RowOK, StreamOK, ReqOK, LocalOK, SpentOK,
           FactOK
<1>27. CASE TriggerRead
  <2>1. ReqOK'
    BY <1>27 DEF TriggerRead, ReqOK, RequestPCs, FactOK, Requests, Trigger
  <2> QED
    BY <1>27, <2>1
       DEF TriggerRead, device, RowOK, StreamOK, DevOK, LocalOK, SpentOK,
           FactOK
<1>28. CASE RecoverStaleProcessing
  <2>1. RowOK'
    BY <1>28
       DEF RecoverStaleProcessing, RowOK, Rows, Unfinished, Terminal, NoRow
  <2>2. ReqOK'
    BY <1>28 DEF RecoverStaleProcessing, ReqOK, RequestPCs, Requests, Worker
  <2>3. SpentOK'
    BY <1>28 DEF RecoverStaleProcessing, SpentOK, Spend
  <2> QED
    BY <1>28, <2>1, <2>2, <2>3
       DEF RecoverStaleProcessing, device, StreamOK, DevOK, LocalOK, FactOK
<1>29. CASE VoiceRead
  <2>1. ReqOK'
    BY <1>29 DEF VoiceRead, ReqOK, RequestPCs, RowOK, LocalOK, Requests, Voice
  <2>2. SpentOK'
    BY <1>29 DEF VoiceRead, SpentOK, Spend
  <2> QED
    BY <1>29, <2>1, <2>2
       DEF VoiceRead, device, RowOK, StreamOK, DevOK, LocalOK, FactOK
<1>30. ASSUME NEW k \in Kinds, VoiceAction(k) PROVE Typed'
  <2>1. LocalOK'
    BY <1>30 DEF VoiceAction, LocalOK
  <2> QED
    BY <1>30, <2>1
       DEF VoiceAction, device, RowOK, StreamOK, ReqOK, DevOK, SpentOK, FactOK
<1>31. CASE AnswerLost
  <2>1. ReqOK'
    BY <1>31 DEF AnswerLost, ReqOK, RequestPCs
  <2>2. DevOK'
    BY <1>31 DEF AnswerLost, DevOK, Leave
  <2>3. SpentOK'
    BY <1>31 DEF AnswerLost, SpentOK, Spend
  <2> QED
    BY <1>31, <2>1, <2>2, <2>3
       DEF AnswerLost, device, RowOK, StreamOK, LocalOK, FactOK
<1>32. CASE ConnectionLost
  <2>1. DevOK'
    BY <1>32 DEF ConnectionLost, DevOK, Leave
  <2>2. SpentOK'
    BY <1>32 DEF ConnectionLost, SpentOK, Spend
  <2> QED
    BY <1>32, <2>1, <2>2
       DEF ConnectionLost, device, RowOK, StreamOK, ReqOK, LocalOK, FactOK
<1>33. CASE Expire
  BY <1>33
     DEF Expire, device, RowOK, StreamOK, ReqOK, DevOK, LocalOK, SpentOK,
         FactOK
<1>34. CASE Restart
  <2>1. StreamOK'
    BY <1>34 DEF Restart, StreamOK
  <2>2. ReqOK'
    BY <1>34 DEF Restart, ReqOK, RequestPCs
  <2>3. SpentOK'
    <3>1. spent' = [spent EXCEPT !["crashes"] = @ + 1]
      BY <1>34 DEF Restart, Spend
    <3> QED
      BY <3>1 DEF SpentOK
  <2> QED
    BY <1>34, <2>1, <2>2, <2>3
       DEF Restart, device, RowOK, DevOK, LocalOK, FactOK
<1>35. CASE DeviceRestart
  <2>1. DevOK'
    BY <1>35 DEF DeviceRestart, DevOK
  <2> QED
    BY <1>35, <2>1
       DEF DeviceRestart, device, RowOK, StreamOK, ReqOK, LocalOK, SpentOK,
           FactOK
<1>36. CASE UNCHANGED vars
  BY <1>36
     DEF vars, device, RowOK, StreamOK, ReqOK, DevOK, LocalOK, SpentOK, FactOK
<1>37. QED
  BY <1>1, <1>2, <1>3, <1>4, <1>5, <1>6, <1>7, <1>8, <1>9, <1>10, <1>11, <1>12,
     <1>13, <1>14, <1>15, <1>16, <1>17, <1>18, <1>19, <1>20, <1>21, <1>22,
     <1>23, <1>24, <1>25, <1>26, <1>27, <1>28, <1>29, <1>30, <1>31, <1>32,
     <1>33, <1>34, <1>35, <1>36 DEF Next, RequestStep, StreamStep, DeviceStep

\* No step makes the row, or anything a later step may write into it,
\* contradict what the device did.
LEMMA TruthStep ==
    ASSUME IInv, [Next]_vars
    PROVE  Inputs' /\ Truth'
<1> USE Defaults, ActionAssumption DEF IInv, Typed, Inputs, Truth, Agrees
<1>1. ASSUME NEW r \in Requests, DispatchRead(r) PROVE Inputs' /\ Truth'
  BY <1>1
     DEF DispatchRead, device, ReqOK, Requests, Conns, Trigger, Voice, Worker
<1>2. ASSUME NEW r \in Requests, DispatchWrite(r) PROVE Inputs' /\ Truth'
  BY <1>2
     DEF DispatchWrite, device, ReqOK, Requests, Conns, Trigger, Voice, Worker,
         RowOK, Rows
<1>3. ASSUME NEW r \in Requests, Publish(r) PROVE Inputs' /\ Truth'
  BY <1>3
     DEF Publish, device, After, ReqOK, Requests, Conns, Trigger, Voice, Worker
<1>4. ASSUME NEW r \in Requests, Close(r) PROVE Inputs' /\ Truth'
  BY <1>4
     DEF Close, device, After, ReqOK, Requests, Conns, Trigger, Voice, Worker
<1>5. CASE TriggerInsert
  BY <1>5
     DEF TriggerInsert, device, Decided, NoRow, Kinds, ReqOK, Requests, Conns,
         Trigger, Voice, Worker, RowOK
<1>6. ASSUME NEW c \in Conns, ResultRead(c) PROVE Inputs' /\ Truth'
  BY <1>6
     DEF ResultRead, device, AfterResult, ReqOK, Requests, Conns, Trigger,
         Voice, Worker
<1>7. ASSUME NEW c \in Conns, ResultWrite(c) PROVE Inputs' /\ Truth'
  BY <1>7
     DEF ResultWrite, device, AfterResult, ReqOK, Requests, Conns, Trigger,
         Voice, Worker, RowOK
<1>8. CASE ExpireRead
  BY <1>8
     DEF ExpireRead, device, ReqOK, Requests, Conns, Trigger, Voice, Worker
<1>9. CASE ExpireWrite
  BY <1>9
     DEF ExpireWrite, device, ReqOK, Requests, Conns, Trigger, Voice, Worker,
         RowOK, Rows
<1>10. CASE VoiceWrite
  BY <1>10
     DEF VoiceWrite, device, Decided, Kinds, ReqOK, Requests, Conns, Trigger,
         Voice, Worker, RowOK
<1>11. ASSUME NEW c \in Conns, ReplayRead(c) PROVE Inputs' /\ Truth'
  BY <1>11 DEF ReplayRead, device
<1>12. ASSUME NEW c \in Conns, ReplayWrite(c) PROVE Inputs' /\ Truth'
  BY <1>12 DEF ReplayWrite, device, RowOK, StreamOK, Rows
<1>13. ASSUME NEW c \in Conns, SendFrame(c) PROVE Inputs' /\ Truth'
  BY <1>13 DEF SendFrame, device
<1>14. ASSUME NEW c \in Conns, MarkRead(c) PROVE Inputs' /\ Truth'
  BY <1>14 DEF MarkRead, device
<1>15. ASSUME NEW c \in Conns, MarkWrite(c) PROVE Inputs' /\ Truth'
  BY <1>15 DEF MarkWrite, device, RowOK, StreamOK, Rows
<1>16. ASSUME NEW c \in Conns, NextCommand(c) PROVE Inputs' /\ Truth'
  BY <1>16 DEF NextCommand, device
<1>17. ASSUME NEW c \in Conns, SubscriptionExpires(c) PROVE Inputs' /\ Truth'
  BY <1>17 DEF SubscriptionExpires, device
<1>18. ASSUME NEW c \in Conns, Connect(c) PROVE Inputs' /\ Truth'
  BY <1>18 DEF Connect, device, DevOK
<1>19. CASE Receive
  BY <1>19 DEF Receive, device, DevOK
<1>20. CASE RunEnds
  BY <1>20 DEF RunEnds, device, DevOK
<1>21. CASE HandleExpired
  BY <1>21
     DEF HandleExpired, device, Post, Outcomes, ReqOK, Requests, Conns,
         Trigger, Voice, Worker, DevOK
<1>22. CASE HandleCached
  BY <1>22
     DEF HandleCached, device, Post, ReqOK, Requests, Conns, Trigger, Voice,
         Worker, DevOK
<1>23. CASE Execute
  BY <1>23
     DEF Execute, device, Post, Outcomes, Kinds, Spend, ReqOK, Requests, Conns,
         Trigger, Voice, Worker, DevOK, LocalOK, SpentOK
<1>24. CASE Confirmed
  BY <1>24 DEF Confirmed, device, DevOK
<1>25. CASE NotConfirmed
  BY <1>25 DEF NotConfirmed, device, Leave, DevOK
<1>26. CASE StreamBroken
  BY <1>26 DEF StreamBroken, device, Leave, DevOK
<1>27. CASE TriggerRead
  BY <1>27
     DEF TriggerRead, device, FactOK, ReqOK, Requests, Conns, Trigger, Voice,
         Worker
<1>28. CASE RecoverStaleProcessing
  BY <1>28
     DEF RecoverStaleProcessing, device, Spend, ReqOK, Requests, Conns,
         Trigger, Voice, Worker, RowOK, SpentOK, Rows
<1>29. CASE VoiceRead
  BY <1>29
     DEF VoiceRead, device, Spend, Kinds, ReqOK, Requests, Conns, Trigger,
         Voice, Worker, SpentOK
<1>30. ASSUME NEW k \in Kinds, VoiceAction(k) PROVE Inputs' /\ Truth'
  BY <1>30 DEF VoiceAction, device, Kinds, LocalOK
<1>31. CASE AnswerLost
  BY <1>31
     DEF AnswerLost, device, Leave, Spend, ReqOK, Requests, Conns, Trigger,
         Voice, Worker, DevOK, SpentOK
<1>32. CASE ConnectionLost
  BY <1>32 DEF ConnectionLost, device, Leave, Spend, DevOK, SpentOK
<1>33. CASE Expire
  BY <1>33 DEF Expire, device
<1>34. CASE Restart
  BY <1>34
     DEF Restart, device, Spend, ReqOK, Requests, Conns, Trigger, Voice,
         Worker, SpentOK
<1>35. CASE DeviceRestart
  BY <1>35 DEF DeviceRestart, device, DevOK
<1>36. CASE UNCHANGED vars
  BY <1>36 DEF vars, device
<1>37. QED
  BY <1>1, <1>2, <1>3, <1>4, <1>5, <1>6, <1>7, <1>8, <1>9, <1>10, <1>11, <1>12,
     <1>13, <1>14, <1>15, <1>16, <1>17, <1>18, <1>19, <1>20, <1>21, <1>22,
     <1>23, <1>24, <1>25, <1>26, <1>27, <1>28, <1>29, <1>30, <1>31, <1>32,
     <1>33, <1>34, <1>35, <1>36 DEF Next, RequestStep, StreamStep, DeviceStep

\* A row of which nothing is known, an idle gateway, a device that has done
\* nothing.
LEMMA InitInv == Init => IInv
<1> SUFFICES ASSUME Init PROVE IInv
  OBVIOUS
<1> USE Defaults, ActionAssumption
<1>1. Typed
  <2>1. RowOK /\ FactOK /\ LocalOK /\ SpentOK
    BY DEF Init, RowOK, FactOK, LocalOK, SpentOK
  <2>2. StreamOK
    BY DEF Init, StreamOK
  <2>3. ReqOK
    BY DEF Init, ReqOK
  <2>4. DevOK
    BY DEF Init, DevOK
  <2> QED
    BY <2>1, <2>2, <2>3, <2>4 DEF Typed
<1>2. Inputs /\ Truth
  BY DEF Init, Inputs, Truth, Agrees, Requests, Conns, Trigger, Voice, NoRow
<1> QED
  BY <1>1, <1>2 DEF IInv

\* Everything that can decide the row's status agrees with the device in every
\* reachable state (triggerPrepared, recordResult, recordDeviceActionStatus,
\* expireDue, markProcessing, HandleCommand).
THEOREM Inductive == Spec => []IInv
<1>1. IInv /\ [Next]_vars => IInv'
  BY TypedStep, TruthStep DEF IInv
<1> QED
  BY InitInv, <1>1, PTL DEF Spec

\* The gateway never calls an action succeeded that the device did not do, nor
\* failed one that neither failed nor lost to the user's other answer, however
\* often the command is replayed, the connection or the answer lost, the
\* gateway restarted, and whichever request overwrites the row last.
THEOREM GatewayTellsTheTruth == Spec => []TellsTheTruth
<1>1. IInv => TellsTheTruth
  BY DEF IInv, Truth, Agrees, TellsTheTruth
<1> QED
  BY Inductive, <1>1, PTL

-----------------------------------------------------------------------------
(* Nothing is left unsent.                                                 *)

NetOK == /\ sub \in [Conns -> [open : BOOLEAN, queue : Nat]]
         /\ wire \in [Conns -> 0 .. 1]

\* The device speaks on a connection it has opened; those it has not opened yet
\* are untouched.
ConnInv ==
    /\ dev.pc \in {"read", "handle", "report"} => dev.conn \in Conns
    /\ \A c \in Conns : c > dev.conn =>
         stream[c].pc = "idle" /\ ~sub[c].open /\ wire[c] = 0 /\ req[c].pc = "idle"

Sent(c) == stream[c].seen /\ stream[c].pc \in {"mark", "mark write", "wait", "ended", "cut"}

Handles(c) == dev.conn = c /\ dev.pc = "handle"

\* A connection carries one frame: it is on the wire, or in the device's hands, or
\* its result has been posted.
Frame(c) ==
    /\ wire[c] = 1 \/ Handles(c) \/ req[c].pc # "idle" => Sent(c)
    /\ req[c].pc # "idle" => wire[c] = 0 /\ ~Handles(c)
    /\ Handles(c) => wire[c] = 0

\* A stream with an open subscription is under way; one that has not sent yet is
\* before its replay, waits, or is over.
Opened(c) ==
    /\ sub[c].open => stream[c].pc \notin {"idle", "cut"}
    /\ sub[c].open /\ stream[c].pc = "ended" => stream[c].seen
    /\ ~stream[c].seen => stream[c].pc \in {"idle", "replay", "wait", "ended", "cut"}

\* Before the card is used nothing is on its way in either direction.
NoneInv ==
    /\ req[Trigger].pc = "insert" => row.status = "none"
    /\ row.status = "none" =>
         /\ \A c \in Conns :
              /\ stream[c].pc \notin {"replay write", "send", "mark", "mark write"}
              /\ wire[c] = 0 /\ sub[c].queue = 0 /\ req[c].pc = "idle"
         /\ dev.pc # "handle"
         /\ req[Worker].pc = "idle" /\ req[Trigger].pc \in {"idle", "insert"}
         /\ req[Voice].pc \in {"idle", "write"}
         /\ req[Voice].pc = "write" => req[Voice].copy.status = "none"

\* A request that will publish the command, or close its streams.
Going == {"dispatch", "mark dispatched", "publish", "close"}
Coming(pcs) == \E r \in Requests : req[r].pc \in pcs

\* A stream writes an old copy over a settled action only when the streams are
\* closed or about to be.
StaleInv ==
    row.status \notin Unfinished =>
        \/ over \/ closed \/ Coming({"close"})
        \/ \A c \in Conns : stream[c].pc \notin {"replay write", "mark write"}

\* A stream that waits and has not sent an unfinished action will have it in its
\* queue, or be closed.
Promise(c) ==
    sub[c].open /\ stream[c].pc = "wait" /\ ~stream[c].seen /\ row.status \in Unfinished
        => over \/ closed \/ sub[c].queue > 0 \/ Coming(Going)

SentInv ==
    /\ NetOK /\ ConnInv /\ NoneInv /\ StaleInv
    /\ \A c \in Conns : Frame(c) /\ Opened(c) /\ Promise(c)

\* The requests are told apart.
LEMMA RequestFacts ==
    /\ Conns \subseteq Requests /\ Conns \subseteq Nat \ {0}
    /\ Trigger \in Requests /\ Worker \in Requests /\ Voice \in Requests
    /\ Trigger \notin Conns /\ Worker \notin Conns /\ Voice \notin Conns
    /\ Trigger # Worker /\ Trigger # Voice /\ Worker # Voice
BY ActionAssumption DEF Requests, Conns, Trigger, Worker, Voice

\* A request r moves to x; the streams and the device do not move.  The row is
\* settled only by a request that closes next, and is unfinished afterwards only
\* if it was before or the request publishes next.
LEMMA RequestMoves ==
    ASSUME Typed, SentInv, NEW r \in Requests, NEW x,
           req' = [req EXCEPT ![r] = x],
           UNCHANGED <<over, closed, sub, stream, wire, dev>>,
           r \in Conns => req[r].pc # "idle",
           req[r].pc \notin {"publish", "close"},
           x.pc = "insert" => r # Trigger \/ row'.status = "none",
           row'.status # "none" => r = Trigger \/ row.status # "none",
           row'.status = "none" =>
             \/ r = Trigger /\ x.pc \in {"idle", "insert"}
             \/ r = Voice /\ x.pc \in {"idle", "write"} /\ x.copy.status = "none",
           row'.status = "none" => row.status = "none",
           row'.status \notin Unfinished => x.pc = "close" \/ row.status \notin Unfinished,
           row'.status \in Unfinished =>
             \/ x.pc \in Going
             \/ row.status \in Unfinished /\ req[r].pc \notin Going
    PROVE  SentInv'
<1>1. /\ NetOK /\ ConnInv /\ NoneInv /\ StaleInv
      /\ \A c \in Conns : Frame(c) /\ Opened(c) /\ Promise(c)
  BY DEF SentInv
<1>2. /\ req'[r] = x
      /\ \A q \in Requests \ {r} : req'[q] = req[q]
  BY DEF Typed, ReqOK
<1>3. NetOK'
  BY <1>1 DEF NetOK
<1>4. ConnInv'
  BY <1>1, <1>2, RequestFacts DEF ConnInv
<1>5. NoneInv'
  BY <1>1, <1>2, RequestFacts DEF NoneInv
<1>6. Coming({"close"}) => Coming({"close"})'
  BY <1>2 DEF Coming
<1>7. x.pc = "close" => Coming({"close"})'
  BY <1>2 DEF Coming
<1>8. StaleInv'
  BY <1>1, <1>6, <1>7 DEF StaleInv
<1>9. x.pc \in Going => Coming(Going)'
  BY <1>2 DEF Coming, Going
<1>10. req[r].pc \notin Going /\ Coming(Going) => Coming(Going)'
  BY <1>2 DEF Coming, Going
<1>11. ASSUME NEW c \in Conns PROVE (Frame(c) /\ Opened(c) /\ Promise(c))'
  <2>1. req'[c] = req[c] \/ req[c].pc # "idle"
    BY <1>2, RequestFacts
  <2>2. Frame(c)'
    BY <1>1, <2>1 DEF Frame, Handles, Sent
  <2>3. Opened(c)'
    BY <1>1 DEF Opened
  <2>4. Promise(c)'
    BY <1>1, <1>9, <1>10 DEF Promise
  <2> QED
    BY <2>2, <2>3, <2>4
<1> QED
  BY <1>3, <1>4, <1>5, <1>8, <1>11 DEF SentInv

\* While there is no row no request dispatches, marks, posts or closes.
LEMMA NoneFacts ==
    ASSUME Typed, SentInv, NEW r \in Requests,
           req[r].pc \notin {"idle", "insert"},
           r = Voice => req[r].copy.status # "none"
    PROVE  row.status # "none"
<1>1. r \in {Trigger, Worker, Voice} \cup Conns
  BY DEF Requests
<1> QED
  BY <1>1 DEF SentInv, NoneInv

\* The requests of the card, of a result, of a voice action and of the worker.
LEMMA RequestSteps ==
    ASSUME Typed, Inputs, SentInv,
           \/ \E r \in Requests : DispatchRead(r) \/ DispatchWrite(r)
           \/ TriggerRead \/ TriggerInsert
           \/ \E c \in Conns : ResultRead(c) \/ ResultWrite(c)
           \/ ExpireRead \/ ExpireWrite \/ RecoverStaleProcessing
           \/ VoiceRead \/ VoiceWrite
    PROVE  SentInv'
<1> USE RequestFacts
<1>1. row \in Rows /\ \A r \in Requests : req[r].copy \in Rows
  BY DEF Typed, RowOK, ReqOK
<1>2. /\ \A pc : [Rest EXCEPT !.pc = pc].pc = pc
      /\ \A pc, copy : [Rest EXCEPT !.pc = pc, !.copy = copy].pc = pc
      /\ \A pc, i : [Rest EXCEPT !.pc = pc, !.input = i].pc = pc
      /\ \A r \in Requests : \A pc : [req[r] EXCEPT !.pc = pc].pc = pc
      /\ \A pc, i : [Rest EXCEPT !.pc = pc, !.input = i].copy.status = "none"
      /\ Rest.pc = "idle" /\ Rest.copy.status = "none"
  BY DEF Rest, NoRow, Typed, ReqOK
<1>3. ASSUME NEW r \in Requests, DispatchRead(r) PROVE SentInv'
  <2>1. row.status # "none"
    BY <1>3, NoneFacts DEF DispatchRead, SentInv, NoneInv
  <2>2. PICK x : req' = [req EXCEPT ![r] = x] /\ x.pc \in {"publish", "mark dispatched"}
    <3> DEFINE x == IF row.status = "dispatched" THEN [Rest EXCEPT !.pc = "publish"]
                    ELSE [Rest EXCEPT !.pc = "mark dispatched", !.copy = row]
    <3>1. req' = [req EXCEPT ![r] = x]
      BY <1>3 DEF DispatchRead
    <3>2. x.pc \in {"publish", "mark dispatched"}
      BY <1>2
    <3> QED
      BY <3>1, <3>2
  <2>3. /\ req[r].pc = "dispatch" /\ row' = row
        /\ UNCHANGED <<over, closed, sub, stream, wire, dev>>
    BY <1>3 DEF DispatchRead, device
  <2> QED
    BY <2>1, <2>2, <2>3, RequestMoves DEF Going
<1>4. ASSUME NEW r \in Requests, DispatchWrite(r) PROVE SentInv'
  <2>1. row.status # "none"
    BY <1>4, NoneFacts DEF DispatchWrite, SentInv, NoneInv
  <2>2. PICK x : req' = [req EXCEPT ![r] = x] /\ x.pc = "publish"
    BY <1>2, <1>4 DEF DispatchWrite
  <2>3. /\ req[r].pc = "mark dispatched" /\ row'.status = "dispatched"
        /\ UNCHANGED <<over, closed, sub, stream, wire, dev>>
    BY <1>1, <1>4 DEF DispatchWrite, device, Rows
  <2> QED
    BY <2>1, <2>2, <2>3, RequestMoves DEF Going, Unfinished
<1>5. CASE TriggerRead
  <2>1. PICK x : req' = [req EXCEPT ![Trigger] = x] /\ x.pc = "insert"
    <3> DEFINE x == [Rest EXCEPT !.pc = "insert", !.input = fact]
    <3>1. req' = [req EXCEPT ![Trigger] = x]
      BY <1>5 DEF TriggerRead
    <3>2. x.pc = "insert"
      BY <1>2
    <3> QED
      BY <3>1, <3>2
  <2>2. /\ req[Trigger].pc = "idle" /\ row' = row /\ row.status = "none"
        /\ UNCHANGED <<over, closed, sub, stream, wire, dev>>
    BY <1>5 DEF TriggerRead, device
  <2> QED
    BY <2>1, <2>2, RequestMoves DEF Unfinished
<1>6. CASE TriggerInsert
  <2> DEFINE pc == IF req[Trigger].input = "none" THEN "dispatch" ELSE "idle"
             x == [req[Trigger] EXCEPT !.pc = pc]
  <2>1. req' = [req EXCEPT ![Trigger] = x] /\ x.pc = pc
    BY <1>2, <1>6 DEF TriggerInsert
  <2>2. /\ req[Trigger].pc = "insert" /\ row.status = "none"
        /\ UNCHANGED <<over, closed, sub, stream, wire, dev>>
    BY <1>6 DEF TriggerInsert, device, SentInv, NoneInv
  <2> HIDE DEF x
  <2>3. CASE req[Trigger].input = "none"
    <3>1. row'.status = "pending"
      BY <1>6, <2>3 DEF TriggerInsert, NoRow
    <3> QED
      BY <2>1, <2>2, <2>3, <3>1, RequestMoves DEF Unfinished, Going
  <2>4. CASE req[Trigger].input # "none"
    <3>1. row'.status \in {"succeeded", "failed"}
      BY <1>6, <2>4 DEF TriggerInsert, Decided
    <3> QED
      BY <2>1, <2>2, <2>4, <3>1, RequestMoves DEF Unfinished
  <2> QED
    BY <2>3, <2>4
<1>7. ASSUME NEW c \in Conns, ResultRead(c) PROVE SentInv'
  <2>1. c \in Requests /\ c # Voice /\ c # Trigger
    OBVIOUS
  <2>2. row.status # "none"
    BY <1>7, <2>1, NoneFacts DEF ResultRead
  <2>3. PICK pc \in {"write", "refused", "dispatch", "close"} : req' = [req EXCEPT ![c].pc = pc]
    BY <1>7 DEF ResultRead, AfterResult
  <2> DEFINE x == [req[c] EXCEPT !.pc = pc]
  <2>4. req' = [req EXCEPT ![c] = x] /\ x.pc = pc
    BY <1>2, <2>1, <2>3
  <2>5. /\ req[c].pc = "posted" /\ row' = row
        /\ UNCHANGED <<over, closed, sub, stream, wire, dev>>
    BY <1>7 DEF ResultRead, device
  <2> HIDE DEF x
  <2> QED
    BY <2>1, <2>2, <2>3, <2>4, <2>5, RequestMoves DEF Going
<1>8. ASSUME NEW c \in Conns, ResultWrite(c) PROVE SentInv'
  <2> DEFINE out == req[c].input
             x == [req[c] EXCEPT !.pc = AfterResult(out)]
  <2>1. c \in Requests /\ c # Voice /\ c # Trigger
    OBVIOUS
  <2>2. row.status # "none"
    BY <1>8, <2>1, NoneFacts DEF ResultWrite
  <2>3. req' = [req EXCEPT ![c] = x] /\ x.pc = AfterResult(out)
    BY <1>2, <1>8, <2>1 DEF ResultWrite
  <2>4. /\ req[c].pc = "write" /\ out \in Outcomes
        /\ UNCHANGED <<over, closed, sub, stream, wire, dev>>
    BY <1>8 DEF ResultWrite, device, Inputs
  <2>5. row'.status = IF out = "retryable_failed" THEN "pending" ELSE out
    BY <1>8 DEF ResultWrite
  <2>6. \/ x.pc = "dispatch" /\ row'.status = "pending"
        \/ x.pc = "close" /\ row'.status \in {"succeeded", "failed", "expired"}
    BY <2>3, <2>4, <2>5 DEF AfterResult, Outcomes
  <2> HIDE DEF x
  <2> QED
    BY <2>1, <2>2, <2>3, <2>4, <2>6, RequestMoves DEF Going, Unfinished
<1>9. CASE ExpireRead
  <2>1. PICK x : req' = [req EXCEPT ![Worker] = x] /\ x.pc = "expire"
    <3> DEFINE x == [Rest EXCEPT !.pc = "expire", !.copy = row]
    <3>1. req' = [req EXCEPT ![Worker] = x]
      BY <1>9 DEF ExpireRead
    <3>2. x.pc = "expire"
      BY <1>2
    <3> QED
      BY <3>1, <3>2
  <2>2. /\ req[Worker].pc = "idle" /\ row' = row /\ row.status \in Unfinished
        /\ UNCHANGED <<over, closed, sub, stream, wire, dev>>
    BY <1>9 DEF ExpireRead, device
  <2> QED
    BY <2>1, <2>2, RequestMoves DEF Unfinished, Going
<1>10. CASE ExpireWrite
  <2>1. row.status # "none"
    BY <1>10, NoneFacts DEF ExpireWrite
  <2>2. PICK x : req' = [req EXCEPT ![Worker] = x] /\ x.pc = "close"
    BY <1>2, <1>10 DEF ExpireWrite
  <2>3. /\ req[Worker].pc = "expire" /\ row'.status = "expired"
        /\ UNCHANGED <<over, closed, sub, stream, wire, dev>>
    BY <1>1, <1>10 DEF ExpireWrite, device, Rows
  <2> QED
    BY <2>1, <2>2, <2>3, RequestMoves DEF Unfinished
<1>11. CASE RecoverStaleProcessing
  <2>1. req' = [req EXCEPT ![Worker] = [req[Worker] EXCEPT !.pc = "dispatch"]]
    BY <1>11 DEF RecoverStaleProcessing
  <2>2. /\ req[Worker].pc = "idle" /\ row.status = "processing" /\ row'.status = "pending"
        /\ UNCHANGED <<over, closed, sub, stream, wire, dev>>
    BY <1>1, <1>11 DEF RecoverStaleProcessing, device, Rows
  <2> QED
    BY <1>2, <2>1, <2>2, RequestMoves DEF Unfinished, Going
<1>12. CASE VoiceRead
  <2> DEFINE x == [pc |-> "write", copy |-> IF over THEN NoRow ELSE row, input |-> local.kind]
  <2>1. req' = [req EXCEPT ![Voice] = x]
    BY <1>12 DEF VoiceRead
  <2>2. x.pc = "write" /\ (row.status = "none" => x.copy.status = "none")
    BY DEF NoRow
  <2>3. /\ req[Voice].pc = "idle" /\ row' = row
        /\ UNCHANGED <<over, closed, sub, stream, wire, dev>>
    BY <1>12 DEF VoiceRead, device
  <2> HIDE DEF x
  <2> QED
    BY <2>1, <2>2, <2>3, RequestMoves DEF Going
<1>13. CASE VoiceWrite
  <2>1. req[Voice].pc = "write" /\ UNCHANGED <<over, closed, sub, stream, wire, dev>>
    BY <1>13 DEF VoiceWrite, device
  <2>2. CASE req[Voice].copy.status \in Unfinished
    <3>1. row.status # "none"
      BY <2>1, <2>2, NoneFacts DEF Unfinished
    <3>2. PICK x : req' = [req EXCEPT ![Voice] = x] /\ x.pc = "close"
      BY <1>2, <1>13, <2>2 DEF VoiceWrite
    <3>3. row'.status \in {"succeeded", "failed"}
      BY <1>13, <2>2 DEF VoiceWrite, Decided
    <3> QED
      BY <2>1, <3>1, <3>2, <3>3, RequestMoves DEF Unfinished
  <2>3. CASE req[Voice].copy.status \notin Unfinished
    <3>1. req' = [req EXCEPT ![Voice] = Rest] /\ row' = row
      BY <1>13, <2>3 DEF VoiceWrite
    <3> QED
      BY <1>2, <2>1, <3>1, RequestMoves DEF Going
  <2> QED
    BY <2>2, <2>3
<1> QED
  BY <1>3, <1>4, <1>5, <1>6, <1>7, <1>8, <1>9, <1>10, <1>11, <1>12, <1>13

\* A subscription that stays open gets the command into its queue.
LEMMA PublishStep ==
    ASSUME Typed, SentInv, NEW r \in Requests, Publish(r)
    PROVE  SentInv'
<1> USE RequestFacts
<1>1. /\ NetOK /\ ConnInv /\ NoneInv /\ StaleInv
      /\ \A c \in Conns : Frame(c) /\ Opened(c) /\ Promise(c)
  BY DEF SentInv
<1>2. req[r].pc = "publish" /\ UNCHANGED <<over, row, closed, stream, wire, dev>>
  BY DEF Publish, device
<1>3. /\ req'[r].pc \in {"idle", "accepted"} /\ (r \notin Conns => req'[r].pc = "idle")
      /\ \A q \in Requests \ {r} : req'[q] = req[q]
  BY DEF Publish, Typed, ReqOK, After, Rest
<1>4. row.status # "none"
  BY <1>2, NoneFacts DEF SentInv, NoneInv
<1>5. /\ sub' \in [Conns -> [open : BOOLEAN, queue : Nat]]
      /\ \A c \in Conns : /\ sub'[c].open => sub[c].open
                          /\ sub'[c].open /\ ~over /\ ~closed => sub'[c].queue > 0
  <2> DEFINE new(c) == IF sub[c].open /\ ~over /\ ~closed THEN Push(c) ELSE sub[c]
  <2>1. ASSUME NEW c \in Conns
        PROVE  /\ new(c) \in [open : BOOLEAN, queue : Nat]
               /\ new(c).open => sub[c].open
               /\ new(c).open /\ ~over /\ ~closed => new(c).queue > 0
    <3>1. sub[c] \in [open : BOOLEAN, queue : Nat]
      BY <1>1 DEF NetOK
    <3>2. NoSub \in [open : BOOLEAN, queue : Nat] /\ ~NoSub.open
      BY DEF NoSub
    <3>3. /\ [sub[c] EXCEPT !.queue = @ + 1] \in [open : BOOLEAN, queue : Nat]
          /\ [sub[c] EXCEPT !.queue = @ + 1].open = sub[c].open
          /\ [sub[c] EXCEPT !.queue = @ + 1].queue > 0
      BY <3>1
    <3> QED
      BY <3>1, <3>2, <3>3 DEF Push
  <2>2. sub' = [c \in Conns |-> new(c)]
    BY DEF Publish, HubPublish
  <2> HIDE DEF new
  <2> QED
    BY <2>1, <2>2
<1>6. ConnInv'
  BY <1>1, <1>2, <1>3, <1>5 DEF ConnInv
<1>7. NoneInv'
  BY <1>1, <1>2, <1>3, <1>4 DEF NoneInv
<1>8. Coming({"close"}) => Coming({"close"})'
  BY <1>2, <1>3 DEF Coming
<1>9. StaleInv'
  BY <1>1, <1>2, <1>8 DEF StaleInv
<1>10. ASSUME NEW c \in Conns PROVE (Frame(c) /\ Opened(c) /\ Promise(c))'
  <2>1. req'[c] = req[c] \/ req[c].pc # "idle"
    BY <1>2, <1>3
  <2>2. Frame(c)'
    BY <1>1, <1>2, <2>1 DEF Frame, Handles, Sent
  <2>3. Opened(c)'
    BY <1>1, <1>2, <1>5 DEF Opened
  <2>4. Promise(c)'
    BY <1>2, <1>5 DEF Promise
  <2> QED
    BY <2>2, <2>3, <2>4
<1>11. NetOK'
  BY <1>1, <1>2, <1>5 DEF NetOK
<1> QED
  BY <1>6, <1>7, <1>9, <1>10, <1>11 DEF SentInv

\* Closing ends every subscription.
LEMMA CloseStep ==
    ASSUME Typed, SentInv, NEW r \in Requests, Close(r)
    PROVE  SentInv'
<1> USE RequestFacts
<1>1. /\ NetOK /\ ConnInv /\ NoneInv
      /\ \A c \in Conns : Frame(c) /\ Opened(c)
  BY DEF SentInv
<1>2. req[r].pc = "close" /\ closed' /\ UNCHANGED <<over, row, stream, wire, dev>>
  BY DEF Close, HubClose, device
<1>3. /\ req'[r].pc \in {"idle", "accepted"} /\ (r \notin Conns => req'[r].pc = "idle")
      /\ \A q \in Requests \ {r} : req'[q] = req[q]
  BY DEF Close, Typed, ReqOK, After, Rest
<1>4. row.status # "none"
  BY <1>2, NoneFacts DEF SentInv, NoneInv
<1>5. sub' = [c \in Conns |-> NoSub] /\ ~NoSub.open
      /\ NoSub \in [open : BOOLEAN, queue : Nat]
  BY DEF Close, HubClose, NoSub
<1>6. NetOK' /\ \A c \in Conns : ~sub'[c].open
  BY <1>1, <1>2, <1>5 DEF NetOK
<1>7. ConnInv'
  BY <1>1, <1>2, <1>3, <1>6 DEF ConnInv
<1>8. NoneInv'
  BY <1>1, <1>2, <1>3, <1>4 DEF NoneInv
<1>9. StaleInv'
  BY <1>2 DEF StaleInv
<1>10. ASSUME NEW c \in Conns PROVE (Frame(c) /\ Opened(c) /\ Promise(c))'
  <2>1. req'[c] = req[c] \/ req[c].pc # "idle"
    BY <1>2, <1>3
  <2>2. Frame(c)'
    BY <1>1, <1>2, <2>1 DEF Frame, Handles, Sent
  <2>3. Opened(c)'
    BY <1>1, <1>2, <1>6 DEF Opened
  <2>4. Promise(c)'
    BY <1>6 DEF Promise
  <2> QED
    BY <2>2, <2>3, <2>4
<1> QED
  BY <1>6, <1>7, <1>8, <1>9, <1>10 DEF SentInv

\* The stream of connection c moves to x, the rest of the gateway does not.  What
\* it writes into the row leaves the action unfinished.
Advance(c, x) ==
    /\ NetOK'
    /\ stream' = [stream EXCEPT ![c] = x]
    /\ UNCHANGED <<over, closed, req, dev>>
    /\ stream[c].pc \notin {"idle", "ended", "cut"}
    /\ \A d \in Conns \ {c} : sub'[d] = sub[d] /\ wire'[d] = wire[d]
    /\ sub'[c].open => sub[c].open
    /\ sub'[c] # sub[c] => row.status # "none" /\ x.seen
    /\ wire'[c] # wire[c] => stream[c].pc = "send" /\ x.pc = "mark"
    /\ x.pc \in {"replay write", "send", "mark", "mark write", "wait", "ended"}
    /\ stream[c].seen => x.seen
    /\ x.pc \notin {"wait", "ended"} => x.seen /\ row.status # "none"
    /\ x.pc = "ended" => x.seen \/ ~sub[c].open
    /\ Sent(c) => x.pc \in {"mark write", "wait", "ended"}
    /\ x.pc \in {"replay write", "mark write"} => row.status \in Unfinished
    /\ ~x.seen => /\ row'.status = row.status
                  /\ x.pc = "ended" \/ row.status \notin Unfinished \/ over
    /\ row'.status # row.status =>
         row'.status \in Unfinished /\ stream[c].pc \in {"replay write", "mark write"}

\* Such a step of a stream keeps what the proof needs.
LEMMA StreamMoves ==
    ASSUME Typed, SentInv, NEW c \in Conns, NEW x, Advance(c, x)
    PROVE  SentInv'
<1>1. /\ NetOK /\ ConnInv /\ NoneInv /\ StaleInv
      /\ \A d \in Conns : Frame(d) /\ Opened(d) /\ Promise(d)
  BY DEF SentInv
<1>2. /\ NetOK' /\ UNCHANGED <<over, closed, req, dev>>
      /\ stream' = [stream EXCEPT ![c] = x]
  BY DEF Advance
<1>3. stream'[c] = x /\ \A d \in Conns \ {c} : stream'[d] = stream[d]
  BY <1>2 DEF Typed, StreamOK
<1>4. ConnInv'
  BY <1>1, <1>3 DEF ConnInv, Advance
<1>5. row'.status = "none" => row'.status = row.status
  BY DEF Advance, Unfinished
<1>6. row.status = "none" => row'.status = row.status
  BY <1>1 DEF NoneInv, Advance
<1>7. /\ row.status = "none" => \A d \in Conns : sub'[d] = sub[d] /\ wire'[d] = wire[d]
      /\ x.pc # "mark" \/ stream[c].pc # "send" => wire'[c] = wire[c]
  BY <1>1 DEF Advance, NoneInv
<1>8. NoneInv'
  <2>1. SUFFICES ASSUME row'.status = "none" PROVE NoneInv'
    BY <1>1, <1>6, <1>2 DEF NoneInv
  <2> QED
    <3>1. row.status = "none" /\ UNCHANGED <<req, dev>>
      BY <1>5, <1>2, <2>1
    <3>2. x.pc \in {"wait", "ended"}
      BY <3>1 DEF Advance
    <3>3. \A d \in Conns : stream'[d].pc \notin {"replay write", "send", "mark", "mark write"}
      BY <1>1, <1>3, <3>1, <3>2 DEF NoneInv
    <3>4. \A d \in Conns : sub'[d] = sub[d] /\ wire'[d] = wire[d]
      BY <1>7, <3>1
    <3> QED
      BY <1>1, <2>1, <3>1, <3>3, <3>4 DEF NoneInv
<1>9. UNCHANGED Coming({"close"}) /\ UNCHANGED Coming(Going)
  BY <1>2 DEF Coming
<1>10. StaleInv'
  BY <1>1, <1>3, <1>9 DEF StaleInv, Advance
<1>11. ASSUME NEW d \in Conns PROVE Frame(d)'
  <2>1. CASE d = c
    BY <1>1, <1>3, <1>2, <1>7, <2>1 DEF Frame, Handles, Sent, Advance
  <2>2. CASE d # c
    <3>1. wire'[d] = wire[d] /\ stream'[d] = stream[d] /\ UNCHANGED <<req, dev>>
      BY <1>3, <1>2, <2>2 DEF Advance
    <3> QED
      BY <1>1, <3>1 DEF Frame, Handles, Sent
  <2> QED
    BY <2>1, <2>2
<1>12. ASSUME NEW d \in Conns PROVE Opened(d)'
  BY <1>1, <1>3 DEF Opened, Advance
\* An old copy written over a settled action.
<1>13. ASSUME NEW d \in Conns PROVE Promise(d)'
  <2>1. row'.status # row.status => over \/ closed \/ Coming(Going) \/ row.status \in Unfinished
    BY <1>1 DEF StaleInv, Coming, Going, Advance
  <2>2. CASE d = c
    BY <1>3, <2>2 DEF Promise, Advance
  <2>3. CASE d # c
    BY <1>1, <1>3, <1>9, <2>1, <2>3 DEF Promise, Advance
  <2> QED
    BY <2>2, <2>3
<1> QED
  BY <1>2, <1>4, <1>8, <1>10, <1>11, <1>12, <1>13 DEF SentInv

\* The steps of a stream.
LEMMA StreamSteps ==
    ASSUME Typed, SentInv, NEW c \in Conns,
           \/ ReplayRead(c) \/ ReplayWrite(c) \/ SendFrame(c)
           \/ MarkRead(c) \/ MarkWrite(c) \/ NextCommand(c)
    PROVE  SentInv'
<1> DEFINE s == stream[c]
<1>1. /\ NetOK /\ NoneInv /\ Frame(c) /\ Opened(c)
      /\ stream \in [Conns -> [pc : {"idle", "replay", "replay write", "send",
                                     "mark", "mark write", "wait", "ended", "cut"},
                               copy : Rows, seen : BOOLEAN]]
  BY DEF SentInv, Typed, StreamOK
<1>2. /\ \A pc : [s EXCEPT !.pc = pc].pc = pc /\ [s EXCEPT !.pc = pc].seen = s.seen
      /\ \A pc, row1 : /\ [s EXCEPT !.pc = pc, !.copy = row1].pc = pc
                       /\ [s EXCEPT !.pc = pc, !.copy = row1].seen = s.seen
      /\ [s EXCEPT !.pc = "send", !.seen = TRUE].pc = "send"
      /\ [s EXCEPT !.pc = "send", !.seen = TRUE].seen
  BY <1>1
<1>3. s.seen \in BOOLEAN
  BY <1>1
<1>4. sub' = sub /\ wire' = wire => NetOK'
  BY <1>1 DEF NetOK
<1>5. CASE ReplayRead(c)
  <2>1. s.pc = "replay" /\ UNCHANGED <<over, row, closed, sub, req, wire, dev>>
    BY <1>5 DEF ReplayRead, device
  <2> DEFINE x == IF row.status \in Unfinished /\ ~over
                  THEN [pc |-> "replay write", copy |-> row, seen |-> TRUE]
                  ELSE [s EXCEPT !.pc = "wait"]
  <2>2. stream' = [stream EXCEPT ![c] = x]
    BY <1>5 DEF ReplayRead
  <2>3. /\ x.pc \in {"replay write", "wait"}
        /\ x.pc = "replay write" => x.seen /\ row.status \in Unfinished
        /\ x.pc = "wait" => x.seen = s.seen /\ (row.status \notin Unfinished \/ over)
    BY <1>2
  <2>4. s.seen => x.seen
    BY <2>3
  <2> HIDE DEF x
  <2>5. NetOK'
    BY <1>4, <2>1
  <2>6. Advance(c, x)
    BY <2>1, <2>2, <2>3, <2>4, <2>5 DEF Advance, Sent, Unfinished
  <2> QED
    BY <2>6, StreamMoves
<1>6. CASE ReplayWrite(c)
  <2>1. s.pc = "replay write" /\ UNCHANGED <<over, closed, sub, req, wire, dev>>
    BY <1>6 DEF ReplayWrite, device
  <2> DEFINE x == [s EXCEPT !.pc = "send", !.copy = NoRow]
  <2>2. stream' = [stream EXCEPT ![c] = x] /\ x.pc = "send" /\ x.seen
    BY <1>1, <1>2, <1>6, <2>1 DEF ReplayWrite, Opened
  <2>3. row'.status = row.status \/ row'.status \in Unfinished
    BY <1>1, <1>6 DEF ReplayWrite, Unfinished, Rows
  <2>4. row.status # "none"
    BY <1>1, <2>1 DEF NoneInv
  <2> HIDE DEF x
  <2>5. NetOK'
    BY <1>4, <2>1
  <2>6. Advance(c, x)
    BY <2>1, <2>2, <2>3, <2>4, <2>5 DEF Advance, Sent
  <2> QED
    BY <2>6, StreamMoves
<1>7. CASE SendFrame(c)
  <2>1. /\ s.pc = "send" /\ s.seen /\ row.status # "none"
        /\ UNCHANGED <<over, row, closed, sub, req, dev>>
    BY <1>1, <1>3, <1>7 DEF SendFrame, device, NoneInv, Opened
  <2>2. CASE wire' = [wire EXCEPT ![c] = IF Attached(c) THEN 1 ELSE 0]
             /\ stream' = [stream EXCEPT ![c].pc = "mark"]
    <3> DEFINE x == [s EXCEPT !.pc = "mark"]
    <3>1. stream' = [stream EXCEPT ![c] = x] /\ x.pc = "mark" /\ x.seen
      BY <1>2, <2>1, <2>2
    <3> DEFINE w == IF Attached(c) THEN 1 ELSE 0
    <3>2. w \in 0 .. 1
      OBVIOUS
    <3> HIDE DEF w
    <3>3. NetOK' /\ \A d \in Conns \ {c} : wire'[d] = wire[d]
      BY <1>1, <2>1, <2>2, <3>2 DEF NetOK, w
    <3> HIDE DEF x
    <3>4. Advance(c, x)
      BY <2>1, <3>1, <3>3 DEF Advance, Sent
    <3> QED
      BY <3>4, StreamMoves
  <2>3. CASE wire' = wire /\ stream' = [stream EXCEPT ![c].pc = "ended"]
    <3> DEFINE x == [s EXCEPT !.pc = "ended"]
    <3>1. stream' = [stream EXCEPT ![c] = x] /\ x.pc = "ended" /\ x.seen
      BY <1>2, <2>1, <2>3
    <3> HIDE DEF x
    <3>2. NetOK'
      BY <1>4, <2>1, <2>3
    <3>3. Advance(c, x)
      BY <2>1, <2>3, <3>1, <3>2 DEF Advance, Sent
    <3> QED
      BY <3>3, StreamMoves
  <2> QED
    BY <1>7, <2>2, <2>3 DEF SendFrame
<1>8. CASE MarkRead(c)
  <2>1. /\ s.pc = "mark" /\ s.seen /\ row.status # "none"
        /\ UNCHANGED <<over, row, closed, sub, req, wire, dev>>
    BY <1>1, <1>3, <1>8 DEF MarkRead, device, NoneInv, Opened
  <2> DEFINE x == IF row.status \in {"pending", "dispatched"}
                  THEN [s EXCEPT !.pc = "mark write", !.copy = row]
                  ELSE [s EXCEPT !.pc = "wait"]
  <2>2. stream' = [stream EXCEPT ![c] = x]
    BY <1>8 DEF MarkRead
  <2>3. /\ x.pc \in {"mark write", "wait"} /\ x.seen
        /\ x.pc = "mark write" => row.status \in Unfinished
    BY <1>2, <2>1 DEF Unfinished
  <2> HIDE DEF x
  <2>4. NetOK'
    BY <1>4, <2>1
  <2>5. Advance(c, x)
    BY <2>1, <2>2, <2>3, <2>4 DEF Advance, Sent
  <2> QED
    BY <2>5, StreamMoves
<1>9. CASE MarkWrite(c)
  <2>1. /\ s.pc = "mark write" /\ s.seen /\ row.status # "none"
        /\ UNCHANGED <<over, closed, sub, req, wire, dev>>
    BY <1>1, <1>3, <1>9 DEF MarkWrite, device, NoneInv, Opened
  <2> DEFINE x == [s EXCEPT !.pc = "wait", !.copy = NoRow]
  <2>2. stream' = [stream EXCEPT ![c] = x]
    BY <1>9 DEF MarkWrite
  <2>3. x.pc = "wait" /\ x.seen
    BY <1>1, <1>2, <2>1
  <2>4. row'.status \in Unfinished
    BY <1>1, <1>9 DEF MarkWrite, Unfinished, Rows
  <2> HIDE DEF x
  <2>5. NetOK'
    BY <1>4, <2>1
  <2>6. Advance(c, x)
    BY <2>1, <2>2, <2>4, <2>3, <2>5 DEF Advance, Sent
  <2> QED
    BY <2>6, StreamMoves
<1>10. CASE NextCommand(c)
  <2>1. s.pc = "wait" /\ UNCHANGED <<over, row, closed, req, wire, dev>>
    BY <1>10 DEF NextCommand, device
  <2>2. CASE /\ sub[c].queue > 0 /\ sub' = [sub EXCEPT ![c].queue = @ - 1]
             /\ stream' = [stream EXCEPT ![c] =
                             IF s.seen THEN s ELSE [s EXCEPT !.pc = "send", !.seen = TRUE]]
    <3> DEFINE x == IF s.seen THEN s ELSE [s EXCEPT !.pc = "send", !.seen = TRUE]
    <3>1. x.pc \in {"wait", "send"} /\ x.seen /\ (s.seen => x.pc = "wait")
      BY <1>2, <1>3, <2>1
    <3>2. /\ sub[c] \in [open : BOOLEAN, queue : Nat]
          /\ sub \in [Conns -> [open : BOOLEAN, queue : Nat]]
      BY <1>1 DEF NetOK
    <3>3. /\ [sub[c] EXCEPT !.queue = @ - 1] \in [open : BOOLEAN, queue : Nat]
          /\ [sub[c] EXCEPT !.queue = @ - 1].open = sub[c].open
      BY <2>2, <3>2
    <3>4. sub' = [sub EXCEPT ![c] = [sub[c] EXCEPT !.queue = @ - 1]]
      BY <2>2
    <3>5. /\ sub' \in [Conns -> [open : BOOLEAN, queue : Nat]]
          /\ sub'[c].open = sub[c].open
          /\ \A d \in Conns \ {c} : sub'[d] = sub[d]
      BY <3>2, <3>3, <3>4
    <3>6. NetOK'
      BY <1>1, <2>1, <3>5 DEF NetOK
    <3>7. row.status # "none"
      <4>1. sub[c].queue # 0
        BY <2>2, <3>2
      <4> QED
        BY <1>1, <4>1 DEF NoneInv
    <3>8. stream' = [stream EXCEPT ![c] = x]
      BY <2>2
    <3> HIDE DEF x
    <3>9. Advance(c, x)
      BY <2>1, <3>1, <3>5, <3>6, <3>7, <3>8 DEF Advance, Sent
    <3> QED
      BY <3>9, StreamMoves
  <2>3. CASE ~sub[c].open /\ sub' = sub /\ stream' = [stream EXCEPT ![c].pc = "ended"]
    <3> DEFINE x == [s EXCEPT !.pc = "ended"]
    <3>1. stream' = [stream EXCEPT ![c] = x] /\ x.pc = "ended" /\ x.seen = s.seen
      BY <1>2, <2>3
    <3> HIDE DEF x
    <3>2. NetOK'
      BY <1>4, <2>1, <2>3
    <3>3. Advance(c, x)
      BY <2>1, <2>3, <3>1, <3>2 DEF Advance, Sent
    <3> QED
      BY <3>3, StreamMoves
  <2> QED
    BY <1>10, <2>2, <2>3 DEF NextCommand
<1> QED
  BY <1>5, <1>6, <1>7, <1>8, <1>9, <1>10

\* The device leaves its connection for good; a request that was only posted may be
\* lost with it.
LEMMA LeaveMoves ==
    ASSUME Typed, SentInv, dev.pc \in {"read", "handle", "report"},
           dev'.conn = dev.conn, dev'.pc \in {"off", "done"},
           sub' = [sub EXCEPT ![dev.conn] = NoSub],
           wire' = [wire EXCEPT ![dev.conn] = 0],
           UNCHANGED <<over, row, closed, stream>>,
           \/ req' = req
           \/ req[dev.conn].pc = "posted" /\ req' = [req EXCEPT ![dev.conn] = Rest]
    PROVE  SentInv'
<1> USE RequestFacts
<1>1. /\ NetOK /\ ConnInv /\ NoneInv /\ StaleInv
      /\ \A d \in Conns : Frame(d) /\ Opened(d) /\ Promise(d)
  BY DEF SentInv
<1>2. dev.conn \in Conns
  BY <1>1 DEF ConnInv
<1>3. NoSub \in [open : BOOLEAN, queue : Nat] /\ ~NoSub.open /\ NoSub.queue = 0
  BY DEF NoSub
<1>4. /\ NetOK'
      /\ ~sub'[dev.conn].open /\ sub'[dev.conn].queue = 0 /\ wire'[dev.conn] = 0
      /\ \A d \in Conns \ {dev.conn} : sub'[d] = sub[d] /\ wire'[d] = wire[d]
  BY <1>1, <1>2, <1>3 DEF NetOK
<1>5. \A q \in Requests : req'[q] # req[q] =>
        req[q].pc = "posted" /\ req'[q].pc = "idle" /\ q \in Conns
  BY <1>2, Defaults DEF Typed, ReqOK
<1>6. ConnInv'
  BY <1>1, <1>4, <1>5 DEF ConnInv
<1>7. NoneInv'
  <2>1. \A q \in Requests : row.status = "none" => req'[q] = req[q]
    BY <1>1, <1>5 DEF NoneInv
  <2>2. req'[Trigger] = req[Trigger]
    BY <1>5
  <2>3. /\ \A d \in Conns : wire[d] = 0 => wire'[d] = 0
        /\ \A d \in Conns : sub[d].queue = 0 => sub'[d].queue = 0
        /\ dev'.pc # "handle"
    BY <1>4
  <2>4. CASE row.status = "none"
    <3>1. \A q \in Requests : req'[q] = req[q]
      BY <2>1, <2>4
    <3> QED
      BY <1>1, <2>3, <2>4, <3>1 DEF NoneInv
  <2>5. CASE row.status # "none"
    BY <1>1, <2>2, <2>5 DEF NoneInv
  <2> QED
    BY <2>4, <2>5
<1>8. /\ Coming({"close"}) => Coming({"close"})'
      /\ Coming(Going) => Coming(Going)'
  BY <1>5 DEF Coming, Going
<1>9. StaleInv'
  BY <1>1, <1>8 DEF StaleInv
<1>10. ASSUME NEW d \in Conns PROVE (Frame(d) /\ Opened(d) /\ Promise(d))'
  <2>1. Frame(d)'
    <3>1. req'[d].pc # "idle" => req[d].pc # "idle"
      BY <1>5
    <3>2. wire'[d] = 1 => wire[d] = 1
      BY <1>4
    <3>3. wire[d] = 0 => wire'[d] = 0
      BY <1>4
    <3> QED
      BY <1>1, <3>1, <3>2, <3>3 DEF Frame, Handles, Sent
  <2>2. Opened(d)'
    BY <1>1, <1>4 DEF Opened
  <2>3. Promise(d)'
    BY <1>1, <1>4, <1>8 DEF Promise
  <2> QED
    BY <2>1, <2>2, <2>3
<1> QED
  BY <1>4, <1>6, <1>7, <1>9, <1>10 DEF SentInv

\* The result of the one command of the connection is posted.
LEMMA PostMoves ==
    ASSUME Typed, SentInv, dev.pc = "handle", NEW out, Post(out),
           dev'.conn = dev.conn, dev'.pc = "report",
           UNCHANGED <<over, row, closed, sub, stream, wire>>
    PROVE  SentInv'
<1> USE RequestFacts
<1>1. /\ NetOK /\ ConnInv /\ NoneInv /\ StaleInv
      /\ \A d \in Conns : Frame(d) /\ Opened(d) /\ Promise(d)
  BY DEF SentInv
<1>2. dev.conn \in Conns /\ req[dev.conn].pc = "idle"
  BY <1>1 DEF ConnInv, Frame, Handles
<1>3. /\ req'[dev.conn].pc = "posted"
      /\ \A q \in Requests \ {dev.conn} : req'[q] = req[q]
  BY <1>2 DEF Typed, ReqOK, Post, Rest
<1>4. NetOK'
  BY <1>1 DEF NetOK
<1>5. ConnInv'
  BY <1>1, <1>2, <1>3 DEF ConnInv
<1>6. NoneInv'
  BY <1>1, <1>2, <1>3 DEF NoneInv
<1>7. /\ Coming({"close"}) => Coming({"close"})'
      /\ Coming(Going) => Coming(Going)'
  BY <1>2, <1>3 DEF Coming, Going
<1>8. StaleInv'
  BY <1>1, <1>7 DEF StaleInv
<1>9. ASSUME NEW d \in Conns PROVE (Frame(d) /\ Opened(d) /\ Promise(d))'
  <2>1. Frame(d)'
    BY <1>1, <1>2, <1>3 DEF Frame, Handles, Sent
  <2>2. Opened(d)'
    BY <1>1 DEF Opened
  <2>3. Promise(d)'
    BY <1>1, <1>7 DEF Promise
  <2> QED
    BY <2>1, <2>2, <2>3
<1> QED
  BY <1>4, <1>5, <1>6, <1>8, <1>9 DEF SentInv

\* A new connection subscribes and has its replay before it.
LEMMA ConnectStep ==
    ASSUME Typed, SentInv, NEW c \in Conns, Connect(c)
    PROVE  SentInv'
<1> USE RequestFacts
<1>1. /\ NetOK /\ ConnInv /\ NoneInv /\ StaleInv
      /\ \A d \in Conns : Frame(d) /\ Opened(d) /\ Promise(d)
      /\ dev.conn \in Nat /\ c \in Nat
  BY ActionAssumption DEF SentInv, Typed, DevOK
<1>2. /\ dev.pc = "off" /\ c = dev.conn + 1 /\ UNCHANGED <<over, row, closed, req, wire>>
  BY DEF Connect
<1>3. /\ stream[c].pc = "idle" /\ ~sub[c].open /\ wire[c] = 0 /\ req[c].pc = "idle"
  BY <1>1, <1>2 DEF ConnInv
<1>4. dev'.conn = c /\ dev'.pc = "read"
  BY DEF Connect, Typed, DevOK
<1>5. /\ stream'[c].pc = "replay" /\ stream'[c].seen = stream[c].seen
      /\ \A d \in Conns \ {c} : stream'[d] = stream[d]
  BY DEF Connect, Typed, StreamOK
<1>6. /\ sub' \in [Conns -> [open : BOOLEAN, queue : Nat]]
      /\ sub'[c].queue = sub[c].queue
      /\ \A d \in Conns \ {c} : sub'[d] = sub[d]
  <2>1. /\ sub[c] \in [open : BOOLEAN, queue : Nat]
        /\ sub \in [Conns -> [open : BOOLEAN, queue : Nat]]
    BY <1>1 DEF NetOK
  <2>2. /\ [sub[c] EXCEPT !.open = TRUE] \in [open : BOOLEAN, queue : Nat]
        /\ [sub[c] EXCEPT !.open = TRUE].queue = sub[c].queue
    BY <2>1
  <2>3. sub' = [sub EXCEPT ![c] = [sub[c] EXCEPT !.open = TRUE]]
    BY DEF Connect
  <2> QED
    BY <2>1, <2>2, <2>3
<1>7. NetOK'
  BY <1>1, <1>2, <1>6 DEF NetOK
<1>8. ConnInv'
  BY <1>1, <1>2, <1>4, <1>5, <1>6 DEF ConnInv
<1>9. NoneInv'
  BY <1>1, <1>2, <1>4, <1>5, <1>6 DEF NoneInv
<1>10. UNCHANGED Coming({"close"}) /\ UNCHANGED Coming(Going)
  BY <1>2 DEF Coming
<1>11. StaleInv'
  BY <1>1, <1>2, <1>5, <1>10 DEF StaleInv
<1>12. ASSUME NEW d \in Conns PROVE (Frame(d) /\ Opened(d) /\ Promise(d))'
  <2>1. Frame(d)'
    BY <1>1, <1>2, <1>3, <1>4, <1>5 DEF Frame, Handles, Sent
  <2>2. Opened(d)'
    BY <1>1, <1>5, <1>6 DEF Opened
  <2>3. Promise(d)'
    BY <1>1, <1>2, <1>5, <1>6, <1>10 DEF Promise
  <2> QED
    BY <2>1, <2>2, <2>3
<1> QED
  BY <1>7, <1>8, <1>9, <1>11, <1>12 DEF SentInv

\* The other steps of the device and of the network.
LEMMA DeviceSteps ==
    ASSUME Typed, SentInv,
           \/ \E c \in Conns : Connect(c)
           \/ Receive \/ RunEnds \/ HandleExpired \/ HandleCached \/ Execute
           \/ Confirmed \/ NotConfirmed \/ StreamBroken
           \/ AnswerLost \/ ConnectionLost \/ DeviceRestart
    PROVE  SentInv'
<1> USE RequestFacts
<1>1. /\ NetOK /\ ConnInv /\ NoneInv /\ StaleInv
      /\ \A d \in Conns : Frame(d) /\ Opened(d) /\ Promise(d)
  BY DEF SentInv
<1>2. /\ \A pc : [dev EXCEPT !.pc = pc].pc = pc /\ [dev EXCEPT !.pc = pc].conn = dev.conn
      /\ \A pc, out : /\ [dev EXCEPT !.pc = pc, !.cached = out].pc = pc
                      /\ [dev EXCEPT !.pc = pc, !.cached = out].conn = dev.conn
  BY DEF Typed, DevOK
<1>3. ASSUME NEW c \in Conns, Connect(c) PROVE SentInv'
  BY <1>3, ConnectStep
<1>4. ASSUME dev'.conn = dev.conn, dev'.pc \notin {"handle"}, dev.pc \in {"read", "report"},
             UNCHANGED <<over, row, closed, sub, stream, req, wire>>
      PROVE  SentInv'
  <2>1. NetOK' /\ NoneInv' /\ StaleInv'
    BY <1>1, <1>4 DEF NetOK, NoneInv, StaleInv, Coming
  <2>2. ConnInv'
    BY <1>1, <1>4 DEF ConnInv
  <2>3. ASSUME NEW d \in Conns PROVE (Frame(d) /\ Opened(d) /\ Promise(d))'
    BY <1>1, <1>4 DEF Frame, Opened, Promise, Handles, Sent, Coming
  <2> QED
    BY <2>1, <2>2, <2>3 DEF SentInv
<1>5. CASE RunEnds
  <2>1. dev'.conn = dev.conn /\ dev'.pc = "done" /\ dev.pc = "read"
    BY <1>2, <1>5 DEF RunEnds
  <2> QED
    BY <1>4, <1>5, <2>1 DEF RunEnds
<1>6. CASE Confirmed
  <2>1. dev'.conn = dev.conn /\ dev'.pc = "read" /\ dev.pc = "report"
    BY <1>2, <1>6 DEF Confirmed
  <2> QED
    BY <1>4, <1>6, <2>1 DEF Confirmed
<1>7. CASE Receive
  <2>1. /\ dev'.conn = dev.conn /\ dev'.pc = "handle" /\ dev.pc = "read"
        /\ dev.conn \in Conns /\ wire[dev.conn] = 1
        /\ UNCHANGED <<over, row, closed, sub, stream, req>>
    BY <1>1, <1>2, <1>7 DEF Receive, ConnInv
  <2>2. /\ wire' \in [Conns -> 0 .. 1] /\ wire'[dev.conn] = 0
        /\ \A d \in Conns \ {dev.conn} : wire'[d] = wire[d]
    BY <1>1, <1>7, <2>1 DEF NetOK, Receive
  <2>3. NetOK'
    BY <1>1, <2>1, <2>2 DEF NetOK
  <2>4. ConnInv'
    BY <1>1, <2>1, <2>2 DEF ConnInv
  <2>5. NoneInv'
    <3>1. wire[dev.conn] # 0
      BY <2>1
    <3>2. row.status # "none"
      BY <1>1, <2>1, <3>1 DEF NoneInv
    <3> QED
      BY <1>1, <2>1, <3>2 DEF NoneInv
  <2>6. StaleInv'
    BY <1>1, <2>1 DEF StaleInv, Coming
  <2>7. ASSUME NEW d \in Conns PROVE (Frame(d) /\ Opened(d) /\ Promise(d))'
    <3>1. Frame(d)'
      <4>1. CASE d = dev.conn
        <5>1. wire[d] = 1 /\ wire[d] # 0
          BY <2>1, <4>1
        <5>2. Sent(d) /\ req[d].pc = "idle"
          BY <1>1, <5>1 DEF Frame
        <5>3. wire'[d] = 0 /\ UNCHANGED <<stream, req>>
          BY <2>1, <2>2, <4>1
        <5> QED
          BY <5>2, <5>3 DEF Frame, Sent
      <4>2. CASE d # dev.conn
        BY <1>1, <2>1, <2>2, <4>2 DEF Frame, Handles, Sent
      <4> QED
        BY <4>1, <4>2
    <3>2. (Opened(d) /\ Promise(d))'
      BY <1>1, <2>1 DEF Opened, Promise, Coming
    <3> QED
      BY <3>1, <3>2
  <2> QED
    BY <2>3, <2>4, <2>5, <2>6, <2>7 DEF SentInv
<1>8. CASE HandleExpired
  <2>1. /\ dev'.conn = dev.conn /\ dev'.pc = "report" /\ dev.pc = "handle" /\ Post("expired")
        /\ UNCHANGED <<over, row, closed, sub, stream, wire>>
    BY <1>2, <1>8 DEF HandleExpired
  <2> QED
    BY <2>1, PostMoves
<1>9. CASE HandleCached
  <2>1. /\ dev'.conn = dev.conn /\ dev'.pc = "report" /\ dev.pc = "handle" /\ Post(dev.cached)
        /\ UNCHANGED <<over, row, closed, sub, stream, wire>>
    BY <1>2, <1>9 DEF HandleCached
  <2> QED
    BY <2>1, PostMoves
<1>10. CASE Execute
  <2>1. PICK out \in {"succeeded", "retryable_failed", "failed"} :
          Post(out) /\ dev' = [dev EXCEPT !.pc = "report", !.cached = out]
    BY <1>10 DEF Execute
  <2>2. /\ dev'.conn = dev.conn /\ dev'.pc = "report" /\ dev.pc = "handle"
        /\ UNCHANGED <<over, row, closed, sub, stream, wire>>
    BY <1>2, <1>10, <2>1 DEF Execute
  <2> QED
    BY <2>1, <2>2, PostMoves
<1>11. CASE NotConfirmed \/ StreamBroken \/ ConnectionLost
  <2>1. /\ dev'.conn = dev.conn /\ dev'.pc = "off" /\ dev.pc \in {"read", "report"}
        /\ UNCHANGED <<over, row, closed, stream, req>>
        /\ sub' = [sub EXCEPT ![dev.conn] = NoSub] /\ wire' = [wire EXCEPT ![dev.conn] = 0]
    BY <1>2, <1>11 DEF NotConfirmed, StreamBroken, ConnectionLost, Leave
  <2> QED
    BY <2>1, LeaveMoves
<1>12. CASE AnswerLost
  <2>1. /\ dev'.conn = dev.conn /\ dev'.pc = "off" /\ dev.pc = "report"
        /\ UNCHANGED <<over, row, closed, stream>>
        /\ sub' = [sub EXCEPT ![dev.conn] = NoSub] /\ wire' = [wire EXCEPT ![dev.conn] = 0]
    BY <1>2, <1>12 DEF AnswerLost, Leave
  <2>2. \/ req' = req
        \/ req[dev.conn].pc = "posted" /\ req' = [req EXCEPT ![dev.conn] = Rest]
    BY <1>12 DEF AnswerLost
  <2> QED
    BY <2>1, <2>2, LeaveMoves
<1>13. CASE DeviceRestart
  <2>1. /\ dev'.conn = dev.conn /\ dev'.pc = "done" /\ dev.pc \in {"read", "handle", "report"}
        /\ UNCHANGED <<over, row, closed, stream, req>>
        /\ sub' = [sub EXCEPT ![dev.conn] = NoSub] /\ wire' = [wire EXCEPT ![dev.conn] = 0]
    BY <1>2, <1>13 DEF DeviceRestart, Typed, DevOK
  <2> QED
    BY <2>1, LeaveMoves
<1> QED
  BY <1>3, <1>5, <1>6, <1>7, <1>8, <1>9, <1>10, <1>11, <1>12, <1>13

\* Time, the gateway's restart and the user's own action.
LEMMA OtherSteps ==
    ASSUME Typed, SentInv,
           \/ \E c \in Conns : SubscriptionExpires(c)
           \/ Expire \/ Restart
           \/ UNCHANGED <<over, row, closed, sub, stream, req, wire, dev>>
    PROVE  SentInv'
<1> USE RequestFacts
<1>1. /\ NetOK /\ ConnInv /\ NoneInv /\ StaleInv
      /\ \A d \in Conns : Frame(d) /\ Opened(d) /\ Promise(d)
  BY DEF SentInv
<1>2. /\ NoSub \in [open : BOOLEAN, queue : Nat] /\ ~NoSub.open /\ NoSub.queue = 0
      /\ Rest.pc = "idle"
  BY DEF NoSub, Rest
<1>3. CASE UNCHANGED <<over, row, closed, sub, stream, req, wire, dev>>
  <2>1. NetOK' /\ ConnInv' /\ NoneInv' /\ StaleInv'
    BY <1>1, <1>3 DEF NetOK, ConnInv, NoneInv, StaleInv, Coming
  <2>2. ASSUME NEW d \in Conns PROVE (Frame(d) /\ Opened(d) /\ Promise(d))'
    BY <1>1, <1>3 DEF Frame, Opened, Promise, Handles, Sent, Coming
  <2> QED
    BY <2>1, <2>2 DEF SentInv
<1>4. CASE Expire
  <2>1. over' /\ UNCHANGED <<row, closed, sub, stream, req, wire, dev>>
    BY <1>4 DEF Expire, device
  <2>2. NetOK' /\ ConnInv' /\ NoneInv' /\ StaleInv'
    BY <1>1, <2>1 DEF NetOK, ConnInv, NoneInv, StaleInv
  <2>3. ASSUME NEW d \in Conns PROVE (Frame(d) /\ Opened(d) /\ Promise(d))'
    BY <1>1, <2>1 DEF Frame, Opened, Promise, Handles, Sent
  <2> QED
    BY <2>2, <2>3 DEF SentInv
<1>5. ASSUME NEW c \in Conns, SubscriptionExpires(c) PROVE SentInv'
  <2>1. over /\ UNCHANGED <<over, row, closed, stream, req, wire, dev>>
    BY <1>5 DEF SubscriptionExpires, device
  <2>2. /\ sub' \in [Conns -> [open : BOOLEAN, queue : Nat]]
        /\ ~sub'[c].open /\ sub'[c].queue = 0
        /\ \A d \in Conns \ {c} : sub'[d] = sub[d]
    BY <1>1, <1>2, <1>5 DEF SubscriptionExpires, NetOK
  <2>3. NetOK' /\ StaleInv'
    BY <1>1, <2>1, <2>2 DEF NetOK, StaleInv
  <2>4. ConnInv' /\ NoneInv'
    BY <1>1, <2>1, <2>2 DEF ConnInv, NoneInv
  <2>5. ASSUME NEW d \in Conns PROVE (Frame(d) /\ Opened(d) /\ Promise(d))'
    BY <1>1, <2>1, <2>2 DEF Frame, Opened, Promise, Handles, Sent
  <2> QED
    BY <2>3, <2>4, <2>5 DEF SentInv
<1>6. CASE Restart
  <2>1. UNCHANGED <<over, row, dev>>
    BY <1>6 DEF Restart, device
  <2>2. NetOK' /\ \A d \in Conns : ~sub'[d].open /\ sub'[d].queue = 0 /\ wire'[d] = 0
    <3>1. sub' = [d \in Conns |-> NoSub] /\ wire' = [d \in Conns |-> 0]
      BY <1>6 DEF Restart
    <3>2. sub' \in [Conns -> [open : BOOLEAN, queue : Nat]] /\ wire' \in [Conns -> 0 .. 1]
      BY <1>2, <3>1
    <3> QED
      BY <1>2, <3>1, <3>2 DEF NetOK
  <2>3. \A q \in Requests : req'[q].pc = "idle"
    BY <1>2, <1>6 DEF Restart
  <2>4. ASSUME NEW d \in Conns
        PROVE  /\ stream'[d].seen = stream[d].seen
               /\ stream'[d].pc = IF stream[d].pc \in {"idle", "ended"} THEN stream[d].pc
                                  ELSE "cut"
    BY <1>6 DEF Restart, Typed, StreamOK
  <2>5. ConnInv'
    BY <1>1, <2>1, <2>2, <2>3, <2>4 DEF ConnInv
  <2>6. NoneInv'
    BY <1>1, <2>1, <2>2, <2>3, <2>4 DEF NoneInv
  <2>7. StaleInv'
    BY <2>4 DEF StaleInv
  <2>8. ASSUME NEW d \in Conns PROVE (Frame(d) /\ Opened(d) /\ Promise(d))'
    <3>1. Frame(d)'
      <4>1. wire'[d] # 1 /\ wire'[d] = 0 /\ req'[d].pc = "idle"
        BY <2>2, <2>3
      <4>2. Handles(d)' => Sent(d)'
        BY <1>1, <2>1, <2>4 DEF Frame, Handles, Sent
      <4> QED
        BY <4>1, <4>2 DEF Frame
    <3>2. (Opened(d) /\ Promise(d))'
      BY <1>1, <2>2, <2>4 DEF Opened, Promise
    <3> QED
      BY <3>1, <3>2
  <2> QED
    BY <2>2, <2>5, <2>6, <2>7, <2>8 DEF SentInv
<1> QED
  BY <1>3, <1>4, <1>5, <1>6

\* Every step keeps what the proof needs.
LEMMA SentStep ==
    ASSUME Typed, Inputs, SentInv, [Next]_vars
    PROVE  SentInv'
<1>1. CASE UNCHANGED vars
  BY <1>1, OtherSteps DEF vars, device
<1>2. CASE TriggerRead
  BY <1>2, RequestSteps
<1>3. CASE RequestStep
  <2>1. ASSUME NEW r \in Requests, Publish(r) PROVE SentInv'
    BY <2>1, PublishStep
  <2>2. ASSUME NEW r \in Requests, Close(r) PROVE SentInv'
    BY <2>2, CloseStep
  <2> QED
    BY <1>3, <2>1, <2>2, RequestSteps DEF RequestStep
<1>4. ASSUME NEW c \in Conns, StreamStep(c) PROVE SentInv'
  <2>1. CASE SubscriptionExpires(c)
    BY <2>1, OtherSteps
  <2> QED
    BY <1>4, <2>1, StreamSteps DEF StreamStep
<1>5. CASE RecoverStaleProcessing \/ VoiceRead
  BY <1>5, RequestSteps
<1>6. ASSUME NEW k \in Kinds, VoiceAction(k) PROVE SentInv'
  BY <1>6, OtherSteps DEF VoiceAction
<1>7. CASE DeviceStep \/ AnswerLost \/ ConnectionLost \/ DeviceRestart
  BY <1>7, DeviceSteps DEF DeviceStep
<1>8. CASE Expire \/ Restart
  BY <1>8, OtherSteps
<1> QED
  BY <1>1, <1>2, <1>3, <1>4, <1>5, <1>6, <1>7, <1>8 DEF Next

\* At first there is no row, no stream and no request.
LEMMA SentInit == Init => SentInv
<1> SUFFICES ASSUME Init PROVE SentInv
  OBVIOUS
<1> USE RequestFacts
<1>1. /\ sub = [c \in Conns |-> NoSub] /\ wire = [c \in Conns |-> 0]
      /\ NoSub \in [open : BOOLEAN, queue : Nat] /\ ~NoSub.open /\ NoSub.queue = 0
  BY DEF Init, NoSub
<1>2. NetOK
  <2>1. sub \in [Conns -> [open : BOOLEAN, queue : Nat]] /\ wire \in [Conns -> 0 .. 1]
    BY <1>1
  <2> QED
    BY <2>1 DEF NetOK
<1>3. \A c \in Conns : ~sub[c].open /\ sub[c].queue = 0 /\ wire[c] = 0 /\ wire[c] # 1
  BY <1>1
<1>4. \A c \in Conns : stream[c].pc = "idle" /\ ~stream[c].seen
  BY DEF Init
<1>5. \A r \in Requests : req[r].pc = "idle"
  BY DEF Init, Rest
<1>6. row.status = "none" /\ dev.pc = "off"
  BY DEF Init, NoRow
<1>7. ConnInv
  BY <1>3, <1>4, <1>5, <1>6 DEF ConnInv
<1>8. NoneInv
  BY <1>3, <1>4, <1>5, <1>6 DEF NoneInv
<1>9. StaleInv
  BY <1>4 DEF StaleInv
<1>10. ASSUME NEW c \in Conns PROVE Frame(c) /\ Opened(c) /\ Promise(c)
  BY <1>3, <1>4, <1>5, <1>6 DEF Frame, Opened, Promise, Handles
<1> QED
  BY <1>2, <1>7, <1>8, <1>9, <1>10 DEF SentInv

\* The invariant holds in every reachable state (subscribe, replay, dispatch, publish,
\* close, markProcessing, the action worker of the device).
THEOREM SentInductive == Spec => [](IInv /\ SentInv)
<1>1. IInv /\ SentInv /\ [Next]_vars => SentInv'
  BY SentStep DEF IInv
<1> QED
  BY Inductive, SentInit, <1>1, PTL DEF Spec

\* When nothing is under way and the device listens on an open stream, an unfinished
\* action was sent on that stream: the controller subscribes before it replays, the
\* dispatch marks before it publishes, and an old copy written over a settled row
\* finds the streams closed or about to be.
THEOREM NoCommandIsStranded == Spec => []DispatchedIsSent
<1>1. IInv /\ SentInv => DispatchedIsSent
  <2> SUFFICES ASSUME IInv, SentInv, Quiet, dev.pc = "read", sub[dev.conn].open,
                      row.status \in Unfinished
               PROVE  stream[dev.conn].seen
    BY DEF DispatchedIsSent
  <2>1. dev.conn \in Conns
    BY DEF SentInv, ConnInv
  <2>2. Opened(dev.conn) /\ Promise(dev.conn)
    BY <2>1 DEF SentInv
  <2>3. ~Coming(Going)
    BY DEF Quiet, Coming, Going
  <2>4. /\ stream[dev.conn].pc \in {"idle", "wait", "ended", "cut"}
        /\ ~(sub[dev.conn].queue > 0) /\ ~over /\ ~closed
    BY <2>1 DEF Quiet
  <2> QED
    BY <2>2, <2>3, <2>4 DEF Opened, Promise
<1> QED
  BY SentInductive, <1>1, PTL
=============================================================================
