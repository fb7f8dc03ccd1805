----------------------- MODULE DeliveryDispatch_proofs -----------------------
(***************************************************************************)
(* For every set of gateway processes, every limit of attempts and every   *)
(* bound of the environment: no unfinished delivery is left without an     *)
(* outbox event, an accepted delivery shows its latest attempt, and the    *)
(* attempts are limited.                                                   *)
(***************************************************************************)
EXTENDS DeliveryDispatch, FiniteSetTheorems, SequenceTheorems, TLAPS

\* The newest event belongs to the newest need for an attempt: as long as the
\* delivery is unfinished it is pending and nobody is about to publish it.
\* What worker w may do with its events: it holds events that exist, is not
\* about to publish the newest one of an unfinished delivery, and has claimed
\* with the newest one only a delivery that has been claimed since.
Holds(w) ==
    /\ worker[w].event <= Len(events)
    /\ worker[w].todo \subseteq 1 .. Len(events)
    /\ worker[w].pc # "idle" => worker[w].event > 0
    /\ worker[w].pc = "publish" /\ worker[w].event = Len(events)
         => row.status \notin Unfinished
    /\ worker[w].pc \in {"presend", "send", "complete"}
       /\ worker[w].event = Len(events)
         => row.status \notin {"pending", "retryable_failed"}

QueueInv ==
    /\ Len(events) > 0
    /\ row.status \in Unfinished => events[Len(events)].status = "pending"
    /\ \A w \in Workers : Holds(w)

\* The worker whose token is in the row sends the latest attempt.
Sends(w) ==
    Owns(w) /\ worker[w].pc \in {"send", "complete"}
      => worker[w].attempt = Len(attempts) /\ Len(attempts) > 0

AttemptInv ==
    /\ AcceptedIsCurrent
    /\ \A w \in Workers : Sends(w)

\* The worker whose token is in the row is sending, and its claim has not ended.
Sending == row.fresh /\ \E w \in Workers : Owns(w) /\ worker[w].pc \in {"send", "complete"}

\* The row as it is lets a worker make one more attempt.
Owed == \/ row.status \in {"pending", "retryable_failed"}
        \/ row.status = "sending" /\ ~Sending

\* The calls under way that may ask for one more attempt each.
UnderWay == Cardinality(receipts) + IF retry THEN 1 ELSE 0

\* A worker that has an answer has one of the platform's.
Answered(w) == worker[w].pc = "complete" => worker[w].answer.status # "sending"

\* What was attempted, what the row owes and what the calls under way may still
\* ask for are covered by the limit, the disturbances and the manual retries.
LimitInv ==
    /\ \A w \in Workers : Answered(w)
    /\ IsFiniteSet(receipts)
    /\ UnderWay <= disturbances + retries
    /\ Len(attempts) + (IF Owed THEN 1 ELSE 0) + UnderWay
         <= MaximumAttempts + disturbances + retries

IInv == TypeOK /\ QueueInv /\ AttemptInv /\ LimitInv

-----------------------------------------------------------------------------
\* The fixed records have their types.
LEMMA ConstantTypes ==
    /\ NewRow \in Rows
    /\ NewEvent \in Events
    /\ Published \in Events
    /\ Idle \in WorkerStates
BY DEF NewRow, Rows, Statuses, Failed, NoToken, NoMessage, NewEvent, Published,
       Events, Idle, WorkerStates, WorkerPCs, NoAnswer, Attempts

\* An outcome is a row that nobody owns.
LEMMA OutcomeType ==
    ASSUME NEW s \in Statuses
    PROVE  /\ Outcome(s) \in Rows
           /\ Outcome(s).status = s
BY ConstantTypes DEF Outcome, NewRow, Rows

\* After dispatch a worker defers its event, buries the delivery or publishes
\* the event, the last only for a delivery that needs no attempt of this event.
LEMMA AfterFacts ==
    ASSUME TypeOK, NEW w \in Workers, NEW s \in Statuses
    PROVE  /\ AfterDispatch(w, s) \in WorkerStates
           /\ AfterDispatch(w, s).pc \in {"idle", "dead", "publish"}
           /\ AfterDispatch(w, s).event \in {0, worker[w].event}
           /\ AfterDispatch(w, s).pc # "idle"
                => AfterDispatch(w, s).event = worker[w].event
           /\ AfterDispatch(w, s).todo = worker[w].todo
           /\ AfterDispatch(w, s).pc = "publish"
                => s \notin {"sending", "permanent_failed"}
BY DEF TypeOK, WorkerStates, WorkerPCs, Statuses, Failed, AfterDispatch,
       Deferred, Proceed, Idle, NoAnswer, NewRow, Attempts, Rows, NoToken,
       NoMessage

\* The same for a worker that goes on with or puts away its event.
LEMMA ProceedFacts ==
    ASSUME TypeOK, NEW w \in Workers, NEW pc \in WorkerPCs
    PROVE  /\ Proceed(w, pc) \in WorkerStates
           /\ Proceed(w, pc).pc = pc
           /\ Proceed(w, pc).event = worker[w].event
           /\ Proceed(w, pc).todo = worker[w].todo
           /\ Deferred(w) \in WorkerStates
           /\ Deferred(w).pc = "idle"
           /\ Deferred(w).event = 0
           /\ Deferred(w).todo = worker[w].todo
BY DEF TypeOK, WorkerStates, WorkerPCs, Statuses, Failed,
       Deferred, Proceed, Idle, NoAnswer, NewRow, Attempts, Rows, NoToken,
       NoMessage

-----------------------------------------------------------------------------
\* Scheduling appends an event or leaves them alone.
LEMMA ScheduleFacts ==
    ASSUME TypeOK, NEW s, Schedule(s)
    PROVE  /\ events' \in Seq(Events)
           /\ s = "retryable_failed" => events' = Append(events, NewEvent)
           /\ s # "retryable_failed" => events' = events
BY ConstantTypes DEF TypeOK, Schedule

\* The status a receipt leads to.
LEMMA ReceiptFacts ==
    ASSUME NEW r \in Receipts
    PROVE  ReceiptStatus(r) \in {"delivered", "dead_letter", "retryable_failed"}
BY DEF ReceiptStatus, AdvanceDeliveryStatus, Receipts

\* Changing one element of a sequence keeps its type and its length.
LEMMA UpdateFacts ==
    ASSUME NEW S, NEW s \in Seq(S), NEW i \in Nat, NEW v \in S
    PROVE  /\ [s EXCEPT ![i] = v] \in Seq(S)
           /\ Len([s EXCEPT ![i] = v]) = Len(s)
           /\ \A j \in 1 .. Len(s) :
                [s EXCEPT ![i] = v][j] = IF j = i THEN v ELSE s[j]
<1>1. CASE i \in 1 .. Len(s)
  BY <1>1, ExceptSeq
<1>2. CASE i \notin 1 .. Len(s)
  <2>1. [s EXCEPT ![i] = v] = s
    BY <1>2
  <2> QED
    BY <1>2, <2>1
<1> QED
  BY <1>1, <1>2

\* An event that becomes due or is leased is an event of the same status.
LEMMA DueType ==
    ASSUME NEW e \in Events
    PROVE  /\ [e EXCEPT !.due = TRUE] \in Events
           /\ [e EXCEPT !.due = TRUE].status = e.status
           /\ [e EXCEPT !.due = FALSE] \in Events
           /\ [e EXCEPT !.due = FALSE].status = e.status
BY DEF Events

\* An event that becomes due changes no status.
LEMMA EventDueFacts ==
    ASSUME TypeOK, EventDue
    PROVE  /\ events' \in Seq(Events)
           /\ Len(events') = Len(events)
           /\ \A j \in 1 .. Len(events) : events'[j].status = events[j].status
<1>1. PICK e \in DOMAIN events : events' = [events EXCEPT ![e].due = TRUE]
  BY Zenon DEF EventDue
<1>2. DOMAIN events = 1 .. Len(events) /\ events \in Seq(Events)
  BY DEF TypeOK
<1>3. events[e] \in Events
  BY <1>2, ElementOfSeq
<1> DEFINE v == [events[e] EXCEPT !.due = TRUE]
<1>4. v \in Events /\ v.status = events[e].status
  BY <1>3, DueType
<1>5. events' = [events EXCEPT ![e] = v]
  BY <1>1
<1>6. e \in Nat
  BY <1>2
<1> HIDE DEF v
<1> QED
  BY <1>2, <1>4, <1>5, <1>6, UpdateFacts

\* A step of a worker keeps the types.
LEMMA WorkerTypes ==
    ASSUME TypeOK, NEW w \in Workers, WorkerStep(w)
    PROVE  TypeOK'
<1> USE ConstantTypes, BoundsAssumption DEF TypeOK, outside
<1>1. CASE ClaimPending(w)
  <2>1. events' \in Seq(Events)
    <3>1. events' \in [1 .. Len(events) -> Events]
      <4>1. DOMAIN events = 1 .. Len(events)
        OBVIOUS
      <4>2. \A e \in 1 .. Len(events) : [events[e] EXCEPT !.due = FALSE] \in Events
        BY DueType, ElementOfSeq
      <4> QED
        BY <1>1, <4>1, <4>2 DEF ClaimPending
    <3> QED
      BY <3>1, SeqDef
  <2>2. Due \subseteq Nat
    BY DEF Due
  <2> QED
    BY <1>1, <2>1, <2>2 DEF ClaimPending, WorkerStates
<1>2. CASE Process(w)
  <2>1. PICK e \in worker[w].todo, pc \in WorkerPCs :
          worker' = [worker EXCEPT ![w] =
             [Idle EXCEPT !.todo = worker[w].todo \ {e}, !.event = e, !.pc = pc]]
    BY <1>2 DEF Process, WorkerPCs
  <2>2. [Idle EXCEPT !.todo = worker[w].todo \ {e}, !.event = e, !.pc = pc]
          \in WorkerStates
    BY <2>1 DEF WorkerStates
  <2> QED
    BY <1>2, <2>1, <2>2 DEF Process
<1>3. CASE Publish(w)
  <2>1. worker[w].event \in Nat
    BY DEF WorkerStates
  <2>2. events' \in Seq(Events)
    BY <1>3, <2>1, UpdateFacts DEF Publish
  <2> QED
    BY <1>3, <2>2, ProceedFacts DEF Publish, WorkerPCs
<1>4. CASE Claim(w)
  BY <1>4 DEF Claim, Rows, Statuses, WorkerStates, WorkerPCs
<1>5. CASE ClaimWithoutTarget(w)
  BY <1>5, OutcomeType, AfterFacts
     DEF ClaimWithoutTarget, AppendAttempt, Statuses, Failed, Attempts,
         NoMessage
<1>6. CASE ClaimRefused(w)
  BY <1>6, ProceedFacts DEF ClaimRefused, WorkerPCs
<1>7. CASE ClaimLost(w)
  BY <1>7, AfterFacts DEF ClaimLost, Rows
<1>8. CASE PreSendFails(w)
  <2>1. PICK s \in Failed : /\ row' = Outcome(s)
                            /\ Schedule(s)
                            /\ worker' = [worker EXCEPT ![w] = AfterDispatch(w, s)]
    BY <1>8 DEF PreSendFails, Failed
  <2> QED
    BY <1>8, <2>1, OutcomeType, AfterFacts, ScheduleFacts
       DEF PreSendFails, AppendAttempt, Statuses, Failed, Attempts, NoMessage
<1>9. CASE Gate(w)
  <2>1. row' \in Rows
    BY <1>9 DEF Gate, Rows, NoMessage
  <2>2. attempts' \in Seq(Attempts)
    BY <1>9 DEF Gate, AppendAttempt, Attempts, NoMessage
  <2>3. worker' \in [Workers -> WorkerStates]
    <3>1. Len(attempts) + 1 \in Nat
      OBVIOUS
    <3>2. [worker[w] EXCEPT !.pc = "send", !.attempt = Len(attempts) + 1]
            \in WorkerStates
      BY <3>1 DEF WorkerStates, WorkerPCs
    <3> QED
      BY <1>9, <3>2 DEF Gate
  <2> QED
    BY <1>9, <2>1, <2>2, <2>3 DEF Gate
<1>10. CASE Send(w)
  <2>1. PICK answer \in Attempts :
          worker' = [worker EXCEPT ![w].pc = "complete", ![w].answer = answer]
    <3>1. worker[w].attempt \in Nat
      BY DEF WorkerStates
    <3>2. ([status : {"accepted"}, message : {worker[w].attempt}]
             \cup [status : Failed, message : {NoMessage}]) \subseteq Attempts
      BY <3>1 DEF Attempts, NoMessage
    <3> QED
      BY <1>10, <3>2 DEF Send
  <2> QED
    BY <1>10, <2>1 DEF Send, WorkerStates, WorkerPCs
<1>11. CASE Complete(w)
  <2> DEFINE answer == worker[w].answer
  <2>1. answer \in Attempts
    BY DEF WorkerStates
  <2>2. PICK s \in Statuses :
          /\ row' = [Outcome(s) EXCEPT !.message = answer.message]
          /\ attempts' = [attempts EXCEPT ![worker[w].attempt] = answer]
          /\ Schedule(s)
          /\ worker' = [worker EXCEPT ![w] = AfterDispatch(w, s)]
    <3>1. answer.status \in Statuses
      BY <2>1 DEF Attempts, Statuses
    <3> DEFINE t == IF Exhausted(answer.status, worker[w].attempt)
                    THEN "permanent_failed" ELSE answer.status
    <3>2. t \in Statuses
      BY <3>1 DEF Statuses, Failed
    <3> QED
      BY <1>11, <3>2 DEF Complete
  <2>3. row' \in Rows
    BY <2>1, <2>2, OutcomeType DEF Rows, Attempts
  <2>4. attempts' \in Seq(Attempts)
    <3>1. worker[w].attempt \in Nat
      BY DEF WorkerStates
    <3> QED
      BY <2>1, <2>2, <3>1, UpdateFacts
  <2> QED
    BY <1>11, <2>2, <2>3, <2>4, AfterFacts, ScheduleFacts DEF Complete
<1>12. CASE DeadRead(w)
  BY <1>12 DEF DeadRead, WorkerStates, WorkerPCs
<1>13. CASE DeadRefused(w)
  BY <1>13, ProceedFacts DEF DeadRefused, WorkerPCs
<1>14. CASE DeadWrite(w)
  <2>1. row' \in Rows
    BY <1>14 DEF DeadWrite, WorkerStates, Rows, Statuses
  <2> QED
    BY <1>14, <2>1, ProceedFacts DEF DeadWrite, WorkerPCs
<1> QED
  BY <1>1, <1>2, <1>3, <1>4, <1>5, <1>6, <1>7, <1>8, <1>9, <1>10, <1>11,
     <1>12, <1>13, <1>14 DEF WorkerStep

\* Every step keeps the types.
LEMMA TypeStep == TypeOK /\ [Next]_vars => TypeOK'
<1> SUFFICES ASSUME TypeOK, [Next]_vars PROVE TypeOK'
  OBVIOUS
<1> USE ConstantTypes, BoundsAssumption DEF TypeOK, outside
<1>1. ASSUME NEW w \in Workers, WorkerStep(w) PROVE TypeOK'
  BY <1>1, WorkerTypes
<1>2. ASSUME NEW w \in Workers, Restart(w) PROVE TypeOK'
  BY <1>2 DEF Restart, Disturb
<1>3. ASSUME NEW m \in 1 .. Len(attempts), NEW k \in Kinds, ReceiptRead(m, k)
      PROVE  TypeOK'
  <2>1. PICK c \in BOOLEAN :
          receipts' = receipts \cup
            {[call |-> disturbances, message |-> m, kind |-> k, copy |-> row,
              last |-> Len(attempts), current |-> c]}
    BY <1>3 DEF ReceiptRead
  <2> QED
    BY <1>3, <2>1 DEF ReceiptRead, Receipts, Disturb
<1>4. ASSUME NEW r \in receipts, ReceiptWrite(r) PROVE TypeOK'
  <2>1. r \in Receipts /\ ReceiptStatus(r) \in Statuses
    BY ReceiptFacts DEF Statuses, Failed
  <2>2. row' \in Rows
    BY <1>4, <2>1 DEF ReceiptWrite, Receipts, Rows
  <2>3. events' \in Seq(Events)
    BY <1>4, ScheduleFacts DEF ReceiptWrite
  <2>4. recorded' \subseteq (Nat \X Kinds)
    BY <1>4, <2>1 DEF ReceiptWrite, Receipts
  <2> QED
    BY <1>4, <2>2, <2>3, <2>4 DEF ReceiptWrite
<1>5. CASE RetryRead
  BY <1>5 DEF RetryRead
<1>6. CASE RetryWrite
  <2>1. row' \in Rows
    BY <1>6, OutcomeType DEF RetryWrite, Statuses
  <2>2. events' \in Seq(Events)
    BY <1>6, AppendProperties DEF RetryWrite
  <2>3. retry' \in BOOLEAN
    BY <1>6 DEF RetryWrite
  <2> QED
    BY <1>6, <2>1, <2>2, <2>3 DEF RetryWrite
<1>7. CASE EventDue
  <2>1. events' \in Seq(Events)
    BY <1>7, EventDueFacts
  <2>2. disturbances' \in Nat /\ retries' \in Nat
    BY <1>7 DEF EventDue, Disturb
  <2> QED
    BY <1>7, <2>1, <2>2 DEF EventDue
<1>8. CASE LeaseEnds
  <2>1. row' \in Rows
    BY <1>8 DEF LeaseEnds, Rows
  <2>2. disturbances' \in Nat /\ retries' \in Nat
    BY <1>8 DEF LeaseEnds, Disturb
  <2> QED
    BY <1>8, <2>1, <2>2 DEF LeaseEnds
<1>9. CASE UNCHANGED vars
  BY <1>9 DEF vars
<1> QED
  BY <1>1, <1>2, <1>3, <1>4, <1>5, <1>6, <1>7, <1>8, <1>9 DEF Next

-----------------------------------------------------------------------------
\* A worker that does not move keeps its events in order when the delivery
\* does not become unfinished or in need of a new claim.
LEMMA HoldsStill ==
    ASSUME NEW v \in Workers, Holds(v),
           worker'[v] = worker[v], Len(events') = Len(events),
           row'.status \in Unfinished => row.status \in Unfinished,
           row'.status \in {"pending", "retryable_failed"}
             => row.status \in {"pending", "retryable_failed"}
    PROVE  Holds(v)'
BY DEF Holds

\* Neither does an event that is appended for a new attempt disturb it.
LEMMA HoldsAppend ==
    ASSUME NEW v \in Workers, TypeOK, Holds(v),
           worker'[v].pc = worker[v].pc,
           worker'[v].event = worker[v].event,
           worker'[v].todo = worker[v].todo,
           Len(events') = Len(events) + 1
    PROVE  Holds(v)'
BY DEF Holds, TypeOK, WorkerStates

\* A step of a worker keeps the queue in order.
LEMMA WorkerQueue ==
    ASSUME TypeOK, TypeOK', QueueInv, NEW w \in Workers, WorkerStep(w)
    PROVE  QueueInv'
<1>0. /\ Len(events) \in Nat
      /\ Len(events) > 0
      /\ \A v \in Workers : Holds(v)
      /\ worker[w] \in WorkerStates /\ worker[w].event \in Nat
      /\ row.status \in Statuses
  BY DEF TypeOK, QueueInv, WorkerStates, Rows
<1>1. CASE ClaimPending(w)
  <2>1. DOMAIN events = 1 .. Len(events) /\ Len(events') = Len(events)
    BY <1>1 DEF ClaimPending, TypeOK
  <2>2. events'[Len(events)].status = events[Len(events)].status
    BY <1>0, <1>1, <2>1, DueType, ElementOfSeq DEF ClaimPending, TypeOK
  <2>3. \A v \in Workers : Holds(v)'
    <3>1. Due \subseteq 1 .. Len(events)
      BY <2>1 DEF Due
    <3>2. Holds(w)'
      BY <1>0, <1>1, <2>1, <3>1 DEF ClaimPending, Holds, TypeOK, WorkerStates
    <3> QED
      BY <1>0, <1>1, <2>1, <3>2, HoldsStill DEF ClaimPending
  <2> QED
    BY <1>0, <1>1, <2>1, <2>2, <2>3 DEF ClaimPending, QueueInv
<1>2. CASE Process(w)
  <2>1. Holds(w)'
    <3>1. PICK e \in worker[w].todo, pc \in WorkerPCs :
            /\ worker' = [worker EXCEPT ![w] =
                 [Idle EXCEPT !.todo = worker[w].todo \ {e}, !.event = e, !.pc = pc]]
            /\ pc = "publish" => row.status \in Consumed
            /\ pc \in {"dead", "publish", "claim"}
      BY <1>2 DEF Process, WorkerPCs
    <3>2. e \in 1 .. Len(events) /\ worker[w].todo \subseteq 1 .. Len(events)
      BY <1>0 DEF Holds
    <3>3. /\ worker'[w].event = e
          /\ worker'[w].pc = pc
          /\ worker'[w].todo \subseteq worker[w].todo
      BY <3>1 DEF TypeOK, Idle
    <3>4. events' = events /\ row' = row
      BY <1>2 DEF Process
    <3> QED
      BY <1>0, <3>1, <3>2, <3>3, <3>4 DEF Holds, Consumed, Unfinished, Failed
  <2> QED
    BY <1>0, <1>2, <2>1, HoldsStill DEF Process, QueueInv
<1>3. CASE Publish(w)
  <2>1. /\ Len(events') = Len(events)
        /\ \A j \in 1 .. Len(events) :
             events'[j] = IF j = worker[w].event THEN Published ELSE events[j]
    BY <1>0, <1>3, ConstantTypes, UpdateFacts DEF Publish, TypeOK
  <2>2. row.status \in Unfinished => worker[w].event # Len(events)
    BY <1>0, <1>3 DEF Publish, Holds
  <2>3. /\ worker'[w] = Deferred(w)
        /\ \A v \in Workers \ {w} : worker'[v] = worker[v]
        /\ row' = row
    BY <1>3 DEF Publish, TypeOK
  <2>4. Holds(w)'
    BY <1>0, <2>1, <2>3, ProceedFacts DEF Holds, WorkerPCs
  <2> QED
    BY <1>0, <2>1, <2>2, <2>3, <2>4, HoldsStill DEF QueueInv
<1>4. CASE Claim(w)
  <2>1. /\ row'.status = "sending"
        /\ row.status \in Unfinished
        /\ events' = events
        /\ worker'[w] = [worker[w] EXCEPT !.pc = "presend"]
        /\ \A v \in Workers \ {w} : worker'[v] = worker[v]
    BY <1>0, <1>4 DEF Claim, Claimable, Unfinished, Failed, TypeOK, Rows
  <2>2. worker[w].pc # "idle"
    BY <1>4 DEF Claim
  <2>3. Holds(w)'
    BY <1>0, <2>1, <2>2 DEF Holds, WorkerStates
  <2> QED
    BY <1>0, <2>1, <2>3, HoldsStill DEF QueueInv
<1>5. CASE ClaimWithoutTarget(w)
  <2>1. /\ row'.status = "permanent_failed"
        /\ row.status \in Unfinished
        /\ events' = events
        /\ worker'[w] = AfterDispatch(w, "permanent_failed")
        /\ \A v \in Workers \ {w} : worker'[v] = worker[v]
    BY <1>0, <1>5, OutcomeType
       DEF ClaimWithoutTarget, Claimable, Unfinished, Failed, Statuses, TypeOK
  <2>2. worker[w].pc # "idle"
    BY <1>5 DEF ClaimWithoutTarget
  <2>3. Holds(w)'
    BY <1>0, <2>1, <2>2, AfterFacts DEF Holds, Statuses, Failed
  <2>4. \A v \in Workers \ {w} : Holds(v)'
    BY <1>0, <2>1, HoldsStill
  <2> QED
    BY <1>0, <2>1, <2>3, <2>4 DEF QueueInv
<1>6. CASE ClaimRefused(w)
  <2>1. /\ row' = row
        /\ events' = events
        /\ worker'[w] = Deferred(w)
        /\ \A v \in Workers \ {w} : worker'[v] = worker[v]
    BY <1>6 DEF ClaimRefused, TypeOK
  <2>2. Holds(w)'
    BY <1>0, <2>1, ProceedFacts DEF Holds, WorkerPCs
  <2> QED
    BY <1>0, <2>1, <2>2, HoldsStill DEF QueueInv
<1>7. CASE ClaimLost(w)
  <2>1. /\ row' = row
        /\ events' = events
        /\ worker[w].pc \in {"presend", "complete"}
        /\ worker'[w] = AfterDispatch(w, row.status)
        /\ \A v \in Workers \ {w} : worker'[v] = worker[v]
    BY <1>7 DEF ClaimLost, TypeOK
  <2>2. Holds(w)'
    BY <1>0, <2>1, AfterFacts DEF Holds, Unfinished, Failed
  <2> QED
    BY <1>0, <2>1, <2>2, HoldsStill DEF QueueInv
<1>8. ASSUME NEW s \in Statuses, row'.status = s, Schedule(s),
             row.status = "sending",
             worker[w].pc \in {"presend", "complete"},
             s # "pending",
             worker' = [worker EXCEPT ![w] = AfterDispatch(w, s)]
      PROVE  QueueInv'
  <2>1. /\ worker'[w] = AfterDispatch(w, s)
        /\ \A v \in Workers \ {w} : worker'[v] = worker[v]
    BY <1>8 DEF TypeOK
  <2>2. CASE s = "retryable_failed"
    <3>1. /\ Len(events') = Len(events) + 1
          /\ events'[Len(events) + 1] = NewEvent
      BY <1>8, <2>2, ScheduleFacts, ConstantTypes, AppendProperties DEF TypeOK
    <3>2. Holds(w)'
      BY <1>0, <1>8, <2>1, <3>1, AfterFacts DEF Holds
    <3>3. \A v \in Workers \ {w} : Holds(v)'
      BY <1>0, <2>1, <3>1, HoldsAppend
    <3> QED
      BY <1>0, <3>1, <3>2, <3>3 DEF QueueInv, NewEvent
  <2>3. CASE s # "retryable_failed"
    <3>1. events' = events
      BY <1>8, <2>3, ScheduleFacts
    <3>2. Holds(w)'
      BY <1>0, <1>8, <2>1, <2>3, <3>1, AfterFacts DEF Holds, Unfinished, Failed
    <3>3. \A v \in Workers \ {w} : Holds(v)'
      BY <1>0, <1>8, <2>1, <2>3, <3>1, HoldsStill DEF Unfinished
    <3> QED
      BY <1>0, <1>8, <2>1, <3>1, <3>2, <3>3 DEF QueueInv, Unfinished
  <2> QED
    BY <2>2, <2>3
<1>9. CASE PreSendFails(w)
  <2>1. PICK s \in Failed : /\ row' = Outcome(s)
                            /\ Schedule(s)
                            /\ worker' = [worker EXCEPT ![w] = AfterDispatch(w, s)]
    BY <1>9 DEF PreSendFails, Failed
  <2>2. s \in Statuses /\ s # "pending"
    BY DEF Statuses, Failed
  <2> QED
    BY <1>8, <1>9, <2>1, <2>2, OutcomeType DEF PreSendFails, Owns
<1>10. CASE Gate(w)
  <2>1. /\ row'.status = row.status
        /\ events' = events
        /\ worker[w].pc = "presend"
        /\ worker'[w] = [worker[w] EXCEPT !.pc = "send",
                                          !.attempt = Len(attempts) + 1]
        /\ \A v \in Workers \ {w} : worker'[v] = worker[v]
    BY <1>10 DEF Gate, TypeOK, Rows
  <2>2. worker'[w].pc = "send" /\ worker'[w].event = worker[w].event
        /\ worker'[w].todo = worker[w].todo
    BY <1>0, <2>1 DEF WorkerStates
  <2>3. Holds(w)'
    BY <1>0, <2>1, <2>2 DEF Holds
  <2> QED
    BY <1>0, <2>1, <2>3, HoldsStill DEF QueueInv
<1>11. CASE Send(w)
  <2>1. PICK answer :
          worker' = [worker EXCEPT ![w].pc = "complete", ![w].answer = answer]
    BY <1>11, Zenon DEF Send
  <2>2. /\ row' = row
        /\ events' = events
        /\ worker[w].pc = "send"
        /\ worker'[w] = [worker[w] EXCEPT !.pc = "complete", !.answer = answer]
        /\ \A v \in Workers \ {w} : worker'[v] = worker[v]
    BY <1>11, <2>1 DEF Send, TypeOK
  <2>3. worker'[w].pc = "complete" /\ worker'[w].event = worker[w].event
        /\ worker'[w].todo = worker[w].todo
    BY <1>0, <2>2 DEF WorkerStates
  <2>4. Holds(w)'
    BY <1>0, <2>2, <2>3 DEF Holds
  <2> QED
    BY <1>0, <2>2, <2>4, HoldsStill DEF QueueInv
<1>12. CASE Complete(w)
  <2> DEFINE answer == worker[w].answer
             s == IF Exhausted(answer.status, worker[w].attempt)
                  THEN "permanent_failed" ELSE answer.status
  <2>1. s \in Statuses /\ s # "pending"
    BY <1>0 DEF WorkerStates, Attempts, Statuses, Failed
  <2>2. row' = [Outcome(s) EXCEPT !.message = answer.message]
    BY <1>12 DEF Complete
  <2>3. row'.status = s
    BY <2>1, <2>2, OutcomeType DEF Rows
  <2>4. Schedule(s) /\ worker' = [worker EXCEPT ![w] = AfterDispatch(w, s)]
    BY <1>12 DEF Complete
  <2>5. row.status = "sending" /\ worker[w].pc = "complete"
    BY <1>12 DEF Complete, Owns
  <2> HIDE DEF s
  <2> QED
    BY <1>8, <2>1, <2>3, <2>4, <2>5
<1>13. CASE DeadRead(w)
  <2>1. /\ row' = row
        /\ events' = events
        /\ worker[w].pc = "dead"
        /\ worker'[w] = [worker[w] EXCEPT !.pc = "deadwrite", !.copy = row]
        /\ \A v \in Workers \ {w} : worker'[v] = worker[v]
    BY <1>13 DEF DeadRead, TypeOK
  <2>2. worker'[w].pc = "deadwrite" /\ worker'[w].event = worker[w].event
        /\ worker'[w].todo = worker[w].todo
    BY <1>0, <2>1 DEF WorkerStates
  <2>3. Holds(w)'
    BY <1>0, <2>1, <2>2 DEF Holds
  <2> QED
    BY <1>0, <2>1, <2>3, HoldsStill DEF QueueInv
<1>14. CASE DeadRefused(w)
  <2>1. /\ row' = row
        /\ events' = events
        /\ worker'[w] \in {Deferred(w), Idle}
        /\ \A v \in Workers \ {w} : worker'[v] = worker[v]
    BY <1>14 DEF DeadRefused, TypeOK
  <2>2. /\ worker'[w].pc = "idle"
        /\ worker'[w].event = 0
        /\ worker'[w].todo \subseteq worker[w].todo
    BY <1>0, <2>1, ProceedFacts DEF Idle, WorkerPCs
  <2>3. Holds(w)'
    BY <1>0, <2>1, <2>2 DEF Holds
  <2> QED
    BY <1>0, <2>1, <2>3, HoldsStill DEF QueueInv
<1>15. CASE DeadWrite(w)
  <2>1. /\ row'.status = "dead_letter"
        /\ events' = events
        /\ worker[w].pc = "deadwrite"
        /\ worker'[w] = Proceed(w, "publish")
        /\ \A v \in Workers \ {w} : worker'[v] = worker[v]
    BY <1>0, <1>15 DEF DeadWrite, TypeOK, WorkerStates, Rows
  <2>2. Holds(w)'
    BY <1>0, <2>1, ProceedFacts DEF Holds, WorkerPCs, Unfinished, Failed
  <2>3. \A v \in Workers \ {w} : Holds(v)'
    BY <1>0, <2>1, HoldsStill DEF Unfinished, Failed
  <2> QED
    BY <1>0, <2>1, <2>2, <2>3 DEF QueueInv, Unfinished, Failed
<1> QED
  BY <1>1, <1>2, <1>3, <1>4, <1>5, <1>6, <1>7, <1>9, <1>10, <1>11, <1>12,
     <1>13, <1>14, <1>15 DEF WorkerStep

\* Every step keeps the queue in order.
LEMMA QueueStep ==
    ASSUME TypeOK, TypeOK', QueueInv, [Next]_vars
    PROVE  QueueInv'
<1>0. /\ Len(events) \in Nat
      /\ Len(events) > 0
      /\ \A v \in Workers : Holds(v)
      /\ row.status \in Statuses
  BY DEF TypeOK, QueueInv, Rows
<1>1. ASSUME NEW w \in Workers, WorkerStep(w) PROVE QueueInv'
  BY <1>1, WorkerQueue
<1>2. ASSUME NEW w \in Workers, Restart(w) PROVE QueueInv'
  <2>1. /\ row' = row
        /\ events' = events
        /\ worker'[w] = Idle
        /\ \A v \in Workers \ {w} : worker'[v] = worker[v]
    BY <1>2 DEF Restart, TypeOK
  <2>2. Holds(w)'
    BY <1>0, <2>1 DEF Holds, Idle
  <2> QED
    BY <1>0, <2>1, <2>2, HoldsStill DEF QueueInv
<1>3. ASSUME row' = row, events' = events, worker' = worker PROVE QueueInv'
  BY <1>0, <1>3, HoldsStill DEF QueueInv
<1>4. ASSUME NEW m \in 1 .. Len(attempts), NEW k \in Kinds, ReceiptRead(m, k)
      PROVE  QueueInv'
  BY <1>3, <1>4 DEF ReceiptRead
\* A delivery in need of a new attempt gets an event for it.
<1>5. ASSUME worker' = worker, events' = Append(events, NewEvent) PROVE QueueInv'
  <2>1. /\ Len(events') = Len(events) + 1
        /\ events'[Len(events) + 1] = NewEvent
    BY <1>5, ConstantTypes, AppendProperties DEF TypeOK
  <2>2. \A v \in Workers : Holds(v)'
    BY <1>0, <1>5, <2>1, HoldsAppend
  <2> QED
    BY <1>0, <2>1, <2>2 DEF QueueInv, NewEvent
<1>6. ASSUME NEW r \in receipts, ReceiptWrite(r) PROVE QueueInv'
  <2> DEFINE s == ReceiptStatus(r)
  <2>1. r \in Receipts /\ s \in {"delivered", "dead_letter", "retryable_failed"}
    BY ReceiptFacts DEF TypeOK
  <2>2. worker' = worker
    BY <1>6 DEF ReceiptWrite
  <2>3. CASE r.current /\ s # r.copy.status
    <3>1. row' = [r.copy EXCEPT !.status = s] /\ Schedule(s)
      BY <1>6, <2>3 DEF ReceiptWrite
    <3>2. row'.status = s
      BY <2>1, <3>1 DEF Receipts, Rows
    <3>3. CASE s = "retryable_failed"
      BY <1>5, <2>2, <3>1, <3>3, ScheduleFacts
    <3>4. CASE s # "retryable_failed"
      <4>1. events' = events /\ row'.status \in {"delivered", "dead_letter"}
        BY <2>1, <3>1, <3>2, <3>4, ScheduleFacts
      <4>2. \A v \in Workers : Holds(v)'
        BY <1>0, <2>2, <4>1, HoldsStill DEF Unfinished, Failed
      <4> QED
        BY <1>0, <4>1, <4>2 DEF QueueInv, Unfinished, Failed
    <3> QED
      BY <3>3, <3>4
  <2>4. CASE ~(r.current /\ s # r.copy.status)
    BY <1>3, <1>6, <2>2, <2>4 DEF ReceiptWrite
  <2> QED
    BY <2>3, <2>4
<1>7. CASE RetryRead
  BY <1>3, <1>7 DEF RetryRead
<1>8. CASE RetryWrite
  BY <1>5, <1>8 DEF RetryWrite
<1>9. CASE EventDue
  <2>1. row' = row /\ worker' = worker
    BY <1>9 DEF EventDue
  <2>2. /\ Len(events') = Len(events)
        /\ events'[Len(events)].status = events[Len(events)].status
    BY <1>0, <1>9, EventDueFacts
  <2> QED
    BY <1>0, <2>1, <2>2, HoldsStill DEF QueueInv
<1>10. CASE LeaseEnds
  <2>1. row'.status = row.status /\ worker' = worker /\ events' = events
    BY <1>10 DEF LeaseEnds, TypeOK, Rows
  <2> QED
    BY <1>0, <2>1, HoldsStill DEF QueueInv
<1>11. CASE UNCHANGED vars
  BY <1>3, <1>11 DEF vars
<1> QED
  BY <1>1, <1>2, <1>4, <1>6, <1>7, <1>8, <1>9, <1>10, <1>11 DEF Next

-----------------------------------------------------------------------------
\* A worker that does not get a claim or an attempt keeps what it had.
LEMMA SendsStill ==
    ASSUME NEW v \in Workers, Sends(v),
           Owns(v)' => Owns(v),
           worker'[v].pc \in {"send", "complete"}
             => /\ worker[v].pc \in {"send", "complete"}
                /\ worker'[v].attempt = worker[v].attempt,
           Len(attempts') = Len(attempts)
    PROVE  Sends(v)'
BY DEF Sends

\* A delivery that is neither sent nor accepted owes its attempts nothing.
LEMMA AttemptFree ==
    ASSUME row'.status \notin {"sending", "accepted"}
    PROVE  AttemptInv'
BY DEF AttemptInv, AcceptedIsCurrent, Sends, Owns

\* A step that leaves the row and the attempts and moves one worker elsewhere.
LEMMA AttemptAside ==
    ASSUME TypeOK, AttemptInv, NEW w \in Workers,
           row' = row, attempts' = attempts,
           \A v \in Workers \ {w} : worker'[v] = worker[v],
           worker'[w].pc \in {"send", "complete"}
             => /\ worker[w].pc \in {"send", "complete"}
                /\ worker'[w].attempt = worker[w].attempt
    PROVE  AttemptInv'
<1>1. AcceptedIsCurrent'
  BY DEF AttemptInv, AcceptedIsCurrent
<1>2. \A v \in Workers : Owns(v)' = Owns(v)
  BY DEF Owns
<1>3. \A v \in Workers : Sends(v)'
  BY <1>2, SendsStill DEF AttemptInv
<1> QED
  BY <1>1, <1>3 DEF AttemptInv

\* A step of a worker keeps the attempts in order.
LEMMA WorkerAttempt ==
    ASSUME TypeOK, TypeOK', AttemptInv, NEW w \in Workers, WorkerStep(w)
    PROVE  AttemptInv'
<1>0. /\ worker[w] \in WorkerStates
      /\ row.status \in Statuses
      /\ Len(attempts) \in Nat
      /\ Sends(w)
  BY DEF TypeOK, Rows, AttemptInv
<1>1. CASE ClaimPending(w)
  <2>1. /\ row' = row /\ attempts' = attempts
        /\ worker'[w].pc = "idle"
        /\ \A v \in Workers \ {w} : worker'[v] = worker[v]
    BY <1>0, <1>1 DEF ClaimPending, TypeOK, WorkerStates
  <2> QED
    BY <2>1, AttemptAside
<1>2. CASE Process(w)
  <2>1. PICK e \in worker[w].todo, pc \in {"dead", "publish", "claim"} :
          worker' = [worker EXCEPT ![w] =
             [Idle EXCEPT !.todo = worker[w].todo \ {e}, !.event = e, !.pc = pc]]
    BY <1>2 DEF Process
  <2>2. /\ row' = row /\ attempts' = attempts
        /\ worker'[w].pc = pc
        /\ \A v \in Workers \ {w} : worker'[v] = worker[v]
    BY <1>2, <2>1 DEF Process, TypeOK, Idle
  <2> QED
    BY <2>2, AttemptAside
<1>3. CASE Publish(w)
  <2>1. /\ row' = row /\ attempts' = attempts
        /\ worker'[w] = Deferred(w)
        /\ \A v \in Workers \ {w} : worker'[v] = worker[v]
    BY <1>3 DEF Publish, TypeOK
  <2> QED
    BY <2>1, ProceedFacts, AttemptAside DEF WorkerPCs
<1>4. CASE Claim(w)
  <2>1. /\ row'.status = "sending" /\ row'.token = w
        /\ attempts' = attempts
        /\ worker'[w].pc = "presend"
        /\ \A v \in Workers \ {w} : worker'[v] = worker[v]
    BY <1>0, <1>4 DEF Claim, TypeOK, Rows, WorkerStates
  <2> QED
    BY <2>1 DEF AttemptInv, AcceptedIsCurrent, Sends, Owns
<1>5. CASE ClaimWithoutTarget(w)
  BY <1>5, OutcomeType, AttemptFree DEF ClaimWithoutTarget, Statuses, Failed
<1>6. CASE ClaimRefused(w)
  <2>1. /\ row' = row /\ attempts' = attempts
        /\ worker'[w] = Deferred(w)
        /\ \A v \in Workers \ {w} : worker'[v] = worker[v]
    BY <1>6 DEF ClaimRefused, TypeOK
  <2> QED
    BY <2>1, ProceedFacts, AttemptAside DEF WorkerPCs
<1>7. CASE ClaimLost(w)
  <2>1. /\ row' = row /\ attempts' = attempts
        /\ worker'[w] = AfterDispatch(w, row.status)
        /\ \A v \in Workers \ {w} : worker'[v] = worker[v]
    BY <1>7 DEF ClaimLost, TypeOK
  <2>2. worker'[w].pc \notin {"send", "complete"}
    BY <1>0, <2>1, AfterFacts
  <2> QED
    BY <2>1, <2>2, AttemptAside
<1>8. CASE PreSendFails(w)
  <2>1. PICK s \in Failed : row' = Outcome(s)
    BY <1>8 DEF PreSendFails, Failed
  <2> QED
    BY <2>1, OutcomeType, AttemptFree DEF Statuses, Failed
<1>9. CASE Gate(w)
  <2>1. /\ row'.status = "sending" /\ row'.token = w
        /\ worker'[w] = [worker[w] EXCEPT !.pc = "send",
                                          !.attempt = Len(attempts) + 1]
    BY <1>9 DEF Gate, TypeOK, Rows, Owns
  <2>2. worker'[w].attempt = Len(attempts) + 1
    BY <1>0, <2>1 DEF WorkerStates
  <2>3. Len(attempts') = Len(attempts) + 1
    BY <1>9 DEF Gate, AppendAttempt, TypeOK
  <2>4. AcceptedIsCurrent'
    BY <2>1 DEF AcceptedIsCurrent
  <2>5. Sends(w)'
    BY <1>0, <2>2, <2>3 DEF Sends
  <2>6. \A v \in Workers \ {w} : Sends(v)'
    BY <2>1 DEF Sends, Owns
  <2> QED
    BY <2>4, <2>5, <2>6 DEF AttemptInv
<1>10. CASE Send(w)
  <2>1. PICK answer :
          worker' = [worker EXCEPT ![w].pc = "complete", ![w].answer = answer]
    BY <1>10, Zenon DEF Send
  <2>2. /\ row' = row /\ attempts' = attempts
        /\ worker[w].pc = "send"
        /\ worker'[w] = [worker[w] EXCEPT !.pc = "complete", !.answer = answer]
        /\ \A v \in Workers \ {w} : worker'[v] = worker[v]
    BY <1>10, <2>1 DEF Send, TypeOK
  <2>3. worker'[w].attempt = worker[w].attempt
    BY <1>0, <2>2 DEF WorkerStates
  <2> QED
    BY <2>2, <2>3, AttemptAside
\* The owner's attempt is the latest one, so its answer is what the row shows.
<1>11. CASE Complete(w)
  <2> DEFINE answer == worker[w].answer
             s == IF Exhausted(answer.status, worker[w].attempt)
                  THEN "permanent_failed" ELSE answer.status
  <2>1. answer \in Attempts
    BY <1>0 DEF WorkerStates
  <2>2. /\ s \in Statuses
        /\ s = "accepted" => answer.status = "accepted"
    BY <2>1 DEF Attempts, Statuses, Failed
  <2>3. worker[w].attempt = Len(attempts) /\ Len(attempts) > 0
    BY <1>0, <1>11 DEF Complete, Sends
  <2>4. row' = [Outcome(s) EXCEPT !.message = answer.message]
    BY <1>11 DEF Complete
  <2> HIDE DEF s
  <2>5. /\ row'.status = s
        /\ row'.message = answer.message
        /\ row'.token = NoToken
    BY <2>1, <2>2, <2>4 DEF Outcome, NewRow, Attempts
  <2>6. /\ Len(attempts') = Len(attempts)
        /\ attempts'[Len(attempts)] = answer
        /\ attempts' \in Seq(Attempts)
    BY <1>0, <1>11, <2>1, <2>3, UpdateFacts DEF Complete, TypeOK
  <2>7. AcceptedIsCurrent'
    <3>1. SUFFICES ASSUME s = "accepted"
                   PROVE  /\ attempts' # <<>>
                          /\ answer = [status |-> "accepted",
                                       message |-> answer.message]
      BY <2>5, <2>6 DEF AcceptedIsCurrent
    <3>2. attempts' # <<>>
      BY <2>3, <2>6
    <3>3. answer = [status |-> "accepted", message |-> answer.message]
      BY <2>1, <2>2, <3>1 DEF Attempts
    <3> QED
      BY <3>2, <3>3
  <2>8. \A v \in Workers : Sends(v)'
    BY <2>5, WorkersAssumption DEF Sends, Owns, NoToken
  <2> QED
    BY <2>7, <2>8 DEF AttemptInv
<1>12. CASE DeadRead(w)
  <2>1. /\ row' = row /\ attempts' = attempts
        /\ worker'[w].pc = "deadwrite"
        /\ \A v \in Workers \ {w} : worker'[v] = worker[v]
    BY <1>0, <1>12 DEF DeadRead, TypeOK, WorkerStates
  <2> QED
    BY <2>1, AttemptAside
<1>13. CASE DeadRefused(w)
  <2>1. /\ row' = row /\ attempts' = attempts
        /\ worker'[w] \in {Deferred(w), Idle}
        /\ \A v \in Workers \ {w} : worker'[v] = worker[v]
    BY <1>13 DEF DeadRefused, TypeOK
  <2>2. worker'[w].pc = "idle"
    BY <2>1, ProceedFacts DEF Idle, WorkerPCs
  <2> QED
    BY <2>1, <2>2, AttemptAside
<1>14. CASE DeadWrite(w)
  <2>1. row'.status = "dead_letter"
    BY <1>0, <1>14 DEF DeadWrite, WorkerStates, Rows
  <2> QED
    BY <2>1, AttemptFree
<1> QED
  BY <1>1, <1>2, <1>3, <1>4, <1>5, <1>6, <1>7, <1>8, <1>9, <1>10, <1>11,
     <1>12, <1>13, <1>14 DEF WorkerStep

\* Every step keeps the attempts in order.
LEMMA AttemptStep ==
    ASSUME TypeOK, TypeOK', AttemptInv, [Next]_vars
    PROVE  AttemptInv'
<1>1. ASSUME NEW w \in Workers, WorkerStep(w) PROVE AttemptInv'
  BY <1>1, WorkerAttempt
<1>2. ASSUME NEW w \in Workers, Restart(w) PROVE AttemptInv'
  <2>1. /\ row' = row /\ attempts' = attempts
        /\ worker'[w] = Idle
        /\ \A v \in Workers \ {w} : worker'[v] = worker[v]
    BY <1>2 DEF Restart, TypeOK
  <2>2. worker'[w].pc = "idle"
    BY <2>1 DEF Idle
  <2> QED
    BY <2>1, <2>2, AttemptAside
<1>3. ASSUME row'.status = row.status, row'.token = row.token,
             row'.message = row.message, attempts' = attempts, worker' = worker
      PROVE  AttemptInv'
  BY <1>3 DEF AttemptInv, AcceptedIsCurrent, Sends, Owns
<1>4. ASSUME NEW m \in 1 .. Len(attempts), NEW k \in Kinds, ReceiptRead(m, k)
      PROVE  AttemptInv'
  BY <1>3, <1>4 DEF ReceiptRead
<1>5. ASSUME NEW r \in receipts, ReceiptWrite(r) PROVE AttemptInv'
  <2> DEFINE s == ReceiptStatus(r)
  <2>1. r \in Receipts /\ s \in {"delivered", "dead_letter", "retryable_failed"}
    BY ReceiptFacts DEF TypeOK
  <2>2. CASE row' = [r.copy EXCEPT !.status = s]
    <3>1. row'.status = s
      BY <2>1, <2>2 DEF Receipts, Rows
    <3> QED
      BY <2>1, <3>1, AttemptFree
  <2>3. CASE row' = row
    BY <1>3, <1>5, <2>3 DEF ReceiptWrite
  <2> QED
    BY <1>5, <2>2, <2>3 DEF ReceiptWrite
<1>6. CASE RetryRead
  BY <1>3, <1>6 DEF RetryRead
<1>7. CASE RetryWrite
  BY <1>7, OutcomeType, AttemptFree DEF RetryWrite, Statuses
<1>8. CASE EventDue
  BY <1>3, <1>8 DEF EventDue
<1>9. CASE LeaseEnds
  <2>1. /\ row'.status = row.status /\ row'.token = row.token
        /\ row'.message = row.message
    BY <1>9 DEF LeaseEnds, TypeOK, Rows
  <2> QED
    BY <1>3, <1>9, <2>1 DEF LeaseEnds
<1>10. CASE UNCHANGED vars
  BY <1>3, <1>10 DEF vars
<1> QED
  BY <1>1, <1>2, <1>4, <1>5, <1>6, <1>7, <1>8, <1>9, <1>10 DEF Next

-----------------------------------------------------------------------------
\* A set of calls is counted by a number.
LEMMA UnderWayType ==
    ASSUME TypeOK, LimitInv
    PROVE  UnderWay \in Nat
BY FS_CardinalityType DEF UnderWay, LimitInv, TypeOK

\* Nothing is attempted, and a new attempt is owed only if one was before or the
\* limit is not reached.
LEMMA LimitAside ==
    ASSUME TypeOK, LimitInv, \A v \in Workers : Answered(v)',
           UNCHANGED <<receipts, retry, disturbances, retries>>,
           Len(attempts') = Len(attempts),
           Owed' => Owed \/ Len(attempts) < MaximumAttempts
    PROVE  LimitInv'
<1>1. UnderWay' = UnderWay /\ UnderWay \in Nat
  BY UnderWayType DEF UnderWay
<1>2. Len(attempts) \in Nat /\ disturbances \in Nat /\ retries \in Nat
  BY DEF TypeOK
<1> QED
  BY <1>1, <1>2, BoundsAssumption DEF LimitInv

\* The attempt that was owed is made; another one is owed only below the limit.
LEMMA LimitAttempt ==
    ASSUME TypeOK, LimitInv, \A v \in Workers : Answered(v)',
           UNCHANGED <<receipts, retry, disturbances, retries>>,
           Owed, Len(attempts') = Len(attempts) + 1,
           Owed' => Len(attempts') < MaximumAttempts
    PROVE  LimitInv'
<1>1. UnderWay' = UnderWay /\ UnderWay \in Nat
  BY UnderWayType DEF UnderWay
<1>2. Len(attempts) \in Nat /\ disturbances \in Nat /\ retries \in Nat
  BY DEF TypeOK
<1> QED
  BY <1>1, <1>2, BoundsAssumption DEF LimitInv

\* A disturbance pays for the attempt it may make necessary.
LEMMA LimitDisturb ==
    ASSUME TypeOK, LimitInv, \A v \in Workers : Answered(v)',
           UNCHANGED <<receipts, retry, attempts>>, Disturb
    PROVE  LimitInv'
<1>1. UnderWay' = UnderWay /\ UnderWay \in Nat
  BY UnderWayType DEF UnderWay
<1>2. Len(attempts) \in Nat /\ disturbances \in Nat /\ retries \in Nat
  BY DEF TypeOK
<1> QED
  BY <1>1, <1>2, BoundsAssumption DEF LimitInv, Disturb

\* A worker that is not sending for the row owes and saves no attempt.
LEMMA OwedStill ==
    ASSUME TypeOK, NEW w \in Workers, row' = row,
           worker[w].pc \in {"send", "complete"} /\ Owns(w)
             => worker'[w].pc \in {"send", "complete"},
           \A v \in Workers \ {w} : worker'[v] = worker[v], Owed'
    PROVE  Owed
BY DEF Owed, Sending, Owns

\* A finished or given up attempt owes nothing.
LEMMA NotOwed ==
    ASSUME row'.status \notin {"pending", "retryable_failed", "sending"}
    PROVE  ~Owed'
BY DEF Owed

\* A delivery that can be claimed owes an attempt.
LEMMA OwedToClaim ==
    ASSUME Claimable
    PROVE  Owed
BY DEF Owed, Sending, Claimable

\* So does one that is claimed by a worker that has not begun to send.
LEMMA OwedBefore ==
    ASSUME TypeOK, NEW w \in Workers, Owns(w), worker[w].pc = "presend"
    PROVE  Owed
BY DEF Owed, Sending, Owns

\* A worker that has its answer has the answer of the platform.
LEMMA AnswerStep ==
    ASSUME TypeOK, TypeOK', \A v \in Workers : Answered(v), NEW w \in Workers, WorkerStep(w)
    PROVE  \A v \in Workers : Answered(v)'
<1>0. worker[w] \in WorkerStates /\ worker \in [Workers -> WorkerStates]
  BY DEF TypeOK
<1>1. \A v \in Workers \ {w} : worker'[v] = worker[v]
  BY <1>0 DEF WorkerStep, ClaimPending, Process, Publish, Claim, ClaimWithoutTarget,
              ClaimRefused, ClaimLost, PreSendFails, Gate, Send, Complete, DeadRead,
              DeadRefused, DeadWrite
<1>2. Answered(w)'
  <2>1. CASE Send(w)
    <3>1. PICK answer \in [status : {"accepted"}, message : {worker[w].attempt}]
                            \cup [status : Failed, message : {NoMessage}] :
            worker' = [worker EXCEPT ![w].pc = "complete", ![w].answer = answer]
      BY <2>1 DEF Send
    <3>2. answer.status \in {"accepted"} \cup Failed
      OBVIOUS
    <3>3. worker'[w].answer = answer
      BY <1>0, <3>1 DEF WorkerStates
    <3> QED
      BY <3>2, <3>3 DEF Answered, Failed
  <2>2. CASE ~Send(w)
    <3>1. ASSUME NEW s \in Statuses, worker' = [worker EXCEPT ![w] = AfterDispatch(w, s)]
          PROVE  worker'[w].pc # "complete"
      BY <1>0, <3>1, AfterFacts
    <3>2. CASE ClaimPending(w) \/ Claim(w) \/ Gate(w) \/ DeadRead(w)
      BY <1>0, <3>2 DEF ClaimPending, Claim, Gate, DeadRead, WorkerStates, Answered
    <3>3. CASE Process(w)
      <4>1. PICK e \in worker[w].todo, pc \in {"dead", "publish", "claim"} :
              worker' = [worker EXCEPT ![w] =
                 [Idle EXCEPT !.todo = worker[w].todo \ {e}, !.event = e, !.pc = pc]]
        BY <3>3 DEF Process
      <4> QED
        BY <1>0, <4>1 DEF Idle, Answered
    <3>4. CASE Publish(w) \/ ClaimRefused(w) \/ DeadRefused(w) \/ DeadWrite(w)
      BY <1>0, <3>4, ProceedFacts
         DEF Publish, ClaimRefused, DeadRefused, DeadWrite, Idle, WorkerPCs, Answered
    <3>5. CASE ClaimWithoutTarget(w) \/ ClaimLost(w)
      <4>1. row.status \in Statuses /\ "permanent_failed" \in Statuses
        BY DEF TypeOK, Rows, Statuses, Failed
      <4> QED
        BY <3>1, <3>5, <4>1 DEF ClaimWithoutTarget, ClaimLost, Answered
    <3>6. CASE PreSendFails(w)
      <4>1. PICK s \in Failed : worker' = [worker EXCEPT ![w] = AfterDispatch(w, s)]
        BY <3>6 DEF PreSendFails, Failed
      <4> QED
        BY <3>1, <4>1 DEF Answered, Statuses
    <3>7. CASE Complete(w)
      <4> DEFINE answer == worker[w].answer
                 s == IF Exhausted(answer.status, worker[w].attempt)
                      THEN "permanent_failed" ELSE answer.status
      <4>1. s \in Statuses
        BY <1>0 DEF WorkerStates, Attempts, Statuses, Failed
      <4>2. worker' = [worker EXCEPT ![w] = AfterDispatch(w, s)]
        BY <3>7 DEF Complete
      <4> QED
        BY <3>1, <4>1, <4>2 DEF Answered
    <3> QED
      BY <2>2, <3>2, <3>3, <3>4, <3>5, <3>6, <3>7 DEF WorkerStep
  <2> QED
    BY <2>1, <2>2
<1> QED
  BY <1>1, <1>2 DEF Answered

\* A step of a worker keeps the attempts within the limit.
LEMMA WorkerLimit ==
    ASSUME TypeOK, TypeOK', AttemptInv, LimitInv, NEW w \in Workers, WorkerStep(w)
    PROVE  LimitInv'
<1>0. /\ worker[w] \in WorkerStates /\ worker \in [Workers -> WorkerStates]
      /\ row \in Rows /\ row.status \in Statuses
      /\ attempts \in Seq(Attempts) /\ Len(attempts) \in Nat
      /\ Sends(w)
  BY DEF TypeOK, Rows, AttemptInv
<1>1. /\ UNCHANGED <<receipts, retry, disturbances, retries>>
      /\ \A v \in Workers : Answered(v)'
  <2>1. UNCHANGED <<receipts, retry, disturbances, retries>>
    BY DEF WorkerStep, outside, ClaimPending, Process, Publish, Claim, ClaimWithoutTarget,
           ClaimRefused, ClaimLost, PreSendFails, Gate, Send, Complete, DeadRead,
           DeadRefused, DeadWrite
  <2>2. \A v \in Workers : Answered(v)'
    BY AnswerStep DEF LimitInv
  <2> QED
    BY <2>1, <2>2
\* Steps that leave the row and the attempts.
<1>2. CASE ClaimPending(w) \/ Process(w) \/ Publish(w) \/ ClaimRefused(w) \/ ClaimLost(w)
             \/ Send(w) \/ DeadRead(w) \/ DeadRefused(w)
  <2>1. row' = row /\ attempts' = attempts
    BY <1>2 DEF ClaimPending, Process, Publish, ClaimRefused, ClaimLost, Send, DeadRead,
                DeadRefused
  <2>2. PICK x \in WorkerStates : worker' = [worker EXCEPT ![w] = x]
    <3> DEFINE x == worker'[w]
    <3>1. x \in WorkerStates
      BY DEF TypeOK
    <3>2. worker' = [worker EXCEPT ![w] = x]
      <4>1. \A v \in Workers \ {w} : worker'[v] = worker[v]
        BY <1>0, <1>2 DEF ClaimPending, Process, Publish, ClaimRefused, ClaimLost, Send,
                    DeadRead, DeadRefused
      <4>2. worker' \in [Workers -> WorkerStates]
        BY DEF TypeOK
      <4> HIDE DEF x
      <4>3. worker'[w] = x
        BY DEF x
      <4> QED
        BY <1>0, <4>1, <4>2, <4>3
    <3> QED
      BY <3>1, <3>2
  <2>3. worker[w].pc \in {"send", "complete"} /\ Owns(w)
          => worker'[w].pc \in {"send", "complete"}
    <3>1. CASE Send(w)
      BY <1>0, <3>1 DEF Send, WorkerStates
    <3>2. CASE ~Send(w)
      BY <1>2, <3>2 DEF ClaimPending, Process, Publish, ClaimRefused, ClaimLost, DeadRead,
                        DeadRefused
    <3> QED
      BY <3>1, <3>2
  <2>4. Owed' => Owed
    BY <1>0, <2>1, <2>2, <2>3, OwedStill
  <2> QED
    BY <1>1, <2>1, <2>4, LimitAside
<1>3. CASE Claim(w)
  <2>1. Claimable /\ attempts' = attempts
    BY <1>3 DEF Claim
  <2> QED
    BY <1>1, <2>1, OwedToClaim, LimitAside
<1>4. CASE ClaimWithoutTarget(w)
  <2>1. Owed
    BY <1>4, OwedToClaim DEF ClaimWithoutTarget
  <2>2. Len(attempts') = Len(attempts) + 1
    BY <1>0, <1>4 DEF ClaimWithoutTarget, AppendAttempt
  <2>3. row'.status = "permanent_failed"
    BY <1>4, OutcomeType DEF ClaimWithoutTarget, Statuses, Failed
  <2> QED
    BY <1>1, <2>1, <2>2, <2>3, NotOwed, LimitAttempt
<1>5. CASE PreSendFails(w)
  <2> DEFINE s == IF Exhausted("retryable_failed", Len(attempts) + 1)
                  THEN "permanent_failed" ELSE "retryable_failed"
  <2>1. Owed
    BY <1>5, OwedBefore DEF PreSendFails
  <2>2. Len(attempts') = Len(attempts) + 1
    BY <1>0, <1>5 DEF PreSendFails, AppendAttempt
  <2>3. row' = Outcome(s)
    BY <1>5 DEF PreSendFails
  <2>4. row'.status = s
    BY <2>3, OutcomeType DEF Statuses, Failed
  <2>5. s = "permanent_failed" \/ Len(attempts) + 1 < MaximumAttempts
    BY <1>0, BoundsAssumption DEF Exhausted
  <2>6. Owed' => Len(attempts') < MaximumAttempts
    BY <2>2, <2>4, <2>5, NotOwed
  <2> QED
    BY <1>1, <2>1, <2>2, <2>6, LimitAttempt
<1>6. CASE Gate(w)
  <2>1. Owed
    BY <1>6, OwedBefore DEF Gate
  <2>2. Len(attempts') = Len(attempts) + 1
    BY <1>0, <1>6 DEF Gate, AppendAttempt
  <2>3. row'.status = "sending" /\ row'.token = w /\ row'.fresh
    BY <1>0, <1>6 DEF Gate, Owns, Rows
  <2>4. worker'[w].pc = "send"
    BY <1>0, <1>6 DEF Gate, WorkerStates
  <2>5. ~Owed'
    BY <2>3, <2>4 DEF Owed, Sending, Owns
  <2> QED
    BY <1>1, <2>1, <2>2, <2>5, LimitAttempt
<1>7. CASE Complete(w)
  <2> DEFINE answer == worker[w].answer
             s == IF Exhausted(answer.status, worker[w].attempt)
                  THEN "permanent_failed" ELSE answer.status
  <2>1. answer \in Attempts
    BY <1>0 DEF WorkerStates
  <2>2. worker[w].attempt = Len(attempts) /\ Len(attempts) > 0
    BY <1>0, <1>7 DEF Complete, Sends
  <2>3. row' = [Outcome(s) EXCEPT !.message = answer.message]
    BY <1>7 DEF Complete
  <2>4. /\ s \in {"permanent_failed", "retryable_failed", "accepted"}
        /\ s = "retryable_failed" => Len(attempts) < MaximumAttempts
    BY <1>0, <1>7, <2>1, <2>2, BoundsAssumption
       DEF Exhausted, Attempts, Failed, Complete, LimitInv, Answered
  <2>5. Len(attempts') = Len(attempts)
    BY <1>0, <1>7, <2>1, <2>2, UpdateFacts DEF Complete
  <2> HIDE DEF s
  <2>6. row'.status = s
    BY <2>3 DEF Outcome, NewRow
  <2>7. Owed' => Len(attempts) < MaximumAttempts
    BY <2>4, <2>6 DEF Owed
  <2> QED
    BY <1>1, <2>5, <2>7, LimitAside
<1>8. CASE DeadWrite(w)
  <2>1. row'.status = "dead_letter" /\ attempts' = attempts
    BY <1>0, <1>8 DEF DeadWrite, WorkerStates, Rows
  <2> QED
    BY <1>1, <2>1, NotOwed, LimitAside
<1> QED
  BY <1>2, <1>3, <1>4, <1>5, <1>6, <1>7, <1>8 DEF WorkerStep

\* Every step keeps the attempts within the limit.
LEMMA LimitStep ==
    ASSUME TypeOK, TypeOK', AttemptInv, LimitInv, [Next]_vars
    PROVE  LimitInv'
<1>0. /\ IsFiniteSet(receipts) /\ Cardinality(receipts) \in Nat
      /\ disturbances \in Nat /\ retries \in Nat /\ Len(attempts) \in Nat
      /\ worker \in [Workers -> WorkerStates] /\ row \in Rows /\ retry \in BOOLEAN
      /\ \A v \in Workers : Answered(v)
  BY FS_CardinalityType DEF LimitInv, TypeOK
<1>1. ASSUME NEW w \in Workers, WorkerStep(w) PROVE LimitInv'
  BY <1>1, WorkerLimit
<1>2. ASSUME NEW w \in Workers, Restart(w) PROVE LimitInv'
  <2>1. UNCHANGED <<receipts, retry, attempts>> /\ Disturb
    BY <1>2 DEF Restart
  <2>2. \A v \in Workers : Answered(v)'
    BY <1>0, <1>2 DEF Restart, Answered, Idle
  <2> QED
    BY <2>1, <2>2, LimitDisturb
<1>3. worker' = worker => \A v \in Workers : Answered(v)'
  BY <1>0 DEF Answered
<1>4. ASSUME NEW m \in 1 .. Len(attempts), NEW k \in Kinds, ReceiptRead(m, k)
      PROVE  LimitInv'
  <2>1. PICK c : receipts' = receipts \cup {c}
    BY <1>4 DEF ReceiptRead
  <2>2. /\ IsFiniteSet(receipts') /\ Cardinality(receipts') \in Nat
        /\ Cardinality(receipts') <= Cardinality(receipts) + 1
    <3>1. /\ IsFiniteSet(receipts \cup {c})
          /\ Cardinality(receipts \cup {c}) \in {Cardinality(receipts), Cardinality(receipts) + 1}
      BY <1>0, FS_AddElement
    <3> QED
      BY <1>0, <2>1, <3>1
  <2>3. /\ disturbances' = disturbances + 1 /\ retries' = retries
        /\ UNCHANGED <<row, attempts, worker, retry>>
    BY <1>4 DEF ReceiptRead, Disturb
  <2>4. Owed' = Owed
    BY <2>3 DEF Owed, Sending, Owns
  <2> QED
    BY <1>0, <1>3, <2>2, <2>3, <2>4, BoundsAssumption DEF LimitInv, UnderWay
\* The call that wrote the row is not under way any more.
<1>5. ASSUME NEW r \in receipts, ReceiptWrite(r) PROVE LimitInv'
  <2>1. /\ IsFiniteSet(receipts') /\ Cardinality(receipts') = Cardinality(receipts) - 1
    BY <1>0, <1>5, FS_RemoveElement DEF ReceiptWrite
  <2>2. UNCHANGED <<attempts, worker, retry, disturbances, retries>>
    BY <1>5 DEF ReceiptWrite
  <2> QED
    BY <1>0, <1>3, <2>1, <2>2, BoundsAssumption DEF LimitInv, UnderWay
<1>6. CASE RetryRead
  <2>1. /\ ~retry /\ retry' = TRUE /\ retries' = retries + 1
        /\ UNCHANGED <<row, attempts, worker, receipts, disturbances>>
    BY <1>6 DEF RetryRead
  <2>2. Owed' = Owed
    BY <2>1 DEF Owed, Sending, Owns
  <2>3. UnderWay = Cardinality(receipts) /\ UnderWay' = Cardinality(receipts) + 1
    BY <1>0, <2>1 DEF UnderWay
  <2> QED
    BY <1>0, <1>3, <2>1, <2>2, <2>3, BoundsAssumption DEF LimitInv
<1>7. CASE RetryWrite
  <2>1. /\ retry /\ retry' = FALSE
        /\ UNCHANGED <<attempts, worker, receipts, disturbances, retries>>
    BY <1>7 DEF RetryWrite
  <2>2. UnderWay = Cardinality(receipts) + 1 /\ UnderWay' = Cardinality(receipts)
    BY <1>0, <2>1 DEF UnderWay
  <2> QED
    BY <1>0, <1>3, <2>1, <2>2, BoundsAssumption DEF LimitInv
<1>8. CASE EventDue
  <2>1. UNCHANGED <<row, attempts, worker, receipts, retry>>
    BY <1>8 DEF EventDue
  <2>2. Disturb \/ UNCHANGED <<disturbances, retries>>
    BY <1>8 DEF EventDue
  <2>3. Owed' => Owed
    BY <2>1 DEF Owed, Sending, Owns
  <2> QED
    BY <1>3, <2>1, <2>2, <2>3, LimitDisturb, LimitAside
\* A claim that ends without a worker that sends for it was owed before.
<1>9. CASE LeaseEnds
  <2>1. UNCHANGED <<attempts, worker, receipts, retry>>
    BY <1>9 DEF LeaseEnds
  <2>2. CASE Disturb
    BY <1>3, <2>1, <2>2, LimitDisturb
  <2>3. CASE ~Disturb
    <3>1. UNCHANGED <<disturbances, retries>> /\ Owed
      BY <1>9, <2>3 DEF LeaseEnds, Owed, Sending, Owns
    <3> QED
      BY <1>3, <2>1, <3>1, LimitAside
  <2> QED
    BY <2>2, <2>3
<1>10. CASE UNCHANGED vars
  <2>1. UNCHANGED <<row, attempts, worker, receipts, retry, disturbances, retries>>
    BY <1>10 DEF vars, outside
  <2>2. Owed' => Owed
    BY <2>1 DEF Owed, Sending, Owns
  <2> QED
    BY <1>3, <2>1, <2>2, LimitAside
<1> QED
  BY <1>1, <1>2, <1>4, <1>5, <1>6, <1>7, <1>8, <1>9, <1>10 DEF Next

-----------------------------------------------------------------------------
\* The inductive invariant holds at first and is kept.
THEOREM Inductive == Spec => []IInv
<1>1. Init => IInv
  <2> SUFFICES ASSUME Init PROVE IInv
    OBVIOUS
  <2>1. /\ events = <<NewEvent>> /\ attempts = <<>>
        /\ events \in Seq(Events) /\ attempts \in Seq(Attempts)
        /\ Len(events) = 1 /\ events[1] = NewEvent
    BY ConstantTypes DEF Init
  <2>2. TypeOK
    BY <2>1, ConstantTypes DEF Init, TypeOK
  <2>3. QueueInv
    BY <2>1 DEF Init, QueueInv, Holds, Idle, NewEvent
  <2>4. AttemptInv
    BY DEF Init, AttemptInv, AcceptedIsCurrent, Sends, Owns, NewRow
  <2>5. LimitInv
    <3>1. receipts = {} /\ ~retry /\ disturbances = 0 /\ retries = 0 /\ Len(attempts) = 0
      BY <2>1 DEF Init
    <3>2. IsFiniteSet(receipts) /\ Cardinality(receipts) = 0
      BY <3>1, FS_EmptySet
    <3>3. \A w \in Workers : Answered(w)
      BY DEF Init, Answered, Idle
    <3> QED
      BY <3>1, <3>2, <3>3, BoundsAssumption DEF LimitInv, UnderWay
  <2> QED
    BY <2>2, <2>3, <2>4, <2>5 DEF IInv
<1>2. IInv /\ [Next]_vars => IInv'
  BY TypeStep, QueueStep, AttemptStep, LimitStep DEF IInv
<1> QED
  BY <1>1, <1>2, PTL DEF Spec

\* No delivery is stranded, with any number of gateway processes dying, losing
\* their claims and racing with receipts and manual retries (process, dispatch,
\* markDeadLetter, record, retryDeadLetter): the newest event is the one that
\* is still to be processed.
THEOREM NoDeliveryStranded == Spec => []NotStranded
<1>1. IInv => NotStranded
  <2> SUFFICES ASSUME IInv, row.status \in Unfinished PROVE NotStranded
    BY DEF NotStranded
  <2>1. Len(events) \in DOMAIN events
    BY DEF IInv, TypeOK, QueueInv
  <2>2. /\ events[Len(events)].status = "pending"
        /\ \A w \in Workers :
             ~(worker[w].pc = "publish" /\ worker[w].event = Len(events))
    BY DEF IInv, QueueInv, Holds
  <2> QED
    BY <2>1, <2>2 DEF NotStranded
<1> QED
  BY <1>1, Inductive, PTL

\* An accepted delivery shows the message of its latest attempt, whichever
\* worker sent it (dispatch saves an outcome only while its claim is held).
THEOREM AcceptedMatchesAttempt == Spec => []AcceptedIsCurrent
<1>1. IInv => AcceptedIsCurrent
  BY DEF IInv, AttemptInv
<1> QED
  BY <1>1, Inductive, PTL

\* The attempts stay within the automatic ones and one for each manual retry, dead
\* process, lost claim or receipt, however those race with dispatch, with
\* recordPreSendFailure and with each other.
THEOREM SendingIsLimited == Spec => []AttemptsAreLimited
<1>1. IInv => AttemptsAreLimited
  <2> SUFFICES ASSUME IInv PROVE AttemptsAreLimited
    OBVIOUS
  <2>1. UnderWay \in Nat /\ Len(attempts) \in Nat /\ disturbances \in Nat /\ retries \in Nat
    BY UnderWayType DEF IInv, TypeOK
  <2> QED
    BY <2>1, BoundsAssumption DEF IInv, LimitInv, AttemptsAreLimited
<1> QED
  BY <1>1, Inductive, PTL
=============================================================================
