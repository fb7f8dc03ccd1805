-------------------------- MODULE DeliveryDispatch --------------------------
(***************************************************************************)
(* How the IM gateway gets one notification to the chat platform: the      *)
(* delivery row with its claim, the attempts, the outbox events that make  *)
(* the workers act, the platform's receipts and the operator's manual      *)
(* retry.                                                                  *)
(*                                                                         *)
(* Several gateway processes run a DeliveryOutboxWorker each.  A claim is  *)
(* one UPDATE statement with a random token, and dispatch writes the row   *)
(* only while its token is in it (saveIfClaimed).  markDeadLetter, the     *)
(* receipts and the manual retry read the row and later save all of it,    *)
(* at PostgreSQL's default isolation and without a row lock: they are two  *)
(* steps.  A call that throws changes nothing.                             *)
(***************************************************************************)
EXTENDS Integers, Sequences

CONSTANTS
    Workers,             \* the gateway processes
    MaximumAttempts,     \* MAX_AUTOMATIC_DELIVERY_ATTEMPTS
    MaxDisturbances,     \* bound: leases of a claim or of an event that end
                         \* under their worker, processes that die, receipts
    MaxRetries           \* bound: manual retries

ASSUME WorkersAssumption == 0 \notin Workers
ASSUME BoundsAssumption ==
    /\ MaximumAttempts \in Nat \ {0}
    /\ MaxDisturbances \in Nat
    /\ MaxRetries \in Nat

NoToken == 0          \* claim_token is null
NoMessage == 0        \* no platform message id is known

VARIABLES
    row,       \* the delivery: status, claim token, lease, platform message
    attempts,  \* its attempts by number: status and platform message
    events,    \* its outbox events: status, and whether available_at is past
    worker,    \* where each process is in runOnce, process and dispatch
    receipts,  \* calls of DefaultReceiptApplication.record under way
    recorded,  \* receipts stored, by dedupe key
    retry,     \* a call of retryDeadLetter has read the row
    disturbances, retries   \* spent of the bounds

outside == <<receipts, recorded, retry, disturbances, retries>>
vars == <<row, attempts, events, worker, outside>>

Failed   == {"retryable_failed", "permanent_failed"}
Statuses == {"pending", "sending", "accepted", "delivered", "dead_letter"}
            \cup Failed
Kinds    == {"delivered", "retryable", "permanent"}

Rows == [status : Statuses, token : Workers \cup {NoToken}, fresh : BOOLEAN,
         message : Nat]
Attempts == [status : {"sending", "accepted"} \cup Failed, message : Nat]
Events   == [status : {"pending", "published"}, due : BOOLEAN]
WorkerPCs == {"idle", "claim", "presend", "send", "complete", "dead",
              "deadwrite", "publish"}
WorkerStates == [pc : WorkerPCs, todo : SUBSET Nat, event : Nat,
                 attempt : Nat, answer : Attempts, tried : BOOLEAN, copy : Rows]
Receipts == [call : Nat, message : Nat, kind : Kinds, copy : Rows, last : Nat,
             current : BOOLEAN]

\* Every row, worker and call has the shape the code gives it.
TypeOK ==
    /\ row \in Rows
    /\ attempts \in Seq(Attempts)
    /\ events \in Seq(Events)
    /\ worker \in [Workers -> WorkerStates]
    /\ receipts \subseteq Receipts
    /\ recorded \subseteq (Nat \X Kinds)
    /\ retry \in BOOLEAN
    /\ disturbances \in Nat /\ retries \in Nat

\* createIfAbsent with its im.delivery.requested event.
NewRow == [status |-> "pending", token |-> NoToken, fresh |-> FALSE,
           message |-> NoMessage]
NewEvent == [status |-> "pending", due |-> FALSE]
Published == [status |-> "published", due |-> FALSE]
NoAnswer == [status |-> "sending", message |-> NoMessage]
Idle == [pc |-> "idle", todo |-> {}, event |-> 0, attempt |-> 0,
         answer |-> NoAnswer, tried |-> FALSE, copy |-> NewRow]

Init ==
    /\ row = NewRow
    /\ attempts = <<>>
    /\ events = <<NewEvent>>
    /\ worker = [w \in Workers |-> Idle]
    /\ receipts = {}
    /\ recorded = {}
    /\ retry = FALSE
    /\ disturbances = 0 /\ retries = 0

Disturb ==
    /\ disturbances < MaxDisturbances
    /\ disturbances' = disturbances + 1
    /\ UNCHANGED retries

-----------------------------------------------------------------------------
(* The outbox worker.                                                      *)

Due == {e \in DOMAIN events : events[e].status = "pending" /\ events[e].due}

\* The due events are leased by moving available_at.  An event that other
\* deliveries keep out of the batch is one that is due later.
ClaimPending(w) ==
    /\ worker[w].pc = "idle"
    /\ worker[w].todo = {}
    /\ Due # {}
    /\ events' = [e \in DOMAIN events |-> [events[e] EXCEPT !.due = FALSE]]
    /\ worker' = [worker EXCEPT ![w].todo = Due]
    /\ UNCHANGED <<row, attempts, outside>>

Consumed == {"accepted", "delivered", "dead_letter"}

Process(w) ==
    /\ worker[w].pc = "idle"
    /\ \E e \in worker[w].todo :
         worker' = [worker EXCEPT ![w] =
           [Idle EXCEPT
              !.todo = worker[w].todo \ {e},
              !.event = e,
              !.pc = CASE row.status = "permanent_failed" -> "dead"
                       [] row.status \in Consumed -> "publish"
                       [] OTHER -> "claim"]]
    /\ UNCHANGED <<row, attempts, events, outside>>

\* The event stays pending: it comes again when its lease has ended.
Deferred(w) == [Idle EXCEPT !.todo = worker[w].todo]

\* The event is taken to pc.
Proceed(w, pc) == [Deferred(w) EXCEPT !.event = worker[w].event, !.pc = pc]

\* What process does with the delivery that dispatch returned.
AfterDispatch(w, status) ==
    CASE status = "sending" -> Deferred(w)
      [] status = "permanent_failed" ->
           [Proceed(w, "dead") EXCEPT !.tried = TRUE]
      [] OTHER -> Proceed(w, "publish")

Publish(w) ==
    /\ worker[w].pc = "publish"
    /\ events' = [events EXCEPT ![worker[w].event] = Published]
    /\ worker' = [worker EXCEPT ![w] = Deferred(w)]
    /\ UNCHANGED <<row, attempts, outside>>

-----------------------------------------------------------------------------
(* dispatch.                                                               *)

\* Mutant of Claimable: a claim is never taken over.
ClaimableOnce == row.status \in {"pending", "retryable_failed"}

Claimable ==
    \/ row.status \in {"pending", "retryable_failed"}
    \/ row.status = "sending" /\ ~row.fresh

Owns(w) == row.status = "sending" /\ row.token = w

\* withoutDeliveryAttemptOutcome: no message and no claim of an earlier attempt.
Outcome(status) == [NewRow EXCEPT !.status = status]

AppendAttempt(status) ==
    attempts' = Append(attempts, [status |-> status, message |-> NoMessage])

Claim(w) ==
    /\ worker[w].pc = "claim"
    /\ Claimable
    /\ row' = [row EXCEPT !.status = "sending", !.token = w, !.fresh = TRUE]
    /\ worker' = [worker EXCEPT ![w].pc = "presend"]
    /\ UNCHANGED <<attempts, events, outside>>

\* The binding, the identity or the account is gone.
ClaimWithoutTarget(w) ==
    /\ worker[w].pc = "claim"
    /\ Claimable
    /\ row' = Outcome("permanent_failed")
    /\ AppendAttempt("permanent_failed")
    /\ worker' = [worker EXCEPT ![w] = AfterDispatch(w, "permanent_failed")]
    /\ UNCHANGED <<events, outside>>

ClaimRefused(w) ==
    /\ worker[w].pc = "claim"
    /\ ~Claimable
    /\ worker' = [worker EXCEPT ![w] = Deferred(w)]
    /\ UNCHANGED <<row, attempts, events, outside>>

\* The claim was lost: dispatch writes nothing and returns the current row.
ClaimLost(w) ==
    /\ worker[w].pc \in {"presend", "complete"}
    /\ ~Owns(w)
    /\ worker' = [worker EXCEPT ![w] = AfterDispatch(w, row.status)]
    /\ UNCHANGED <<row, attempts, events, outside>>

\* Mutant of Schedule: no event for the next attempt.
ScheduleNothing(status) == UNCHANGED events

\* A retryable failure gets an im.delivery.retry-scheduled event.
Schedule(status) ==
    events' = IF status = "retryable_failed" THEN Append(events, NewEvent)
              ELSE events

\* Mutant of Exhausted: one attempt more.
ExhaustedLater(status, attempt) ==
    status = "retryable_failed" /\ attempt > MaximumAttempts

Exhausted(status, attempt) ==
    status = "retryable_failed" /\ attempt >= MaximumAttempts

PreSendFails(w) ==
    /\ worker[w].pc = "presend"
    /\ Owns(w)
    /\ LET status == IF Exhausted("retryable_failed", Len(attempts) + 1)
                     THEN "permanent_failed" ELSE "retryable_failed"
       IN  /\ row' = Outcome(status)
           /\ Schedule(status)
           /\ worker' = [worker EXCEPT ![w] = AfterDispatch(w, status)]
    /\ AppendAttempt("retryable_failed")
    /\ UNCHANGED outside

Gate(w) ==
    /\ worker[w].pc = "presend"
    /\ Owns(w)
    /\ row' = [row EXCEPT !.fresh = TRUE, !.message = NoMessage]
    /\ AppendAttempt("sending")
    /\ worker' = [worker EXCEPT ![w].pc = "send",
                                ![w].attempt = Len(attempts) + 1]
    /\ UNCHANGED <<events, outside>>

\* The platform's answer: a message with an id of its own, or a failure; an
\* exception counts as a retryable one.
Send(w) ==
    /\ worker[w].pc = "send"
    /\ \E answer \in [status : {"accepted"}, message : {worker[w].attempt}]
                      \cup [status : Failed, message : {NoMessage}] :
         worker' = [worker EXCEPT ![w].pc = "complete", ![w].answer = answer]
    /\ UNCHANGED <<row, attempts, events, outside>>

\* Mutant of Complete: the outcome is saved whoever holds the claim.
CompleteUnclaimed(w) ==
    /\ worker[w].pc = "complete"
    /\ LET answer == worker[w].answer
           status == IF Exhausted(answer.status, worker[w].attempt)
                     THEN "permanent_failed" ELSE answer.status
       IN  /\ row' = [Outcome(status) EXCEPT !.message = answer.message]
           /\ attempts' = [attempts EXCEPT ![worker[w].attempt] = answer]
           /\ Schedule(status)
           /\ worker' = [worker EXCEPT ![w] = AfterDispatch(w, status)]
    /\ UNCHANGED outside

Complete(w) ==
    /\ worker[w].pc = "complete"
    /\ Owns(w)
    /\ LET answer == worker[w].answer
           status == IF Exhausted(answer.status, worker[w].attempt)
                     THEN "permanent_failed" ELSE answer.status
       IN  /\ row' = [Outcome(status) EXCEPT !.message = answer.message]
           /\ attempts' = [attempts EXCEPT ![worker[w].attempt] = answer]
           /\ Schedule(status)
           /\ worker' = [worker EXCEPT ![w] = AfterDispatch(w, status)]
    /\ UNCHANGED outside

-----------------------------------------------------------------------------
(* markDeadLetter.                                                         *)

DeadRead(w) ==
    /\ worker[w].pc = "dead"
    /\ row.status \in Failed
    /\ worker' = [worker EXCEPT ![w].pc = "deadwrite", ![w].copy = row]
    /\ UNCHANGED <<row, attempts, events, outside>>

\* Outside the try block of process the exception ends the batch.
DeadRefused(w) ==
    /\ worker[w].pc = "dead"
    /\ row.status \notin Failed
    /\ worker' = [worker EXCEPT ![w] =
                    IF worker[w].tried THEN Deferred(w) ELSE Idle]
    /\ UNCHANGED <<row, attempts, events, outside>>

DeadWrite(w) ==
    /\ worker[w].pc = "deadwrite"
    /\ row' = [worker[w].copy EXCEPT !.status = "dead_letter"]
    /\ worker' = [worker EXCEPT ![w] = Proceed(w, "publish")]
    /\ UNCHANGED <<attempts, events, outside>>

-----------------------------------------------------------------------------
(* Receipts of the platform, and the operator.                             *)

\* Only a receipt of the current, accepted attempt may advance the delivery.
ReceiptRead(m, k) ==
    /\ <<m, k>> \notin recorded
    /\ \E i \in DOMAIN attempts : attempts[i].message = m
    /\ Disturb
    /\ receipts' = receipts \cup
         {[call |-> disturbances, message |-> m, kind |-> k, copy |-> row,
           last |-> Len(attempts),
           current |-> /\ m = row.message
                       /\ attempts[Len(attempts)].status = "accepted"
                       /\ attempts[Len(attempts)].message = m]}
    /\ UNCHANGED <<row, attempts, events, worker, recorded, retry>>

AdvanceDeliveryStatus(status, kind) ==
    CASE status = "delivered" \/ kind = "delivered" -> "delivered"
      [] status \in {"dead_letter", "permanent_failed"} -> status
      [] kind = "retryable" -> "retryable_failed"
      [] OTHER -> "permanent_failed"

ReceiptStatus(r) ==
    LET status == AdvanceDeliveryStatus(r.copy.status, r.kind)
    IN  IF status = "permanent_failed" \/ Exhausted(status, r.last)
        THEN "dead_letter" ELSE status

\* A receipt that was stored meanwhile is ignored as a row (ON CONFLICT DO
\* NOTHING), and the call goes on.
ReceiptWrite(r) ==
    /\ receipts' = receipts \ {r}
    /\ recorded' = recorded \cup {<<r.message, r.kind>>}
    /\ LET status == ReceiptStatus(r)
           advance == r.current /\ status # r.copy.status
       IN  /\ row' = IF advance THEN [r.copy EXCEPT !.status = status] ELSE row
           /\ IF advance THEN Schedule(status) ELSE UNCHANGED events
    /\ UNCHANGED <<attempts, worker, retry, disturbances, retries>>

RetryRead ==
    /\ ~retry
    /\ row.status \in {"dead_letter", "permanent_failed"}
    /\ retries < MaxRetries
    /\ retries' = retries + 1
    /\ retry' = TRUE
    /\ UNCHANGED <<row, attempts, events, worker, receipts, recorded,
                   disturbances>>

\* Nothing of what was read survives in the row that is saved.
RetryWrite ==
    /\ retry
    /\ row' = Outcome("pending")
    /\ events' = Append(events, NewEvent)
    /\ retry' = FALSE
    /\ UNCHANGED <<attempts, worker, receipts, recorded, disturbances,
                   retries>>

-----------------------------------------------------------------------------
(* Time, and processes that die.                                           *)

\* available_at comes: the back-off or the lease of an event is over.
EventDue ==
    /\ \E e \in DOMAIN events :
         /\ events[e].status = "pending" /\ ~events[e].due
         /\ events' = [events EXCEPT ![e].due = TRUE]
         /\ IF \E w \in Workers : e \in worker[w].todo \cup {worker[w].event}
            THEN Disturb
            ELSE UNCHANGED <<disturbances, retries>>
    /\ UNCHANGED <<row, attempts, worker, receipts, recorded, retry>>

\* The lease of a claim ends, under its worker or after that one died.
LeaseEnds ==
    /\ row.status = "sending" /\ row.fresh
    /\ row' = [row EXCEPT !.fresh = FALSE]
    /\ IF \E w \in Workers : /\ row.token = w
                             /\ worker[w].pc \in {"presend", "send", "complete"}
       THEN Disturb
       ELSE UNCHANGED <<disturbances, retries>>
    /\ UNCHANGED <<attempts, events, worker, receipts, recorded, retry>>

Restart(w) ==
    /\ worker[w] # Idle
    /\ Disturb
    /\ worker' = [worker EXCEPT ![w] = Idle]
    /\ UNCHANGED <<row, attempts, events, receipts, recorded, retry>>

-----------------------------------------------------------------------------
WorkerStep(w) ==
    \/ ClaimPending(w) \/ Process(w) \/ Publish(w)
    \/ Claim(w) \/ ClaimWithoutTarget(w) \/ ClaimRefused(w) \/ ClaimLost(w)
    \/ PreSendFails(w) \/ Gate(w) \/ Send(w) \/ Complete(w)
    \/ DeadRead(w) \/ DeadRefused(w) \/ DeadWrite(w)

Next ==
    \/ \E w \in Workers : WorkerStep(w) \/ Restart(w)
    \/ \E m \in 1 .. Len(attempts), k \in Kinds : ReceiptRead(m, k)
    \/ \E r \in receipts : ReceiptWrite(r)
    \/ RetryRead \/ RetryWrite
    \/ EventDue
    \/ LeaseEnds

\* The processes' event loops go on and time passes.  Nothing is asked of the
\* platform's receipts and of the operator.
Fairness ==
    /\ \A w \in Workers : WF_vars(WorkerStep(w))
    /\ WF_vars(EventDue)
    /\ WF_vars(LeaseEnds)

Spec == Init /\ [][Next]_vars
FairSpec == Spec /\ Fairness
-----------------------------------------------------------------------------
(* Properties.                                                             *)

Unfinished == {"pending", "sending"} \cup Failed

\* No delivery is stranded: whatever is overwritten, lost or late, an
\* unfinished delivery has an outbox event that is still to be processed
\* (process publishes an event only for a delivery that no longer needs it;
\* dispatch, record and retryDeadLetter append one for the next attempt).
NotStranded ==
    row.status \in Unfinished =>
        \E e \in DOMAIN events :
            /\ events[e].status = "pending"
            /\ \A w \in Workers :
                 ~(worker[w].pc = "publish" /\ worker[w].event = e)

\* An accepted delivery shows the message of its latest attempt, which was
\* accepted: a worker that lost its claim during a slow send overwrites
\* nothing (saveIfClaimed).
AcceptedIsCurrent ==
    row.status = "accepted" =>
        /\ attempts # <<>>
        /\ attempts[Len(attempts)] =
             [status |-> "accepted", message |-> row.message]

\* No endless sending: beyond the automatic attempts there is at most one for
\* each manual retry, dead process, lost claim or receipt (dispatch,
\* recordPreSendFailure, record count the attempts each on its own).
AttemptsAreLimited ==
    Len(attempts) <= MaximumAttempts + disturbances + retries

\* Every delivery ends accepted, delivered or as a dead letter, whatever
\* process dies or loses its claim (process, dispatch, markDeadLetter).
DeliveryEnds == <>[](row.status \in Consumed)
=============================================================================
