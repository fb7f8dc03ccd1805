---------------------------- MODULE TimingTasks ----------------------------
(***************************************************************************)
(* What the timing service promises of a one-shot task: the life cycle     *)
(* that TaskStatus and CanTransition of voicelife_timing lay down.  An id  *)
(* is used for one task only, a task runs at most once, never after it was *)
(* cancelled, and the callbacks of two tasks never overlap.                *)
(***************************************************************************)
CONSTANT Ids

VARIABLE status

Statuses == {"unused", "pending", "executing", "cancelled", "completed"}

TypeOK == status \in [Ids -> Statuses]

Init == status = [i \in Ids |-> "unused"]

CanTransition(from, to) ==
    \/ from = "pending"   /\ to \in {"executing", "cancelled"}
    \/ from = "executing" /\ to = "completed"

Register(i) ==
    /\ status[i] = "unused"
    /\ status' = [status EXCEPT ![i] = "pending"]

Advance(i, to) ==
    /\ CanTransition(status[i], to)
    /\ to = "executing" => \A j \in Ids : status[j] # "executing"
    /\ status' = [status EXCEPT ![i] = to]

Next == \E i \in Ids : Register(i) \/ \E to \in Statuses : Advance(i, to)

Spec == Init /\ [][Next]_status
=============================================================================
