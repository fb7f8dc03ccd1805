-------------------------- MODULE OccurrenceQuery --------------------------
(***************************************************************************)
(* OccurrencesForQuery of schedule_rule_service.cc: the occurrences of the *)
(* window [from, to) that schedule.query expands.                          *)
(***************************************************************************)
EXTENDS Recurrence

MaximumQueryOccurrences == 256

RECURSIVE Collect(_, _, _, _)
Collect(rule, cursor, to, left) ==
    LET next == NextOccurrence(rule, cursor) IN
    IF left = 0 \/ next = NoTime \/ next >= to THEN <<>>
    ELSE <<next>> \o Collect(rule, next + 1, to, left - 1)

\* Mutant of OccurrencesForQuery: filters the preview of three occurrences.
OccurrencesOfPreview(rule, from, to) == Collect(rule, from, to, 3)

OccurrencesForQuery(rule, from, to) ==
    IF to <= from THEN <<>> ELSE Collect(rule, from, to, MaximumQueryOccurrences)
=============================================================================
