--------------------------- MODULE MCScheduleRules ---------------------------
(***************************************************************************)
(* An instance of ScheduleRules around the end of February 2096, and the   *)
(* planner compared with a calendar that is written out day by day: 2096   *)
(* and 2104 have a 29th of February, 2100 has not.                         *)
(***************************************************************************)
EXTENDS ScheduleRulesInvariants, OccurrenceQuery, SequencesExt

Base == [freq |-> "daily", interval |-> 1, weekdays |-> {}, lastDay |-> FALSE,
         dom |-> 1, month |-> 1, hour |-> 9, end |-> NoDate]

MCShapes ==
    { [Base EXCEPT !.end = <<2096, 2, 29>>],
      [Base EXCEPT !.interval = 2, !.hour = 0],
      [Base EXCEPT !.freq = "weekly", !.weekdays = {0, 2, 6}, !.interval = 2],
      [Base EXCEPT !.freq = "monthly", !.dom = 31, !.interval = 3],
      [Base EXCEPT !.freq = "monthly", !.dom = 29, !.hour = 23],
      [Base EXCEPT !.freq = "monthly", !.lastDay = TRUE, !.end = <<2101, 2, 28>>],
      [Base EXCEPT !.freq = "yearly", !.dom = 29, !.month = 2],
      [Base EXCEPT !.freq = "yearly", !.dom = 31, !.month = 12, !.interval = 2] }

MCStarts == { <<2096, 2, 26>>, <<2096, 2, 27>> }

At(day, hour) == UnixFromLocal(<<2096, 2, day>>, hour)

MCTimes == { At(27, 8), At(27, 9), At(28, 9), At(28, 10), At(29, 9) }
MCTargets == { At(28, 9), At(28, 10) }

(***************************************************************************)
(* The calendar, day by day from 2095-01-01, a Saturday.                   *)
(***************************************************************************)
FirstDay == 45656                    \* 2095-01-01 in days since 1970-01-01
FirstWeekday == 5

MonthOf(year, month) ==
    LET days == CASE month \in {4, 6, 9, 11} -> 30
                  [] month = 2 /\ year \in {2096, 2104} -> 29
                  [] month = 2 /\ year \notin {2096, 2104} -> 28
                  [] OTHER -> 31
    IN  [d \in 1 .. days |-> <<year, month, d>>]

Calendar ==
    FlattenSeq([k \in 1 .. 11 * 12 |->
                  MonthOf(2095 + ((k - 1) \div 12), ((k - 1) % 12) + 1)])

DayOf(time) == ((time + TimezoneOffset) \div HoursPerDay) - FirstDay + 1
TimeOf(n, hour) == (FirstDay + n - 1) * HoursPerDay + hour - TimezoneOffset
WeekdayOf(n) == (FirstWeekday + n - 1) % 7

\* Whether the rule occurs on the n-th day of the calendar; a is the number
\* of its start date.
Occurs(r, a, n) ==
    LET date == Calendar[n] IN
    /\ n >= a
    /\ r.end = NoDate \/ ~Before(r.end, date)
    /\ CASE r.freq = "daily"   -> (n - a) % r.interval = 0
         [] r.freq = "weekly"  ->
              /\ WeekdayOf(n) \in r.weekdays
              /\ (((n - WeekdayOf(n)) - (a - WeekdayOf(a))) \div 7) % r.interval = 0
         [] r.freq = "monthly" ->
              /\ IF r.lastDay THEN Calendar[n + 1][3] = 1 ELSE date[3] = r.dom
              /\ (12 * (date[1] - r.start[1]) + date[2] - r.start[2]) % r.interval = 0
         [] r.freq = "yearly"  ->
              /\ date[2] = r.month /\ date[3] = r.dom
              /\ (date[1] - r.start[1]) % r.interval = 0

\* Days from which the planner is asked: the edges of the months.
ProbeDays == { n \in 366 .. Len(Calendar) - 366 :
                 Calendar[n][3] \in {1, 27, 28, 29, 30, 31}
                   /\ Calendar[n][2] \in {1, 2, 3, 4, 12} }

\* The rule was just created: a state in which the planner is examined.
Fresh ==
    /\ rule # NoRule /\ Len(rows) = 1 /\ mcp = McpIdle
    /\ used = [changes |-> 0, faults |-> 0]
    /\ \A t \in Times : clock <= t

\* NextOccurrence returns the earliest occurrence of the rule at or after the
\* time asked for, on the edges of five months of nine years, leap or not, just
\* before, at and just after the rule's hour: the jump and the local search
\* agree with the calendar, and the answer is none only when there is none.
PlannerIsExact ==
    Fresh =>
      LET a == DayOf(UnixFromLocal(rule.start, 0)) IN
      \A n \in ProbeDays, shift \in -1 .. 1 :
        LET from == TimeOf(n, rule.hour + shift)
            next == NextOccurrence(rule, from)
            found == IF next = NoTime \/ DayOf(next) >= Len(Calendar)
                       THEN Len(Calendar) ELSE DayOf(next)
            first == IF from > TimeOf(n, rule.hour) THEN n + 1 ELSE n
        IN  /\ \/ found = Len(Calendar)
               \/ /\ found >= first /\ Occurs(rule, a, found)
                  /\ next = TimeOf(found, rule.hour)
            /\ \A m \in first .. found - 1 : ~Occurs(rule, a, m)

\* schedule.query expands a window to exactly the occurrences in it, up to
\* the limit: a distant day is not lost behind the first three occurrences.
QueryIsComplete ==
    Fresh =>
      LET a == DayOf(UnixFromLocal(rule.start, 0)) IN
      \A n \in {366, 425, 1886}, days \in {1, 31, 250} :
        LET seen == OccurrencesForQuery(rule, TimeOf(n, 0), TimeOf(n + days, 0))
        IN  ToSet(seen) = { TimeOf(m, rule.hour) :
                              m \in { k \in n .. n + days - 1 : Occurs(rule, a, k) } }
=============================================================================
