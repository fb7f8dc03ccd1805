----------------------------- MODULE Recurrence -----------------------------
(***************************************************************************)
(* calendar.cc and recurrence_planner.cc of voicelife_schedule: the next   *)
(* time a recurring rule occurs, computed by jumping near the target and   *)
(* correcting locally.  A date is a triple <<year, month, day>>.  Time is  *)
(* counted in hours since 1970-01-01T00:00Z: the code counts seconds, which *)
(* do not fit TLC's integers at the dates of interest, and nothing in the  *)
(* planner depends on the unit beyond the smallest step of its cursor.     *)
(***************************************************************************)
EXTENDS Integers, Sequences

NoDate == <<>>
NoTime == -1

HoursPerDay == 24
TimezoneOffset == 8          \* kTimezoneOffsetSeconds
DaysPerWeek == 7             \* kDaysPerWeek
MaxDateSearchSteps == 64     \* kMaxDateSearchSteps

(***************************************************************************)
(* calendar.cc                                                             *)
(***************************************************************************)

IsLeapYear(year) ==
    \/ year % 4 = 0 /\ year % 100 # 0
    \/ year % 400 = 0

MonthDays == <<31, 28, 31, 30, 31, 30, 31, 31, 30, 31, 30, 31>>

DaysInMonth(year, month) ==
    IF month = 2 /\ IsLeapYear(year) THEN 29 ELSE MonthDays[month]

\* Days since 1970-01-01, for the years of the common era.  A year begins in
\* March here, so that the leap day is its last.
DaysFromCivil(date) ==
    LET month == date[2]
        year  == IF month <= 2 THEN date[1] - 1 ELSE date[1]
        doy   == (153 * (month + (IF month > 2 THEN -3 ELSE 9)) + 2) \div 5
                   + date[3] - 1
        InEra(era, yoe) ==
            era * 146097 + yoe * 365 + (yoe \div 4) - (yoe \div 100) + doy
    IN  InEra(year \div 400, year % 400) - 719468

CivilFromDays(n) ==
    LET Civil(year, month, day) ==
            <<IF month <= 2 THEN year + 1 ELSE year, month, day>>
        InYear(year, doy, mp) ==
            Civil(year, mp + (IF mp < 10 THEN 3 ELSE -9),
                  doy - ((153 * mp + 2) \div 5) + 1)
        OnDay(year, doy) == InYear(year, doy, (5 * doy + 2) \div 153)
        InEra(era, doe, yoe) ==
            OnDay(yoe + era * 400,
                  doe - (365 * yoe + (yoe \div 4) - (yoe \div 100)))
        AtDay(era, doe) ==
            InEra(era, doe, (doe - (doe \div 1460) + (doe \div 36524)
                               - (doe \div 146096)) \div 365)
    IN  AtDay((n + 719468) \div 146097, (n + 719468) % 146097)

\* 0 is Monday.
Weekday(date) == (DaysFromCivil(date) + 3) % DaysPerWeek

(***************************************************************************)
(* recurrence_planner.cc.  A rule is a record: freq, interval, weekdays    *)
(* (the bits of weekdays_mask), lastDay (monthly_mode), dom, month, hour   *)
(* (start_time), start, end (NoDate when there is none) and status.        *)
(***************************************************************************)

\* CompareDate(left, right) < 0.
Before(left, right) ==
    \/ left[1] < right[1]
    \/ left[1] = right[1] /\ left[2] < right[2]
    \/ left[1] = right[1] /\ left[2] = right[2] /\ left[3] < right[3]

\* UnixFromLocal, OccurrenceAt and AtLocalDate.
UnixFromLocal(date, hour) ==
    DaysFromCivil(date) * HoursPerDay + hour - TimezoneOffset

OccurrenceAt(rule, date) == UnixFromLocal(date, rule.hour)

\* LocalFromUnix: the date in UTC+8.
LocalDateFromUtc(time) == CivilFromDays((time + TimezoneOffset) \div HoursPerDay)

\* Mutant of CeilDiv: goes to the next period from the start of one, too.
NextDiv(dividend, divisor) == (dividend + divisor) \div divisor

CeilDiv(dividend, divisor) == (dividend + divisor - 1) \div divisor

\* Periods of the rule to jump over before the local search.
Jump(distance, interval) == IF distance <= 0 THEN 0 ELSE CeilDiv(distance, interval)

\* The date of the first attempt whose candidate exists and is not before
\* the target; NoDate when the search gives up.
FirstCandidate(attempts, Candidate(_), target) ==
    LET fits(date) == date # NoDate /\ ~Before(date, target)
        OrNone(n) == IF n = attempts THEN NoDate ELSE Candidate(n)
    IN  OrNone(CHOOSE n \in 0 .. attempts :
                 /\ n = attempts \/ fits(Candidate(n))
                 /\ \A m \in 0 .. n - 1 : ~fits(Candidate(m)))

NextDailyDate(rule, target) ==
    LET anchor == DaysFromCivil(rule.start)
        k      == Jump(DaysFromCivil(target) - anchor, rule.interval)
    IN  CivilFromDays(anchor + k * rule.interval)

NextWeeklyDate(rule, target) ==
    LET monday(date) == DaysFromCivil(date) - Weekday(date)
        anchor == monday(rule.start)
        weeks == IF Before(target, rule.start) THEN 0
                 ELSE (monday(target) - anchor) \div DaysPerWeek
        k     == Jump(weeks, rule.interval)
        \* one index for the two loops, weeks outside and weekdays inside
        Candidate(n) ==
            LET week    == k + (n \div DaysPerWeek)
                weekday == n % DaysPerWeek
            IN  IF weekday \in rule.weekdays
                  THEN CivilFromDays(anchor + week * rule.interval * DaysPerWeek
                                       + weekday)
                  ELSE NoDate
    IN  FirstCandidate(MaxDateSearchSteps * DaysPerWeek, Candidate, target)

MonthIndex(date) == date[1] * 12 + (date[2] - 1)

NextMonthlyDate(rule, target) ==
    LET anchor == MonthIndex(rule.start)
        k      == Jump(MonthIndex(target) - anchor, rule.interval)
        Candidate(n) ==
            LET index == anchor + (k + n) * rule.interval
                year  == index \div 12
                month == (index % 12) + 1
            IN  CASE rule.lastDay -> <<year, month, DaysInMonth(year, month)>>
                  [] ~rule.lastDay /\ rule.dom <= DaysInMonth(year, month)
                       -> <<year, month, rule.dom>>
                  [] OTHER -> NoDate
    IN  FirstCandidate(MaxDateSearchSteps, Candidate, target)

NextYearlyDate(rule, target) ==
    LET k == Jump(target[1] - rule.start[1], rule.interval)
        Candidate(n) ==
            LET year == rule.start[1] + (k + n) * rule.interval
            IN  IF rule.dom <= DaysInMonth(year, rule.month)
                  THEN <<year, rule.month, rule.dom>> ELSE NoDate
    IN  FirstCandidate(MaxDateSearchSteps, Candidate, target)

NextDateOnOrAfter(rule, target) ==
    CASE rule.freq = "daily"   -> NextDailyDate(rule, target)
      [] rule.freq = "weekly"  -> NextWeeklyDate(rule, target)
      [] rule.freq = "monthly" -> NextMonthlyDate(rule, target)
      [] rule.freq = "yearly"  -> NextYearlyDate(rule, target)

PastEnd(rule, date) == rule.end # NoDate /\ Before(rule.end, date)

\* The candidates of the loop of NextOccurrence, one per turn: each is looked
\* for from the day after the one before it, never before the start date.
Candidates(rule, from) ==
    LET NotBeforeStart(date) == IF Before(date, rule.start) THEN rule.start ELSE date
        candidate[n \in 0 .. MaxDateSearchSteps - 1] ==
            NextDateOnOrAfter(rule,
              IF n = 0 THEN NotBeforeStart(LocalDateFromUtc(from))
              ELSE LET last == candidate[n - 1] IN
                   IF Before(last, rule.start) THEN rule.start
                   ELSE CivilFromDays(DaysFromCivil(last) + 1))
    IN  candidate

\* Mutant of Decides: the hour of the candidate is not looked at.
DecidesByDate(rule, from, date) == date = NoDate \/ ~Before(date, rule.start)

\* The loop returns at this candidate; it goes on from one that lies before
\* the start date or whose hour has passed.
Decides(rule, from, date) ==
    \/ date = NoDate
    \/ /\ ~Before(date, rule.start)
       /\ PastEnd(rule, date) \/ ~(OccurrenceAt(rule, date) < from)

\* What the loop returns, given its candidates.
FirstDecided(rule, from, candidate) ==
    LET Last(n) == /\ \A m \in 0 .. n - 1 : ~Decides(rule, from, candidate[m])
                   /\ Decides(rule, from, candidate[n])
        turns == 0 .. MaxDateSearchSteps - 1
        Answer(date) == IF date # NoDate /\ ~PastEnd(rule, date)
                          THEN OccurrenceAt(rule, date) ELSE NoTime
    IN  IF \E n \in turns : Last(n)
          THEN Answer(candidate[CHOOSE n \in turns : Last(n)]) ELSE NoTime

NextOccurrence(rule, from) ==
    IF rule.status = "active"
      THEN FirstDecided(rule, from, Candidates(rule, from)) ELSE NoTime
=============================================================================
