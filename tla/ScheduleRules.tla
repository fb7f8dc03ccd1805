---------------------------- MODULE ScheduleRules ----------------------------
(***************************************************************************)
(* One recurring rule: ScheduleRuleService, the tables it keeps in SQLite  *)
(* (schedule_rule, schedule, schedule_rule_exception) and the generation   *)
(* of the next instance, which ScheduleReminderService starts when the     *)
(* first reminder of an instance fires.  At any time only the next         *)
(* instance of a rule is a row; its reminder carries the chain on.         *)
(*                                                                         *)
(* Two threads work on the tables, and no lock spans two repository calls. *)
(* The timing runner fires reminders and generates; the MCP worker runs    *)
(* the tools create_rule, update_rule, delete_rule, update_occurrence,     *)
(* skip_occurrence, update and delete, one at a time.  A repository        *)
(* transaction is one step.  A row and the task of its first reminder are  *)
(* one record here: what happens between a reminder, its follow-ups and    *)
(* the edits of one schedule is the subject of ReminderService.            *)
(***************************************************************************)
EXTENDS Recurrence

CONSTANTS
    Shapes,      \* recurrences the user asks for
    StartDates,  \* start dates the user chooses from
    Hours,       \* start times an update of the rule chooses from
    Targets,     \* occurrences the user skips, modifies or moves to
    Times,       \* the instants at which something happens
    MaxChanges,  \* bound: tools called after the rule was created
    MaxFaults    \* bound: repository failures, refused commands, restarts

ASSUME RulesAssumption ==
    /\ Times \subseteq Nat /\ Targets \subseteq Nat
    /\ MaxChanges \in Nat /\ MaxFaults \in Nat

VARIABLES
    clock,
    rule,        \* the row of schedule_rule
    rows,        \* the rows of schedule, in order of id
    exceptions,  \* schedule_rule_exception, by original_start_time
    gen,         \* generate_next_schedule_instance on the timing runner
    retry,       \* generation_retries_: failures so far, 0 when none is armed
    mcp,         \* the tool under way on the MCP worker
    ended,       \* history: the chain met one of its known ends
    raced,       \* history: a tool and a generation overlapped
    used         \* how much of each bound is used

tables  == <<rule, rows, exceptions>>
history == <<ended, raced>>
ruleVars == <<clock, tables, gen, retry, mcp, history, used>>

NoRule == [status |-> "none"]
NoException == [type |-> "none", row |-> 0, to |-> NoTime]
GenIdle == [pc |-> "idle", rule |-> NoRule, cursor |-> 0, next |-> NoTime,
            exception |-> NoException, row |-> 0, failures |-> 0]
McpIdle == [pc |-> "idle", op |-> "none", rule |-> NoRule, first |-> NoTime,
            at |-> NoTime, exception |-> NoException, lost |-> FALSE]

RuleInit ==
    /\ clock \in Times /\ \A t \in Times : clock <= t
    /\ rule = NoRule /\ rows = <<>> /\ exceptions = <<>>
    /\ gen = GenIdle /\ retry = 0 /\ mcp = McpIdle
    /\ ended = FALSE /\ raced = FALSE
    /\ used = [changes |-> 0, faults |-> 0]

Fault  == /\ used.faults < MaxFaults
          /\ used' = [used EXCEPT !.faults = @ + 1]
Change == /\ used.changes < MaxChanges
          /\ used' = [used EXCEPT !.changes = @ + 1]

\* A write of one thread while the other is between its reads and its write.
ToolRaces == gen.pc \in {"scan", "lookup", "create", "sync"}
RunnerRaces == mcp.pc \in {"write", "upsert"}

Ahead(time) == time > clock

(***************************************************************************)
(* Instances.  Four fields are histories, the table keeps the start        *)
(* alone: "orig" is the occurrence an instance was made for, "generated"   *)
(* that the timing runner made it, "moved" that schedule.update gave it    *)
(* another start, "detached" that update_rule dropped the override that    *)
(* had put it elsewhere.  RegisterReminder persists a pending task;        *)
(* SynchronizeSchedule makes none for a start that is not in the future.   *)
(***************************************************************************)
Instance(start, orig, generated) ==
    [start |-> start, orig |-> orig, status |-> "active", task |-> "none",
     moved |-> FALSE, detached |-> FALSE, generated |-> generated]

Synchronized(row) ==
    [row EXCEPT !.task = IF row.status = "active" /\ Ahead(row.start)
                           THEN "pending"
                         ELSE IF row.task = "pending" THEN "cancelled" ELSE @]

Suspended(row) ==
    [row EXCEPT !.task = IF @ = "pending" THEN "cancelled" ELSE @]

Due(i) == rows[i].task = "pending" /\ ~Ahead(rows[i].start)

Live(row) == row.status # "deleted"

\* FindMaterializedScheduleOccurrence without a linked row: any status.
Materialized(time) ==
    \E i \in DOMAIN rows : Live(rows[i]) /\ rows[i].start = time

\* Something leads on: a pending reminder, whose firing generates the next
\* instance, or a retry of a generation that failed (a generation under way
\* forgets it).
LeadsOn ==
    \/ retry # 0 /\ gen = GenIdle
    \/ \E i \in DOMAIN rows : rows[i].task = "pending" /\ rows[i].status = "active"

ExceptionAt(time) ==
    IF time \in DOMAIN exceptions THEN exceptions[time] ELSE NoException

\* Mutant of Passed: a modified occurrence is generated whatever it is
\* linked to.
PassedIfSkipped(exception) == exception.type = "skip"

\* The exception says the occurrence needs no instance.
Passed(exception) == exception.row # 0 \/ exception.type = "skip"

Upsert(time, exception) ==
    [t \in DOMAIN exceptions \cup {time} |->
        IF t = time THEN exception ELSE exceptions[t]]

(***************************************************************************)
(* create_schedule_rule, then SynchronizeRule.  The search starts at the   *)
(* hour of the start date, which may have passed; start_date becomes the   *)
(* date of the first instance.                                             *)
(***************************************************************************)
Anchored(shape, start) ==
    [field \in DOMAIN shape \cup {"start", "status"} |->
        CASE field = "start"  -> start
          [] field = "status" -> "active"
          [] OTHER            -> shape[field]]

CreateRule ==
    /\ rule = NoRule
    /\ \E shape \in Shapes, start \in StartDates :
         LET draft == Anchored(shape, start)
             first == NextOccurrence(draft, OccurrenceAt(draft, start))
         IN  /\ first # NoTime
             /\ rule' = [draft EXCEPT !.start = LocalDateFromUtc(first)]
             /\ rows' = <<Synchronized(Instance(first, first, FALSE))>>
             /\ ended' = ~Ahead(first)
    /\ UNCHANGED <<clock, exceptions, gen, retry, mcp, raced, used>>

(***************************************************************************)
(* schedule.update_rule: SuspendRuleReminders, update_schedule_rule, and   *)
(* SynchronizeRule whether the update succeeded or not.                    *)
(***************************************************************************)
UpdateSuspend ==
    /\ rule # NoRule /\ mcp = McpIdle /\ Change
    /\ \E hour \in Hours :
         mcp' = [McpIdle EXCEPT !.pc = "load", !.op = "update", !.at = hour,
                   !.lost = retry # 0 \/ \E i \in DOMAIN rows : Due(i)]
    /\ rows' = [i \in DOMAIN rows |-> Suspended(rows[i])]
    /\ retry' = 0
    /\ UNCHANGED <<clock, rule, exceptions, gen, history>>

\* The rule is read, patched and planned from now on.
UpdateLoad ==
    /\ mcp.pc = "load"
    /\ LET patched == [rule EXCEPT !.hour = mcp.at]
           first   == NextOccurrence(patched, clock)
       IN  /\ first # NoTime
           /\ mcp' = [mcp EXCEPT !.pc = "write", !.first = first,
                        !.rule = [patched EXCEPT !.start = LocalDateFromUtc(first)]]
    /\ UNCHANGED <<clock, tables, gen, retry, history, used>>

\* The patched rule has no occurrence left, or another schedule conflicts,
\* or a read fails.  The suspended reminders that are not due come back.
UpdateFails ==
    /\ mcp.pc = "load"
    /\ \/ /\ NextOccurrence([rule EXCEPT !.hour = mcp.at], clock) = NoTime
          /\ UNCHANGED used
       \/ Fault
    /\ mcp' = [mcp EXCEPT !.pc = "sync"]
    /\ ended' = (ended \/ mcp.lost)
    /\ UNCHANGED <<clock, tables, gen, retry, raced>>

\* UpdateAndRebuild: what has not happened yet is deleted, one instance made.
\* An instance that an override had put into the past is left without it.
Rebuilt ==
    Append([i \in DOMAIN rows |->
              IF rows[i].start >= clock THEN [rows[i] EXCEPT !.status = "deleted"]
              ELSE [rows[i] EXCEPT !.detached = @ \/ ~(rows[i].orig < clock)]],
           Instance(mcp.first, mcp.first, FALSE))

UpdateRewrite ==
    /\ mcp.pc = "write"
    /\ rule' = mcp.rule
    /\ rows' = Rebuilt
    /\ exceptions' = [t \in {u \in DOMAIN exceptions : u < clock} |-> exceptions[t]]
    /\ mcp' = [mcp EXCEPT !.pc = "sync"]
    /\ ended' = ~Ahead(mcp.first)
    /\ raced' = (raced \/ ToolRaces)
    /\ UNCHANGED <<clock, gen, retry, used>>

UpdateSync ==
    /\ mcp.pc = "sync" /\ mcp.op = "update"
    /\ rows' = [i \in DOMAIN rows |->
                  IF rows[i].status = "active" THEN Synchronized(rows[i])
                  ELSE rows[i]]
    /\ mcp' = McpIdle
    /\ UNCHANGED <<clock, rule, exceptions, gen, retry, history, used>>

(***************************************************************************)
(* schedule.delete_rule: CancelRuleAndInstances, then SuspendRuleReminders.*)
(***************************************************************************)
CancelRule ==
    /\ rule # NoRule /\ mcp = McpIdle /\ Change
    /\ rule' = [rule EXCEPT !.status = "cancelled"]
    /\ rows' = [i \in DOMAIN rows |->
                  IF rows[i].status = "active"
                    THEN [rows[i] EXCEPT !.status = "cancelled"] ELSE rows[i]]
    /\ exceptions' = <<>>
    /\ mcp' = [McpIdle EXCEPT !.pc = "suspend", !.op = "cancel"]
    /\ raced' = (raced \/ ToolRaces)
    /\ UNCHANGED <<clock, gen, retry, ended>>

CancelSuspend ==
    /\ mcp.pc = "suspend"
    /\ rows' = [i \in DOMAIN rows |-> Suspended(rows[i])]
    /\ retry' = 0
    /\ mcp' = McpIdle
    /\ UNCHANGED <<clock, rule, exceptions, gen, history, used>>

(***************************************************************************)
(* schedule.skip_occurrence and schedule.update_occurrence: both look for  *)
(* an exception and for an instance, and write the exception later.  A     *)
(* skip is idempotent over any exception; a modification turns a skip into *)
(* a modification and keeps the row an exception is linked to.             *)
(***************************************************************************)
SkipCheck ==
    /\ rule # NoRule /\ mcp = McpIdle /\ Change
    /\ \E time \in Targets :
         /\ ExceptionAt(time) = NoException
         /\ ~Materialized(time)
         /\ mcp' = [McpIdle EXCEPT !.pc = "upsert", !.op = "skip", !.at = time,
                      !.exception = [NoException EXCEPT !.type = "skip"]]
    /\ UNCHANGED <<clock, tables, gen, retry, history>>

ModifyCheck ==
    /\ rule # NoRule /\ mcp = McpIdle /\ Change
    /\ \E time, to \in Targets :
         LET existing == ExceptionAt(time) IN
         /\ IF existing.row # 0 THEN ~Live(rows[existing.row])
                                ELSE ~Materialized(time)
         /\ mcp' = [McpIdle EXCEPT !.pc = "upsert", !.op = "modify", !.at = time,
                      !.exception = [existing EXCEPT !.type = "modify", !.to = to]]
    /\ UNCHANGED <<clock, tables, gen, retry, history>>

UpsertException ==
    /\ mcp.pc = "upsert"
    /\ exceptions' = Upsert(mcp.at, mcp.exception)
    /\ mcp' = McpIdle
    /\ ended' = (ended \/ (/\ Passed(ExceptionAt(mcp.at)) /\ ~Passed(mcp.exception)
                            /\ ~LeadsOn))
    /\ raced' = (raced \/ ToolRaces)
    /\ UNCHANGED <<clock, rule, rows, gen, retry, used>>

(***************************************************************************)
(* schedule.update and schedule.delete of the row of an instance, each     *)
(* with the synchronisation of its reminder.                               *)
(***************************************************************************)
\* The instance whose reminder carries the chain on.
Carries(i) == rows[i].task = "pending" \/ (gen.pc = "sync" /\ gen.row = i)

\* The chain ends when the instance that carries it is put into the past, or
\* when one that stood at an occurrence ahead leaves it and nothing leads on.
MoveInstance ==
    /\ mcp = McpIdle /\ Change
    /\ raced' = (raced \/ ToolRaces)
    /\ UNCHANGED <<clock, rule, exceptions, gen, retry, mcp>>
    /\ \E i \in DOMAIN rows, to \in Targets :
         /\ Live(rows[i])
         /\ rows' = [rows EXCEPT ![i] =
                       Synchronized([@ EXCEPT !.start = to, !.moved = TRUE])]
         /\ ended' = (\/ ended
                      \/ Carries(i) /\ ~Ahead(to)
                      \/ Ahead(rows[i].start) /\ ~LeadsOn')

DeleteInstance ==
    /\ mcp = McpIdle /\ Change
    /\ \E i \in DOMAIN rows :
         /\ Live(rows[i])
         /\ rows' = [rows EXCEPT ![i] =
                       Suspended([@ EXCEPT !.status = "cancelled"])]
         /\ ended' = (ended \/ Carries(i))
    /\ raced' = (raced \/ ToolRaces)
    /\ UNCHANGED <<clock, rule, exceptions, gen, retry, mcp>>

(***************************************************************************)
(* The timing runner.  HandleReminder marks the task triggered and, for    *)
(* the first reminder of an instance, generates the next one.              *)
(***************************************************************************)
TaskFires(i) ==
    /\ gen = GenIdle
    /\ Due(i) /\ rows[i].status = "active"
    /\ rows' = [rows EXCEPT ![i].task = "triggered"]
    /\ gen' = [GenIdle EXCEPT !.pc = "rule"]
    /\ UNCHANGED <<clock, rule, exceptions, retry, mcp, history, used>>

RetryFires ==
    /\ gen = GenIdle /\ retry # 0
    /\ gen' = [GenIdle EXCEPT !.pc = "rule", !.failures = retry]
    /\ retry' = 0
    /\ UNCHANGED <<clock, tables, mcp, history, used>>

GenerateRule ==
    /\ gen.pc = "rule"
    /\ gen' = [gen EXCEPT !.pc = "scan", !.rule = rule, !.cursor = clock]
    /\ UNCHANGED <<clock, tables, retry, mcp, history, used>>

\* One turn of the loop: plan, read the exception.  The loop gives up after
\* 1000 turns; no instance has that many exceptions ahead of its clock.
GenerateScan ==
    /\ gen.pc = "scan"
    /\ LET next == NextOccurrence(gen.rule, gen.cursor)
           exception == ExceptionAt(next)
       IN  \/ /\ next = NoTime
              /\ gen' = GenIdle /\ retry' = 0
           \/ /\ next # NoTime /\ Passed(exception)
              /\ gen' = [gen EXCEPT !.cursor = next + 1]
              /\ UNCHANGED retry
           \/ /\ next # NoTime /\ ~Passed(exception)
              /\ gen' = [gen EXCEPT !.next = next, !.exception = exception,
                           !.pc = IF exception = NoException THEN "lookup"
                                  ELSE "create"]
              /\ UNCHANGED retry
    /\ UNCHANGED <<clock, tables, mcp, history, used>>

GenerateLookup ==
    /\ gen.pc = "lookup"
    /\ gen' = IF Materialized(gen.next)
                 THEN [gen EXCEPT !.pc = "scan", !.cursor = gen.next + 1]
                 ELSE [gen EXCEPT !.pc = "create"]
    /\ UNCHANGED <<clock, tables, retry, mcp, history, used>>

\* CreateOccurrence, ApplyOverride and CreateNextInstance: the row, and the
\* exception read before linked to it, in one transaction.
GenerateCreate ==
    /\ gen.pc = "create"
    /\ LET to    == gen.exception.to
           start == IF to # NoTime THEN to ELSE gen.next
           id    == Len(rows) + 1
       IN  /\ rows' = Append(rows, Instance(start, gen.next, TRUE))
           /\ exceptions' = IF gen.exception = NoException THEN exceptions
                            ELSE Upsert(gen.next, [gen.exception EXCEPT !.row = id])
           /\ gen' = [gen EXCEPT !.pc = "sync", !.row = id]
    /\ raced' = (raced \/ RunnerRaces)
    /\ UNCHANGED <<clock, rule, retry, mcp, ended, used>>

\* The retry is forgotten, the new row gets its reminder.
GenerateSync ==
    /\ gen.pc = "sync"
    /\ retry' = 0
    /\ LET row == rows[gen.row] IN
       /\ rows' = IF Live(row) THEN [rows EXCEPT ![gen.row] = Synchronized(@)]
                  ELSE rows
       /\ ended' = (ended \/ ~Ahead(row.start))
    /\ gen' = GenIdle
    /\ UNCHANGED <<clock, rule, exceptions, mcp, raced, used>>

\* Mutant of GenerateFails: the failure is only logged.
GenerateFailsForGood ==
    /\ gen.pc \in {"rule", "scan", "lookup", "create"}
    /\ Fault
    /\ gen' = GenIdle
    /\ UNCHANGED <<clock, tables, retry, mcp, history>>

\* A repository call fails: ScheduleGenerationRetry registers another try.
GenerateFails ==
    /\ gen.pc \in {"rule", "scan", "lookup", "create"}
    /\ Fault
    /\ gen' = GenIdle
    /\ retry' = gen.failures + 1
    /\ UNCHANGED <<clock, tables, mcp, history>>

\* As above, but the timing service refuses the retry's task.
GenerateGivesUp ==
    /\ gen.pc \in {"rule", "scan", "lookup", "create"}
    /\ Fault
    /\ gen' = GenIdle
    /\ retry' = 0
    /\ ended' = TRUE
    /\ UNCHANGED <<clock, tables, mcp, raced>>

(***************************************************************************)
(* Time and power.  A due reminder is handled before the clock moves on;   *)
(* a retry may be as late as it likes.                                     *)
(***************************************************************************)
ClockMoves ==
    /\ rule # NoRule /\ gen = GenIdle /\ mcp = McpIdle
    /\ \A i \in DOMAIN rows : ~(Due(i) /\ rows[i].status = "active")
    /\ \E t \in Times : /\ t > clock /\ \A u \in Times : u > clock => t <= u
                        /\ clock' = t
    /\ UNCHANGED <<tables, gen, retry, mcp, history, used>>

\* Power fails and Start runs at once or later: it cancels the pending tasks
\* of rows that are not active and makes a task for a row that never had
\* one and lies ahead; what is overdue fires.
Restart ==
    /\ rule # NoRule /\ Fault
    /\ \E t \in Times :
         /\ t >= clock /\ clock' = t
         /\ rows' = [i \in DOMAIN rows |->
              CASE rows[i].task = "pending" /\ rows[i].status # "active"
                     -> Suspended(rows[i])
                [] rows[i].task = "none" /\ rows[i].status = "active"
                     /\ rows[i].start > t
                     -> [rows[i] EXCEPT !.task = "pending"]
                [] OTHER -> rows[i]]
         /\ ended' = (\/ ended
                      \/ gen.pc \in {"rule", "scan", "lookup", "create"}
                      \/ retry # 0
                      \/ mcp.op = "update"
                      \/ \E i \in DOMAIN rows : rows[i].task = "none"
                                              /\ ~(rows[i].start > t))
    /\ gen' = GenIdle /\ retry' = 0 /\ mcp' = McpIdle
    /\ UNCHANGED <<rule, exceptions, raced>>

RuleNext ==
    \/ CreateRule
    \/ UpdateSuspend \/ UpdateLoad \/ UpdateFails \/ UpdateRewrite \/ UpdateSync
    \/ CancelRule \/ CancelSuspend
    \/ SkipCheck \/ ModifyCheck \/ UpsertException
    \/ MoveInstance \/ DeleteInstance
    \/ \E i \in DOMAIN rows : TaskFires(i)
    \/ RetryFires
    \/ GenerateRule \/ GenerateScan \/ GenerateLookup \/ GenerateCreate
    \/ GenerateSync \/ GenerateFails \/ GenerateGivesUp
    \/ ClockMoves \/ Restart

RuleSpec == RuleInit /\ [][RuleNext]_ruleVars

(***************************************************************************)
(* Properties.                                                             *)
(***************************************************************************)

\* generate_next_schedule_instance never makes an instance for an occurrence
\* that has one, wherever an override has put it and whatever was skipped,
\* retried, rebuilt or restarted, unless the generation overlapped with a
\* tool, the user moved the older instance with schedule.update, or
\* update_rule dropped the override that tells where the older instance is.
OncePerOccurrence ==
    \A i, j \in DOMAIN rows :
        /\ i < j /\ Live(rows[i]) /\ Live(rows[j]) /\ rows[j].generated
        /\ rows[i].orig = rows[j].orig
        => raced \/ rows[i].moved \/ rows[i].detached

\* The search of a generation finds the earliest occurrence there is: what the
\* planner returns for the cursor is not after an occurrence that lies ahead
\* of the cursor, and it is none only when there is none.
SearchMissesNothing ==
    gen.pc = "scan" =>
        LET next == NextOccurrence(gen.rule, gen.cursor) IN
        /\ next \in Int
        /\ \A time \in Times :
             time >= gen.cursor /\ NextOccurrence(gen.rule, time) = time
             => next \in gen.cursor .. time

\* An occurrence ahead that has no instance and no exception that stands for
\* one.
AwaitedAt(time) ==
    /\ Ahead(time)
    /\ ~Passed(ExceptionAt(time))
    /\ ~Materialized(time)
    /\ NextOccurrence(rule, time) = time

\* When nobody is at work and nothing leads on, an active rule has no awaited
\* occurrence left: skips, overrides, updates that fail, retries and restarts
\* do not break the chain of instances.  The ends the code does not repair
\* are in "ended".
ChainLives ==
    /\ rule.status = "active" /\ gen = GenIdle /\ mcp = McpIdle
    /\ ~ended /\ ~LeadsOn
    => \A time \in Times : ~AwaitedAt(time)
=============================================================================
