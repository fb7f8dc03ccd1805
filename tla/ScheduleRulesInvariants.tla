---------------------- MODULE ScheduleRulesInvariants ----------------------
(***************************************************************************)
(* The inductive invariants of ScheduleRules: RuleIInv is why an           *)
(* occurrence gets one instance, ChainInv why the chain of instances goes  *)
(* on.  ReminderService_proofs proves that every step preserves them; they *)
(* can be given to TLC as invariants of the run of MCScheduleRules.        *)
(***************************************************************************)
EXTENDS ScheduleRules

RowFields == {"start", "orig", "status", "task", "moved", "detached", "generated"}
ExceptionFields == {"type", "row", "to"}
GenFields == {"pc", "rule", "cursor", "next", "exception", "row", "failures"}
McpFields == {"pc", "op", "rule", "first", "at", "exception", "lost"}

WellFormed ==
    /\ rows \in Seq({rows[i] : i \in DOMAIN rows})
    /\ \A i \in DOMAIN rows : DOMAIN rows[i] = RowFields
    /\ \A t \in DOMAIN exceptions : /\ DOMAIN exceptions[t] = ExceptionFields
                                    /\ exceptions[t].type # "none"
    /\ DOMAIN gen = GenFields /\ DOMAIN mcp = McpFields
    /\ DOMAIN gen.exception = ExceptionFields
    /\ gen.exception = NoException \/ gen.exception.type # "none"
    /\ "status" \in DOMAIN rule

\* Nothing has happened while there is no rule.
Blank ==
    rule = NoRule => /\ rows = <<>> /\ exceptions = <<>>
                     /\ gen = GenIdle /\ retry = 0 /\ mcp = McpIdle

\* What the tool under way has read.
ToolInv ==
    /\ mcp.pc = "upsert" => /\ DOMAIN mcp.exception = ExceptionFields
                            /\ mcp.exception.type # "none"
    /\ mcp.pc = "write" =>
         /\ rule.status = "active"
         /\ "status" \in DOMAIN mcp.rule /\ mcp.rule.status = "active"
         /\ ~(mcp.first < clock)
    /\ mcp.pc = "suspend" => rule.status = "cancelled"

\* A cancelled rule makes no instance.
CancelledStays ==
    rule.status = "cancelled" /\ ~raced =>
        /\ gen.pc \notin {"lookup", "create"}
        /\ gen.pc = "scan" => gen.rule.status = "cancelled"

\* Row i is the instance of the occurrence at this time, wherever an override
\* has put it.
Holds(i, time) ==
    /\ Live(rows[i]) /\ ~rows[i].moved /\ ~rows[i].detached
    /\ rows[i].orig = time

Held(time) == \E i \in DOMAIN rows : Holds(i, time)

\* An instance that does not stand at its occurrence is linked to the
\* exception of the occurrence.
Linked ==
    \A i \in DOMAIN rows :
        Holds(i, rows[i].orig) /\ rows[i].start # rows[i].orig
        => /\ rows[i].orig \in DOMAIN exceptions
           /\ exceptions[rows[i].orig].row = i

\* An exception without a row is about an occurrence without an instance.
Unlinked == \A t \in DOMAIN exceptions : exceptions[t].row = 0 => ~Held(t)

\* The exception a tool is about to write keeps both.
Upserting ==
    mcp.pc = "upsert" =>
        /\ mcp.exception.row = ExceptionAt(mcp.at).row
        /\ mcp.exception.row = 0 => ~Held(mcp.at)

\* What a generation has read still holds when it writes.
Generating ==
    /\ gen.pc = "lookup" => /\ ExceptionAt(gen.next) = NoException
                            /\ gen.exception = NoException
    /\ gen.pc = "create" => /\ gen.exception = ExceptionAt(gen.next)
                            /\ ~Held(gen.next)

Places == Linked /\ Unlinked /\ Upserting /\ Generating

\* A tool and a generation overlapped, or the rule makes no more instances.
Off == raced \/ rule.status = "cancelled"

RuleIInv ==
    /\ WellFormed /\ Blank /\ ToolInv /\ CancelledStays
    /\ Off \/ Places
    /\ OncePerOccurrence

-----------------------------------------------------------------------------
(* What leads the chain on, at every moment of every thread.               *)

HasReminder(i) == rows[i].task = "pending" /\ rows[i].status = "active"

NoneAwaited == \A t \in Times : ~AwaitedAt(t)

\* How far the search of a generation has come.
Reached == IF gen.pc = "scan" THEN gen.cursor ELSE gen.next

\* A generation works on the present rule and has passed over nothing awaited.
Scanning ==
    /\ gen.pc \in {"scan", "lookup", "create"} /\ gen.rule = rule
    /\ \A t \in Times : t < Reached => ~AwaitedAt(t)

\* A generation is about to give its new instance a reminder.
Syncing ==
    /\ gen.pc = "sync" /\ rows[gen.row].status = "active"
    /\ rows[gen.row].task \in {"none", "pending"}

\* update_rule is about to give an instance its reminder back.
Returning ==
    /\ mcp.op = "update"
    /\ \E i \in DOMAIN rows : rows[i].status = "active" /\ Ahead(rows[i].start)

\* update_rule is about to make an instance, or to fail and end the chain.
Rebuilding == mcp.pc = "write" \/ (mcp.pc = "load" /\ mcp.lost)

Chain ==
    \/ \E i \in DOMAIN rows : HasReminder(i)
    \/ retry # 0 /\ gen = GenIdle
    \/ gen.pc = "rule"
    \/ Scanning
    \/ Syncing
    \/ Returning
    \/ Rebuilding
    \/ NoneAwaited

\* Where the threads are, and what they hold there.
Threads ==
    /\ Times \subseteq Nat /\ clock \in Times
    /\ mcp.op = "update" <=> mcp.pc \in {"load", "write", "sync"}
    /\ mcp.op = "update" => \A i \in DOMAIN rows :
                              rows[i].task = "pending" => Ahead(rows[i].start)
    /\ gen.pc = "sync" => gen.row \in DOMAIN rows
    /\ gen.pc = "scan" => gen.cursor \in Nat
    /\ gen.pc \in {"lookup", "create"} => gen.next \in Nat
    /\ retry \in Nat /\ gen.failures \in Nat

ChainInv == Threads /\ (rule.status = "active" /\ ~ended => Chain)
=============================================================================
