--------------------------- MODULE Pairing_proofs ---------------------------
(***************************************************************************)
(* For every set of devices, codes, identities and events, every window    *)
(* and every bound of the environment: an open session is polled by one    *)
(* task, an old code does not stay on the display, and what the gateway    *)
(* confirms is current.                                                    *)
(***************************************************************************)
EXTENDS Pairing, FiniteSetTheorems, SequenceTheorems, TLAPS

-----------------------------------------------------------------------------
(* The gateway.                                                            *)

SessionStatus == {"pending", "cancelled", "expired", "confirmed"}
SessionRow == [device : Devices, code : Codes, expires : Nat, status : SessionStatus]
BindingRow == [device : Devices, identity : Identities,
               status : {"active", "unbound", "revoked"}]
PostRow == [at : {"idle", "record", "save", "mark", "confirm", "commit", "done", "failed"},
            event : Events \cup {"none"}, candidate : Nat]

\* Every table and every handler has its type; what a handler or the operator
\* has read is there to be written back.
GatewayTypes ==
    /\ now \in Nat
    /\ sessions \in Seq(SessionRow) /\ bindings \in Seq(BindingRow)
    /\ devices \in [Devices -> {"active", "revoked"}]
    /\ message \in [Events -> [code : Codes, identity : Identities]]
    /\ posts \in [Posts -> PostRow]
    /\ \A p \in Posts :
         /\ posts[p].at # "idle" => posts[p].event \in Events
         /\ posts[p].at = "commit" => posts[p].candidate \in DOMAIN sessions
    /\ admin # <<>> =>
         \E b \in DOMAIN bindings, status \in {"unbound", "revoked"} : admin = <<b, status>>

\* A pending session is the newest of its device, and the only pending one with
\* its code.
Newest(q) ==
    \A s, r \in DOMAIN q :
        q[s].status = "pending" /\ r # s =>
            /\ r > s => q[r].device # q[s].device
            /\ q[r].status = "pending" => q[r].code # q[s].code

\* No two active bindings have the device or the identity in common.
Exclusive(q) ==
    \A a, b \in DOMAIN q :
        a # b /\ q[a].status = "active" /\ q[b].status = "active" =>
            q[a].device # q[b].device /\ q[a].identity # q[b].identity

GatewayInv == GatewayTypes /\ Newest(sessions) /\ Exclusive(bindings)

-----------------------------------------------------------------------------
(* The board.                                                              *)

States == SessionStatus \cup
    {"unavailable", "alreadyActive", "waiting", "retrying", "timedOut", "failed",
     "credentialRejected", "idle"}
Results == [kind : {"result"}, state : States, code : Codes \cup {"none"}, generation : Nat]
Resets == [kind : {"reset"}, generation : Nat]
TaskRow == [at : {"none", "top", "poll", "answer", "post", "active", "release"},
            owner : Nat,
            answer : SessionStatus \cup {"none", "lost", "credentialRejected"},
            result : Results \cup {<<>>}]
McpRow == [at : {"idle", "create", "answer", "post", "acquire", "spawn", "abort"},
           attempts : Nat, session : Nat,
           refusal : {"none", "failed", "credentialRejected"},
           result : Results \cup {<<>>}]
UseCase == [generation : Nat, state : States, active : BOOLEAN, bound : BOOLEAN,
            session : Nat, deadline : Nat, nextPoll : Nat, finalTried : BOOLEAN]

\* The sessions the board speaks of exist, and whoever is to post a result has
\* one.
BoardTypes ==
    /\ binding \in UseCase
    /\ binding.active => binding.session \in DOMAIN sessions
    /\ mcp \in McpRow
    /\ mcp.at = "answer" /\ mcp.session # 0 => mcp.session \in DOMAIN sessions
    /\ mcp.at = "answer" /\ mcp.session = 0 => mcp.refusal # "none"
    /\ mcp.at \in {"post", "acquire", "spawn", "abort"} => mcp.result \in Results
    /\ lease \in Nat
    /\ tasks \in [Tasks -> TaskRow]
    /\ \A t \in Tasks :
         /\ tasks[t].at = "none" => tasks[t] = NoTask
         /\ tasks[t].at = "answer" => tasks[t].answer # "none"
         /\ tasks[t].at = "post" => tasks[t].result \in Results
    /\ queue \in Seq(Results \cup Resets)
    /\ display \in [active : BOOLEAN, generation : Nat, code : Codes \cup {"none"}]

Alive(t) == tasks[t].at # "none"

\* im.binding.start has opened a session and is on its way to have it polled.
Coming == \/ mcp.at \in {"acquire", "spawn", "abort"}
          \/ mcp.at = "post" /\ mcp.result.state = "pending"

\* The lease is held exactly while there is a task or one is being created; it
\* names the open session, unless that one is still on its way.  A task about
\* to release found no open session: one opened since is newer than its owner.
LeaseInv ==
    /\ lease <= binding.generation
    /\ \A t \in Tasks :
         /\ Alive(t) => lease # 0
         /\ tasks[t].owner <= binding.generation
         /\ tasks[t].at = "release" /\ binding.active
              => tasks[t].owner < binding.generation
    /\ \A t, u \in Tasks : Alive(t) /\ Alive(u) => t = u
    /\ lease # 0 => mcp.at = "spawn" \/ \E t \in Tasks : Alive(t)
    /\ mcp.at = "spawn" => lease = mcp.result.generation /\ \A t \in Tasks : ~Alive(t)
    /\ mcp.at \in {"create", "answer"} => ~binding.active
    /\ Coming =>
         /\ mcp.result.generation \in 1 .. binding.generation
         /\ binding.active => mcp.result.generation = binding.generation
    /\ binding.active /\ ~Coming =>
         /\ lease = binding.generation
         /\ \E t \in Tasks : Alive(t)

\* An item that changes the display to the current generation when it is
\* processed.
Replaces(item) ==
    /\ item.generation = binding.generation
    /\ \/ item.kind = "reset"
       \/ item.state \in {"pending", "alreadyActive"} /\ item.code # "none"
       \/ item.state \notin Silent \cup {"alreadyActive"}

DisplayInv ==
    display.active /\ display.generation # binding.generation =>
        \/ rebind = "reset"
        \/ \E i \in 1 .. Len(queue) : Replaces(queue[i])
        \/ mcp.at = "post" /\ Replaces(mcp.result)

IInv == GatewayInv /\ BoardTypes /\ LeaseInv /\ DisplayInv

-----------------------------------------------------------------------------
(* Lemmas about the gateway's tables.                                      *)

\* A sequence is a function on an initial segment of the numbers.
LEMMA SeqFacts ==
    ASSUME NEW S, NEW q \in Seq(S)
    PROVE  /\ Len(q) \in Nat /\ DOMAIN q = 1 .. Len(q)
           /\ \A i \in DOMAIN q : q[i] \in S
OBVIOUS

\* A function on an initial segment is a sequence.
LEMMA FunctionIsSeq ==
    ASSUME NEW S, NEW n \in Nat, NEW q \in [1 .. n -> S]
    PROVE  q \in Seq(S) /\ Len(q) = n /\ DOMAIN q = 1 .. n
OBVIOUS

\* An appended row is the last one; the others stay.
LEMMA AppendFacts ==
    ASSUME NEW S, NEW q \in Seq(S), NEW e \in S
    PROVE  /\ Append(q, e) \in Seq(S)
           /\ Len(Append(q, e)) = Len(q) + 1
           /\ DOMAIN Append(q, e) = 1 .. Len(q) + 1
           /\ \A i \in 1 .. Len(q) : Append(q, e)[i] = q[i]
           /\ Append(q, e)[Len(q) + 1] = e
<1>1. Append(q, e) \in Seq(S) /\ Len(Append(q, e)) = Len(q) + 1
  BY AppendProperties
<1>2. DOMAIN Append(q, e) = 1 .. Len(q) + 1
  BY <1>1, SeqFacts
<1> QED
  BY <1>1, <1>2, AppendProperties

\* Moving sessions to another status makes none of them pending.
LEMMA MovedFacts ==
    ASSUME GatewayInv, NEW ids, NEW status \in SessionStatus \ {"pending"}
    PROVE  /\ Moved(ids, status) \in Seq(SessionRow)
           /\ DOMAIN Moved(ids, status) = DOMAIN sessions
           /\ Len(Moved(ids, status)) = Len(sessions)
           /\ \A s \in DOMAIN sessions :
                /\ Moved(ids, status)[s].device = sessions[s].device
                /\ Moved(ids, status)[s].code = sessions[s].code
                /\ Moved(ids, status)[s].expires = sessions[s].expires
                /\ Moved(ids, status)[s].status =
                     IF s \in ids THEN status ELSE sessions[s].status
           /\ Newest(Moved(ids, status))
<1> DEFINE q == Moved(ids, status)
<1>1. /\ sessions \in Seq(SessionRow) /\ Len(sessions) \in Nat
      /\ DOMAIN sessions = 1 .. Len(sessions)
      /\ \A s \in DOMAIN sessions : sessions[s] \in SessionRow
  BY SeqFacts DEF GatewayInv, GatewayTypes
<1>2. q \in [1 .. Len(sessions) -> SessionRow]
  BY <1>1 DEF Moved, SessionRow
<1>3. \A s \in DOMAIN sessions :
        /\ q[s].device = sessions[s].device
        /\ q[s].code = sessions[s].code
        /\ q[s].expires = sessions[s].expires
        /\ q[s].status = IF s \in ids THEN status ELSE sessions[s].status
  BY <1>1 DEF Moved, SessionRow
<1>4. q \in Seq(SessionRow) /\ Len(q) = Len(sessions) /\ DOMAIN q = DOMAIN sessions
  BY <1>1, <1>2, FunctionIsSeq
<1>5. Newest(q)
  <2> SUFFICES ASSUME NEW s \in DOMAIN q, NEW r \in DOMAIN q,
                      q[s].status = "pending", r # s
               PROVE  /\ r > s => q[r].device # q[s].device
                      /\ q[r].status = "pending" => q[r].code # q[s].code
    BY DEF Newest
  <2>1. sessions[s].status = "pending"
    BY <1>3, <1>4
  <2>2. q[r].status = "pending" => sessions[r].status = "pending"
    BY <1>3, <1>4
  <2> QED
    BY <1>3, <1>4, <2>1, <2>2 DEF GatewayInv, Newest
<1> QED
  BY <1>3, <1>4, <1>5

\* Create takes the older pending code of the device away before it adds the
\* new one, and adds it only where no other device has it pending.
LEMMA WithSessionFacts ==
    ASSUME GatewayInv, BoundsAssumption, NEW d \in Devices, NEW code \in Codes
    PROVE  /\ WithSession(d, code) \in Seq(SessionRow)
           /\ DOMAIN sessions \subseteq DOMAIN WithSession(d, code)
           /\ CodeIsFree(d, code) =>
                Len(sessions) + 1 \in DOMAIN WithSession(d, code)
           /\ \A s \in DOMAIN sessions :
                WithSession(d, code)[s].status = "confirmed"
                  => sessions[s].status = "confirmed"
           /\ Newest(WithSession(d, code))
<1> DEFINE rest == Moved(PendingOf(d), "cancelled")
           row == [device |-> d, code |-> code, expires |-> now + Window,
                   status |-> "pending"]
           q == WithSession(d, code)
<1>1. /\ sessions \in Seq(SessionRow) /\ Len(sessions) \in Nat
      /\ DOMAIN sessions = 1 .. Len(sessions)
  BY SeqFacts DEF GatewayInv, GatewayTypes
<1>2. "cancelled" \in SessionStatus \ {"pending"}
  BY DEF SessionStatus
<1>3. /\ rest \in Seq(SessionRow) /\ DOMAIN rest = DOMAIN sessions
      /\ Len(rest) = Len(sessions) /\ Newest(rest)
      /\ \A s \in DOMAIN sessions :
           /\ rest[s].device = sessions[s].device
           /\ rest[s].code = sessions[s].code
           /\ rest[s].status = IF s \in PendingOf(d) THEN "cancelled"
                               ELSE sessions[s].status
  BY <1>2, MovedFacts
<1>4. \A s \in DOMAIN rest : rest[s].status = "pending" =>
        sessions[s].status = "pending" /\ rest[s].device # d
  BY <1>3 DEF PendingOf
<1>5. row \in SessionRow
  BY BoundsAssumption DEF GatewayInv, GatewayTypes, SessionRow, SessionStatus
<1>6. CASE CodeIsFree(d, code)
  <2>1. q = Append(rest, row)
    BY <1>6 DEF WithSession
  <2>2. /\ q \in Seq(SessionRow) /\ Len(q) = Len(sessions) + 1
        /\ DOMAIN q = 1 .. Len(sessions) + 1
        /\ \A i \in 1 .. Len(sessions) : q[i] = rest[i]
        /\ q[Len(sessions) + 1] = row
    BY <1>3, <1>5, <2>1, AppendFacts
  <2>3. ASSUME NEW s \in DOMAIN rest, rest[s].status = "pending"
        PROVE  rest[s].code # code
    BY <1>3, <1>4, <1>6, <2>3 DEF CodeIsFree
  <2>4. Newest(q)
    <3> SUFFICES ASSUME NEW s \in DOMAIN q, NEW r \in DOMAIN q,
                        q[s].status = "pending", r # s
                 PROVE  /\ r > s => q[r].device # q[s].device
                        /\ q[r].status = "pending" => q[r].code # q[s].code
      BY DEF Newest
    <3>1. CASE s \in DOMAIN rest /\ r \in DOMAIN rest
      <4>1. q[s] = rest[s] /\ q[r] = rest[r]
        BY <1>1, <1>3, <2>2, <3>1
      <4> QED
        BY <1>3, <3>1, <4>1 DEF Newest
    <3>2. CASE s \in DOMAIN rest /\ r = Len(sessions) + 1
      BY <1>1, <1>3, <1>4, <2>2, <2>3, <3>2
    <3>3. CASE s = Len(sessions) + 1 /\ r \in DOMAIN rest
      BY <1>1, <1>3, <2>2, <2>3, <3>3
    <3> QED
      BY <1>1, <1>3, <2>2, <3>1, <3>2, <3>3
  <2>5. \A s \in DOMAIN sessions :
          q[s].status = "confirmed" => sessions[s].status = "confirmed"
    BY <1>1, <1>3, <2>2
  <2> QED
    BY <1>1, <2>2, <2>4, <2>5
<1>7. CASE ~CodeIsFree(d, code)
  <2>1. q = rest
    BY <1>7 DEF WithSession
  <2> QED
    BY <1>3, <1>7, <2>1
<1> QED
  BY <1>6, <1>7

-----------------------------------------------------------------------------
(* The gateway's steps.                                                    *)

\* No session disappears, and none becomes confirmed.
SessionsKept ==
    /\ DOMAIN sessions \subseteq DOMAIN sessions'
    /\ \A s \in DOMAIN sessions :
         sessions'[s].status = "confirmed" => sessions[s].status = "confirmed"

\* What a change of the sessions alone must see to.
LEMMA SessionsChange ==
    ASSUME GatewayInv, sessions' \in Seq(SessionRow), Newest(sessions'),
           DOMAIN sessions \subseteq DOMAIN sessions',
           now' \in Nat, devices' \in [Devices -> {"active", "revoked"}],
           UNCHANGED <<bindings, posts, admin, message>>
    PROVE  GatewayInv'
<1>1. GatewayTypes'
  BY DEF GatewayInv, GatewayTypes
<1> QED
  BY <1>1 DEF GatewayInv, Newest, Exclusive

\* A code for another device: the older one is cancelled, a colliding one refused.
LEMMA OtherCreateStep ==
    ASSUME GatewayInv, OtherCreate
    PROVE  GatewayInv' /\ SessionsKept
<1>1. PICK d \in Devices \ {Board}, code \in Codes : sessions' = WithSession(d, code)
  BY DEF OtherCreate
<1>2. /\ sessions' \in Seq(SessionRow) /\ Newest(sessions') /\ SessionsKept
      /\ DOMAIN sessions \subseteq DOMAIN sessions'
  BY <1>1, WithSessionFacts, BoundsAssumption DEF SessionsKept
<1>3. now' \in Nat /\ devices' \in [Devices -> {"active", "revoked"}]
      /\ UNCHANGED <<bindings, posts, admin, message>>
  BY DEF OtherCreate, GatewayInv, GatewayTypes
<1> QED
  BY <1>2, <1>3, SessionsChange

\* expireDue and the cancellation of a revoked device's session.
LEMMA MoveStep ==
    ASSUME GatewayInv, NEW ids, NEW status \in {"expired", "cancelled"},
           sessions' = Moved(ids, status),
           now' \in Nat, devices' \in [Devices -> {"active", "revoked"}],
           UNCHANGED <<bindings, posts, admin, message>>
    PROVE  GatewayInv' /\ SessionsKept
<1>1. status \in SessionStatus \ {"pending"} /\ status # "confirmed"
  BY DEF SessionStatus
<1>2. /\ sessions' \in Seq(SessionRow) /\ Newest(sessions') /\ SessionsKept
      /\ DOMAIN sessions \subseteq DOMAIN sessions'
  BY <1>1, MovedFacts DEF SessionsKept
<1> QED
  BY <1>2, SessionsChange

\* What is due ends as expired, nothing else changes.
LEMMA ExpireDueStep ==
    ASSUME GatewayInv, ExpireDue
    PROVE  GatewayInv' /\ SessionsKept
<1>1. /\ sessions' = Moved(Due, "expired")
      /\ now' \in Nat /\ devices' \in [Devices -> {"active", "revoked"}]
      /\ UNCHANGED <<bindings, posts, admin, message>>
  BY DEF ExpireDue, GatewayInv, GatewayTypes
<1> QED
  BY <1>1, MoveStep

\* A revoked device loses its pending session.
LEMMA RevokeDeviceStep ==
    ASSUME GatewayInv, RevokeDevice
    PROVE  GatewayInv' /\ SessionsKept
<1>1. PICK d \in Devices :
        /\ devices' = [devices EXCEPT ![d] = "revoked"]
        /\ sessions' = Moved(PendingOf(d), "cancelled")
        /\ UNCHANGED <<now, bindings, admin, message, posts>>
  BY DEF RevokeDevice
<1>2. now' \in Nat /\ devices' \in [Devices -> {"active", "revoked"}]
  BY <1>1 DEF GatewayInv, GatewayTypes
<1> QED
  BY <1>1, <1>2, MoveStep

\* A status that the operator writes back is not active: nothing becomes active.
LEMMA ChangeStatusStep ==
    ASSUME GatewayInv, ChangeStatusRead \/ ChangeStatusSave
    PROVE  GatewayInv' /\ sessions' = sessions
<1>1. CASE ChangeStatusRead
  <2>1. PICK b \in DOMAIN bindings, status \in {"unbound", "revoked"} :
          /\ admin' = <<b, status>>
          /\ UNCHANGED <<now, sessions, devices, bindings, message, posts>>
    BY <1>1 DEF ChangeStatusRead
  <2>2. \E c \in DOMAIN bindings', st \in {"unbound", "revoked"} : admin' = <<c, st>>
    BY <2>1
  <2>3. GatewayTypes'
    BY <2>1, <2>2 DEF GatewayInv, GatewayTypes
  <2> QED
    BY <2>1, <2>3 DEF GatewayInv, Newest, Exclusive
<1>2. CASE ChangeStatusSave
  <2>1. /\ admin # <<>> /\ admin' = <<>>
        /\ bindings' = [bindings EXCEPT ![admin[1]].status = admin[2]]
        /\ UNCHANGED <<now, sessions, devices, message, posts>>
    BY <1>2 DEF ChangeStatusSave
  <2>2. PICK b \in DOMAIN bindings, status \in {"unbound", "revoked"} :
          admin = <<b, status>>
    BY <2>1 DEF GatewayInv, GatewayTypes
  <2>3. bindings' = [bindings EXCEPT ![b].status = status]
    BY <2>1, <2>2
  <2>4. /\ bindings \in Seq(BindingRow) /\ Len(bindings) \in Nat
        /\ DOMAIN bindings = 1 .. Len(bindings)
        /\ \A i \in DOMAIN bindings : bindings[i] \in BindingRow
    BY SeqFacts DEF GatewayInv, GatewayTypes
  <2>5. bindings' \in [1 .. Len(bindings) -> BindingRow]
    BY <2>3, <2>4 DEF BindingRow
  <2>6. bindings' \in Seq(BindingRow) /\ DOMAIN bindings' = DOMAIN bindings
    BY <2>4, <2>5, FunctionIsSeq
  <2>7. \A i \in DOMAIN bindings :
          /\ bindings'[i].device = bindings[i].device
          /\ bindings'[i].identity = bindings[i].identity
          /\ bindings'[i].status = "active" => bindings[i].status = "active"
    BY <2>3, <2>4 DEF BindingRow
  <2>8. Exclusive(bindings)'
    BY <2>6, <2>7 DEF GatewayInv, Exclusive
  <2>9. GatewayTypes'
    BY <2>1, <2>6 DEF GatewayInv, GatewayTypes
  <2> QED
    BY <2>1, <2>8, <2>9 DEF GatewayInv, Newest
<1> QED
  BY <1>1, <1>2

\* A handler that moves on without touching a table.
LEMMA HandlerMoves ==
    ASSUME GatewayInv, posts' \in [Posts -> PostRow],
           \A p \in Posts :
             /\ posts'[p].at # "idle" => posts'[p].event \in Events
             /\ posts'[p].at = "commit" => posts'[p].candidate \in DOMAIN sessions,
           UNCHANGED <<now, sessions, bindings, devices, message, admin>>
    PROVE  GatewayInv'
<1>1. GatewayTypes'
  BY DEF GatewayInv, GatewayTypes
<1> QED
  BY <1>1 DEF GatewayInv, Newest, Exclusive

\* The handler p goes to another place with its event.
LEMMA GoesFacts ==
    ASSUME GatewayInv, NEW p \in Posts, NEW to, Goes(p, to), posts[p].at # "idle",
           to \in {"idle", "save", "mark", "confirm", "done", "failed"}
    PROVE  /\ posts' \in [Posts -> PostRow]
           /\ \A o \in Posts :
                /\ posts'[o].at # "idle" => posts'[o].event \in Events
                /\ posts'[o].at = "commit" =>
                     posts[o].at = "commit" /\ posts'[o].candidate = posts[o].candidate
<1>1. posts \in [Posts -> PostRow]
  BY DEF GatewayInv, GatewayTypes
<1>2. CASE to = "idle"
  <2>1. posts' = [posts EXCEPT ![p] = FreePost]
    BY <1>2 DEF Goes
  <2>2. FreePost \in PostRow /\ FreePost.at = "idle"
    BY DEF FreePost, PostRow
  <2> QED
    BY <1>1, <2>1, <2>2 DEF GatewayInv, GatewayTypes
<1>3. CASE to # "idle"
  <2>1. posts' = [posts EXCEPT ![p] = [posts[p] EXCEPT !.at = to]]
    BY <1>3 DEF Goes
  <2>2. /\ [posts[p] EXCEPT !.at = to] \in PostRow
        /\ [posts[p] EXCEPT !.at = to].at = to
        /\ [posts[p] EXCEPT !.at = to].event = posts[p].event
    BY <1>1, <1>3 DEF PostRow
  <2>3. posts[p].event \in Events
    BY DEF GatewayInv, GatewayTypes
  <2> QED
    BY <1>1, <1>3, <2>1, <2>2, <2>3 DEF GatewayInv, GatewayTypes
<1> QED
  BY <1>2, <1>3

\* A handler that only moves on, or marks its event, leaves the tables as they are.
LEMMA HandlerStep ==
    ASSUME GatewayInv, NEW p \in Posts, NEW from, NEW to, AtGateway(p, from, to),
           from # "idle", to \in {"idle", "save", "mark", "confirm", "done", "failed"},
           UNCHANGED <<sessions, bindings>>
    PROVE  GatewayInv' /\ sessions' = sessions
<1>1. posts[p].at # "idle" /\ Goes(p, to) /\ UNCHANGED <<now, devices, message, admin>>
  BY DEF AtGateway, At
<1>2. /\ posts' \in [Posts -> PostRow]
      /\ \A o \in Posts :
           /\ posts'[o].at # "idle" => posts'[o].event \in Events
           /\ posts'[o].at = "commit" =>
                posts[o].at = "commit" /\ posts'[o].candidate = posts[o].candidate
  BY <1>1, GoesFacts
<1>3. \A o \in Posts : posts'[o].at = "commit" => posts'[o].candidate \in DOMAIN sessions
  BY <1>2 DEF GatewayInv, GatewayTypes
<1> QED
  BY <1>1, <1>2, <1>3, HandlerMoves

\* A delivery, and a crash in the middle of one.
LEMMA DeliverStep ==
    ASSUME GatewayInv, NEW p \in Posts, NEW e \in Events, Deliver(p, e) \/ Crash(p)
    PROVE  GatewayInv' /\ sessions' = sessions
<1> DEFINE row == IF Deliver(p, e) THEN [at |-> "record", event |-> e, candidate |-> 0]
                  ELSE FreePost
<1>1. /\ posts' = [posts EXCEPT ![p] = row]
      /\ UNCHANGED <<now, sessions, bindings, devices, message, admin>>
  BY DEF Deliver, Crash
<1>2. /\ row \in PostRow /\ row.at # "commit"
      /\ row.at # "idle" => row.event \in Events
  BY DEF PostRow, FreePost
<1>3. /\ posts' \in [Posts -> PostRow]
      /\ \A o \in Posts :
           /\ posts'[o].at # "idle" => posts'[o].event \in Events
           /\ posts'[o].at = "commit" => posts'[o].candidate \in DOMAIN sessions
  BY <1>1, <1>2 DEF GatewayInv, GatewayTypes
<1> QED
  BY <1>1, <1>3, HandlerMoves

\* A pending session is the only one with its code: the look-up finds it.
LEMMA ConfirmReadStep ==
    ASSUME GatewayInv, NEW p \in Posts, ConfirmRead(p)
    PROVE  GatewayInv' /\ sessions' = sessions
<1> DEFINE code == message[posts[p].event].code
           found == {s \in DOMAIN sessions :
                       sessions[s].code = code /\ sessions[s].status = "pending"}
           least == CHOOSE s \in found : \A r \in found : s <= r
           to == IF found = {} THEN "failed" ELSE "commit"
           candidate == IF found = {} THEN 0 ELSE least
           row == [posts[p] EXCEPT !.at = to, !.candidate = candidate]
<1>1. /\ posts[p].at = "confirm" /\ posts[p].event \in Events
      /\ UNCHANGED <<now, sessions, bindings, devices, message, admin>>
  BY DEF ConfirmRead, At, GatewayInv, GatewayTypes
<1>2. posts' = [posts EXCEPT ![p] = row]
  <2>1. posts' = [posts EXCEPT ![p].at = to, ![p].candidate = candidate]
    BY DEF ConfirmRead
  <2> HIDE DEF to, candidate
  <2> QED
    BY <2>1, Zenon
<1>3. /\ DOMAIN sessions = 1 .. Len(sessions) /\ Len(sessions) \in Nat
  BY SeqFacts DEF GatewayInv, GatewayTypes
<1>4. found # {} => least \in found
  <2> SUFFICES ASSUME found # {} PROVE least \in found
    OBVIOUS
  <2>1. PICK s \in found : TRUE
    OBVIOUS
  <2>2. \A r \in found : r = s
    BY DEF GatewayInv, Newest
  <2>3. \A r \in found : s <= r
    BY <1>3, <2>2
  <2> QED
    BY <2>3
<1>5. found # {} => least \in DOMAIN sessions /\ least \in Nat
  BY <1>3, <1>4
<1> HIDE DEF least
<1>6. posts[p] \in PostRow
  BY DEF GatewayInv, GatewayTypes
<1>7. /\ row \in PostRow
      /\ row.at = "commit" => row.candidate \in DOMAIN sessions
      /\ row.event = posts[p].event
  BY <1>5, <1>6 DEF PostRow
<1> HIDE DEF row
<1>8. /\ posts' \in [Posts -> PostRow]
      /\ \A o \in Posts :
           /\ posts'[o].at # "idle" => posts'[o].event \in Events
           /\ posts'[o].at = "commit" => posts'[o].candidate \in DOMAIN sessions
  BY <1>1, <1>2, <1>7 DEF GatewayInv, GatewayTypes
<1> QED
  BY <1>1, <1>8, HandlerMoves

\* replaceActiveBinding ends what the device or the identity had.
LEMMA ReplacedFacts ==
    ASSUME GatewayInv, NEW d \in Devices, NEW i \in Identities
    PROVE  /\ Replaced(d, i) \in Seq(BindingRow)
           /\ DOMAIN bindings \subseteq DOMAIN Replaced(d, i)
           /\ Exclusive(Replaced(d, i))
           /\ \E b \in DOMAIN Replaced(d, i) :
                /\ Replaced(d, i)[b].status = "active"
                /\ Replaced(d, i)[b].device = d
<1> DEFINE row == [device |-> d, identity |-> i, status |-> "active"]
           rest == [b \in DOMAIN bindings |->
                      IF b \in ActiveOf(d, i) THEN [bindings[b] EXCEPT !.status = "unbound"]
                      ELSE bindings[b]]
           q == Replaced(d, i)
<1>1. /\ bindings \in Seq(BindingRow) /\ Len(bindings) \in Nat
      /\ DOMAIN bindings = 1 .. Len(bindings)
      /\ \A b \in DOMAIN bindings : bindings[b] \in BindingRow
  BY SeqFacts DEF GatewayInv, GatewayTypes
<1>2. CASE \E b \in DOMAIN bindings : bindings[b] = row
  <2>1. q = bindings
    BY <1>2 DEF Replaced
  <2>2. PICK b \in DOMAIN bindings : bindings[b] = row
    BY <1>2
  <2>3. bindings[b].status = "active" /\ bindings[b].device = d
    BY <2>2
  <2> QED
    BY <1>1, <2>1, <2>3 DEF GatewayInv
<1>3. CASE ~ \E b \in DOMAIN bindings : bindings[b] = row
  <2>1. q = Append(rest, row)
    BY <1>3 DEF Replaced
  <2>2. rest \in [1 .. Len(bindings) -> BindingRow]
    BY <1>1 DEF BindingRow
  <2>3. \A b \in DOMAIN bindings :
          /\ rest[b].device = bindings[b].device
          /\ rest[b].identity = bindings[b].identity
          /\ rest[b].status = "active" =>
               bindings[b].status = "active" /\ b \notin ActiveOf(d, i)
    BY <1>1 DEF BindingRow
  <2>4. rest \in Seq(BindingRow) /\ Len(rest) = Len(bindings) /\ DOMAIN rest = DOMAIN bindings
    BY <1>1, <2>2, FunctionIsSeq
  <2> HIDE DEF rest
  <2>5. row \in BindingRow
    BY DEF BindingRow
  <2>6. /\ q \in Seq(BindingRow) /\ DOMAIN q = 1 .. Len(bindings) + 1
        /\ \A b \in 1 .. Len(bindings) : q[b] = rest[b]
        /\ q[Len(bindings) + 1] = row
    BY <2>1, <2>4, <2>5, AppendFacts
  <2>7. \A b \in 1 .. Len(bindings) :
          q[b].status = "active" => q[b].device # d /\ q[b].identity # i
    BY <1>1, <2>3, <2>6 DEF ActiveOf
  <2>8. \A a, b \in 1 .. Len(bindings) :
          a # b /\ q[a].status = "active" /\ q[b].status = "active" =>
            q[a].device # q[b].device /\ q[a].identity # q[b].identity
    BY <1>1, <2>3, <2>6 DEF GatewayInv, Exclusive
  <2>9. /\ q[Len(bindings) + 1].device = d /\ q[Len(bindings) + 1].identity = i
        /\ q[Len(bindings) + 1].status = "active"
        /\ Len(bindings) + 1 \in DOMAIN q
    BY <1>1, <2>6
  <2>10. Exclusive(q)
    BY <1>1, <2>6, <2>7, <2>8, <2>9 DEF Exclusive
  <2> QED
    BY <1>1, <2>6, <2>9, <2>10
<1> QED
  BY <1>2, <1>3

\* What the step that confirms session s shows of it.
ConfirmedProperly(s) ==
    /\ sessions[s].status = "pending" /\ now < sessions[s].expires
    /\ devices[sessions[s].device] = "active"
    /\ \A r \in DOMAIN sessions :
           r > s => sessions[r].device # sessions[s].device
    /\ \E b \in DOMAIN bindings' :
           /\ bindings'[b].status = "active"
           /\ bindings'[b].device = sessions[s].device
           /\ \A c \in DOMAIN bindings' \ {b} :
                  /\ bindings'[c].status = "active"
                  => /\ bindings'[c].device # bindings'[b].device
                     /\ bindings'[c].identity # bindings'[b].identity

\* Every session that is newly confirmed was confirmed properly.
ConfirmsProperly ==
    /\ DOMAIN sessions \subseteq DOMAIN sessions'
    /\ \A s \in DOMAIN sessions :
         sessions'[s].status = "confirmed" /\ sessions[s].status # "confirmed"
           => ConfirmedProperly(s)

\* The second look, under the locks, decides: the session confirmed is still
\* pending, hence the newest of its device.
LEMMA ConfirmStep ==
    ASSUME GatewayInv, NEW p \in Posts, Confirm(p)
    PROVE  GatewayInv' /\ ConfirmsProperly
<1> DEFINE s == posts[p].candidate
           d == sessions[s].device
           i == message[posts[p].event].identity
<1>1. posts[p].at = "commit" /\ UNCHANGED <<now, devices, message, admin>>
  BY DEF Confirm, AtGateway, At
<1>2. s \in DOMAIN sessions /\ posts[p].event \in Events
  BY <1>1 DEF GatewayInv, GatewayTypes
<1>3. sessions[s] \in SessionRow
  BY <1>2, SeqFacts DEF GatewayInv, GatewayTypes
<1>4. d \in Devices /\ i \in Identities
  BY <1>2, <1>3 DEF SessionRow, GatewayInv, GatewayTypes
<1> HIDE DEF s, d, i
<1>5. Goes(p, IF StillConfirmable(s) THEN "done" ELSE "failed")
  BY DEF Confirm, AtGateway, s
<1>6. /\ posts' \in [Posts -> PostRow]
      /\ \A o \in Posts :
           /\ posts'[o].at # "idle" => posts'[o].event \in Events
           /\ posts'[o].at = "commit" =>
                posts[o].at = "commit" /\ posts'[o].candidate = posts[o].candidate
  BY <1>1, <1>5, GoesFacts
<1>7. \A o \in Posts : posts'[o].at = "commit" => posts'[o].candidate \in DOMAIN sessions
  BY <1>6 DEF GatewayInv, GatewayTypes
<1>8. CASE StillConfirmable(s)
  <2>1. sessions' = Moved({s}, "confirmed") /\ bindings' = Replaced(d, i)
    BY <1>8 DEF Confirm, s, d, i
  <2>2. "confirmed" \in SessionStatus \ {"pending"}
    BY DEF SessionStatus
  <2>3. /\ sessions' \in Seq(SessionRow) /\ DOMAIN sessions' = DOMAIN sessions
        /\ Newest(sessions')
        /\ \A r \in DOMAIN sessions :
             sessions'[r].status = IF r \in {s} THEN "confirmed" ELSE sessions[r].status
    BY <2>1, <2>2, MovedFacts
  <2>4. /\ bindings' \in Seq(BindingRow) /\ DOMAIN bindings \subseteq DOMAIN bindings'
        /\ Exclusive(bindings')
        /\ \E b \in DOMAIN bindings' :
             bindings'[b].status = "active" /\ bindings'[b].device = d
    BY <1>4, <2>1, ReplacedFacts
  <2>5. GatewayTypes'
    BY <1>1, <1>6, <1>7, <2>3, <2>4 DEF GatewayInv, GatewayTypes
  <2>6. GatewayInv'
    BY <2>3, <2>4, <2>5 DEF GatewayInv, Newest, Exclusive
  <2>7. /\ sessions[s].status = "pending" /\ now < sessions[s].expires
        /\ devices[d] = "active"
    BY <1>8 DEF StillConfirmable, d
  <2>8. DOMAIN sessions = 1 .. Len(sessions) /\ Len(sessions) \in Nat
    BY SeqFacts DEF GatewayInv, GatewayTypes
  <2>9. \A r \in DOMAIN sessions : r > s => sessions[r].device # d
    BY <1>2, <2>7, <2>8 DEF GatewayInv, Newest, d
  <2>10. \E b \in DOMAIN bindings' :
           /\ bindings'[b].status = "active"
           /\ bindings'[b].device = sessions[s].device
           /\ \A c \in DOMAIN bindings' \ {b} :
                  /\ bindings'[c].status = "active"
                  => /\ bindings'[c].device # bindings'[b].device
                     /\ bindings'[c].identity # bindings'[b].identity
    <3>1. PICK b \in DOMAIN bindings' :
            bindings'[b].status = "active" /\ bindings'[b].device = d
      BY <2>4
    <3>2. \A c \in DOMAIN bindings' \ {b} :
            /\ bindings'[c].status = "active"
            => /\ bindings'[c].device # bindings'[b].device
               /\ bindings'[c].identity # bindings'[b].identity
      BY <2>4, <3>1 DEF Exclusive
    <3> QED
      BY <3>1, <3>2 DEF d
  <2>11. ConfirmedProperly(s)
    BY <2>7, <2>9, <2>10 DEF ConfirmedProperly, d
  <2> QED
    BY <2>3, <2>6, <2>11 DEF ConfirmsProperly
<1>9. CASE ~StillConfirmable(s)
  <2>1. sessions' = sessions /\ bindings' = bindings
    BY <1>9 DEF Confirm, s
  <2>2. GatewayInv'
    BY <1>1, <1>6, <1>7, <2>1, HandlerMoves
  <2> QED
    BY <2>1, <2>2 DEF ConfirmsProperly
<1> QED
  BY <1>8, <1>9

\* Every step of the gateway.
LEMMA GatewayStep ==
    ASSUME GatewayInv, Gateway
    PROVE  GatewayInv' /\ ConfirmsProperly
<1>1. SessionsKept \/ sessions' = sessions => ConfirmsProperly
  BY DEF SessionsKept, ConfirmsProperly
<1>2. CASE OtherCreate \/ ExpireDue \/ RevokeDevice
  BY <1>1, <1>2, OtherCreateStep, ExpireDueStep, RevokeDeviceStep
<1>3. CASE ChangeStatusRead \/ ChangeStatusSave
  BY <1>1, <1>3, ChangeStatusStep
<1>4. ASSUME NEW p \in Posts, NEW e \in Events, Deliver(p, e)
      PROVE  GatewayInv' /\ ConfirmsProperly
  BY <1>1, <1>4, DeliverStep
<1>5. ASSUME NEW p \in Posts, PostEvent(p)
      PROVE  GatewayInv' /\ ConfirmsProperly
  <2>1. CASE RecordRead(p)
    <3>1. \E to \in {"idle", "save"} : AtGateway(p, "record", to)
      BY <2>1 DEF RecordRead
    <3>2. UNCHANGED <<sessions, bindings>>
      BY <2>1 DEF RecordRead
    <3> QED
      BY <1>1, <3>1, <3>2, HandlerStep
  <2>2. ASSUME NEW from, NEW status, NEW to, Mark(p, from, status, to), from # "idle",
               to \in {"idle", "mark", "confirm"}
        PROVE  GatewayInv' /\ ConfirmsProperly
    <3>1. AtGateway(p, from, to) /\ UNCHANGED <<sessions, bindings>>
      BY <2>2 DEF Mark
    <3> QED
      BY <1>1, <2>2, <3>1, HandlerStep
  <2>3. CASE ConfirmRead(p)
    BY <1>1, <2>3, ConfirmReadStep
  <2>4. CASE Confirm(p)
    BY <2>4, ConfirmStep
  <2> QED
    BY <1>5, <2>1, <2>2, <2>3, <2>4 DEF PostEvent
<1>6. ASSUME NEW p \in Posts, Crash(p)
      PROVE  GatewayInv' /\ ConfirmsProperly
  <2>1. posts[p].event \in Events
    BY <1>6 DEF Crash, At, GatewayInv, GatewayTypes
  <2> QED
    BY <1>1, <1>6, <2>1, DeliverStep
<1> QED
  BY <1>2, <1>3, <1>4, <1>5, <1>6 DEF Gateway

-----------------------------------------------------------------------------
(* Lemmas about the board's records.                                       *)

BoardInv == BoardTypes /\ LeaseInv /\ DisplayInv

\* A result carries the use case's generation of now.
LEMMA ResultFacts ==
    ASSUME BoardTypes, NEW state \in States, NEW code \in Codes \cup {"none"}
    PROVE  /\ Result(state, code) \in Results
           /\ Result(state, code).state = state
           /\ Result(state, code).code = code
           /\ Result(state, code).generation = binding.generation
BY DEF Result, Results, BoardTypes, UseCase

\* Finish closes the session and leaves the generation.
LEMMA EndedFacts ==
    ASSUME NEW b \in UseCase, NEW state \in States
    PROVE  /\ Ended(b, state) \in UseCase
           /\ ~Ended(b, state).active
           /\ Ended(b, state).generation = b.generation
BY DEF Ended, UseCase

\* The resting values have their types.
LEMMA IdleFacts ==
    /\ Idle \in McpRow /\ Idle.at = "idle"
    /\ NoTask \in TaskRow /\ NoTask.at = "none" /\ NoTask.owner = 0
BY DEF Idle, McpRow, NoTask, TaskRow, Results, SessionStatus

\* The MCP worker with a result to post.
Posting(r) == [Idle EXCEPT !.at = "post", !.result = r]

\* The worker that is about to post keeps the result it is given.
LEMMA PostingFacts ==
    ASSUME NEW r \in Results
    PROVE  /\ Posting(r) \in McpRow
           /\ Posting(r).at = "post" /\ Posting(r).result = r
BY DEF Posting, Idle, McpRow

\* The MCP worker at another place with the same result.
LEMMA McpGoes ==
    ASSUME NEW m \in McpRow, NEW to,
           to \in {"idle", "create", "answer", "post", "acquire", "spawn", "abort"}
    PROVE  /\ [m EXCEPT !.at = to] \in McpRow
           /\ [m EXCEPT !.at = to].at = to
           /\ [m EXCEPT !.at = to].result = m.result
           /\ [m EXCEPT !.at = to].session = m.session
           /\ [m EXCEPT !.at = to].refusal = m.refusal
BY DEF McpRow

\* The gateway, and the passing of time, leave the board as it is.
LEMMA BoardStays ==
    ASSUME BoardInv, UNCHANGED board, DOMAIN sessions \subseteq DOMAIN sessions'
    PROVE  BoardInv'
<1>1. UNCHANGED <<binding, mutex, mcp, lease, tasks, rebind, queue, display>>
  BY DEF board
<1>2. BoardTypes'
  BY <1>1 DEF BoardInv, BoardTypes
<1>3. LeaseInv'
  BY <1>1 DEF BoardInv, LeaseInv, Alive, Coming
<1>4. DisplayInv'
  BY <1>1 DEF BoardInv, DisplayInv, Replaces
<1> QED
  BY <1>2, <1>3, <1>4 DEF BoardInv

\* Whoever leaves the generation, the display, the queue and a waiting result
\* alone keeps what is to replace the display.
LEMMA DisplayStays ==
    ASSUME DisplayInv, binding'.generation = binding.generation,
           UNCHANGED <<rebind, queue, display>>,
           mcp.at # "post" \/ mcp' = mcp
    PROVE  DisplayInv'
BY DEF DisplayInv, Replaces

-----------------------------------------------------------------------------
(* im.binding.start.                                                       *)

\* A refusal, or a session that is open already, changes no generation.
LEMMA StartLocalStep ==
    ASSUME BoardInv, GatewayInv, StartLocal
    PROVE  BoardInv'
<1>1. /\ mcp.at = "idle"
      /\ UNCHANGED <<lease, tasks, queue, sessions, rebind, display>>
  BY DEF StartLocal, BoardOnly, gateway
<1>2. binding \in UseCase /\ BoardTypes
  BY DEF BoardInv, BoardTypes
<1>3. PICK state \in {"unavailable", "alreadyActive"}, code \in Codes \cup {"none"} :
        /\ binding' = [binding EXCEPT !.state = state]
        /\ mcp' = Posting(Result(state, code))
  <2>1. CASE ~binding.bound
    BY <2>1 DEF StartLocal, Posting
  <2>2. CASE binding.bound
    <3>1. binding.session \in DOMAIN sessions
      BY <2>2 DEF StartLocal, BoardInv, BoardTypes
    <3>2. sessions[binding.session] \in SessionRow
      BY <3>1, SeqFacts DEF GatewayInv, GatewayTypes
    <3>3. sessions[binding.session].code \in Codes
      BY <3>2 DEF SessionRow
    <3> QED
      BY <2>2, <3>3 DEF StartLocal, Posting
  <2> QED
    BY <2>1, <2>2
<1>4. state \in States /\ state # "pending"
  BY DEF States
<1>5. /\ Result(state, code) \in Results
      /\ Result(state, code).state = state
  BY <1>2, <1>4, ResultFacts
<1>6. /\ mcp' \in McpRow /\ mcp'.at = "post" /\ mcp'.result \in Results
      /\ mcp'.result.state # "pending"
  BY <1>3, <1>4, <1>5, PostingFacts
<1>7. /\ binding' \in UseCase
      /\ binding'.generation = binding.generation /\ binding'.active = binding.active
      /\ binding'.session = binding.session
  BY <1>2, <1>3, <1>4 DEF UseCase
<1>8. BoardTypes'
  BY <1>1, <1>6, <1>7 DEF BoardInv, BoardTypes
<1>9. ~Coming /\ ~Coming'
  BY <1>1, <1>6 DEF Coming
<1>10. LeaseInv'
  BY <1>1, <1>6, <1>7, <1>9 DEF BoardInv, LeaseInv, Alive
<1>11. DisplayInv'
  BY <1>1, <1>7, DisplayStays DEF BoardInv
<1> QED
  BY <1>8, <1>10, <1>11 DEF BoardInv

\* A request is made only when no session is open.
LEMMA StartRequestStep ==
    ASSUME BoardInv, StartRequest
    PROVE  BoardInv'
<1>1. /\ mcp.at = "idle" /\ ~binding.active
      /\ mcp' = [Idle EXCEPT !.at = "create"]
      /\ UNCHANGED <<binding, lease, tasks, queue, sessions, rebind, display>>
  BY DEF StartRequest, BoardOnly, gateway
<1>2. mcp' \in McpRow /\ mcp'.at = "create"
  BY <1>1, IdleFacts, McpGoes
<1>3. BoardTypes'
  BY <1>1, <1>2 DEF BoardInv, BoardTypes
<1>4. LeaseInv'
  BY <1>1, <1>2 DEF BoardInv, LeaseInv, Alive, Coming
<1>5. DisplayInv'
  BY <1>1, DisplayStays DEF BoardInv
<1> QED
  BY <1>3, <1>4, <1>5 DEF BoardInv

\* The MCP worker with the number of a new session.
LEMMA CreatedFacts ==
    ASSUME NEW n \in Nat
    PROVE  /\ [Idle EXCEPT !.at = "answer", !.session = n] \in McpRow
           /\ [Idle EXCEPT !.at = "answer", !.session = n].at = "answer"
           /\ [Idle EXCEPT !.at = "answer", !.session = n].session = n
<1>1. [Idle EXCEPT !.at = "answer", !.session = n] \in McpRow
  BY IdleFacts DEF McpRow
<1>2. [Idle EXCEPT !.at = "answer", !.session = n].at = "answer"
  BY DEF Idle
<1>3. [Idle EXCEPT !.at = "answer", !.session = n].session = n
  BY DEF Idle
<1> QED
  BY <1>1, <1>2, <1>3

\* The session the gateway has created is in its table when the answer comes.
LEMMA StartCreateStep ==
    ASSUME GatewayInv, BoardInv, StartCreate
    PROVE  GatewayInv' /\ SessionsKept /\ BoardInv'
<1>1. PICK code \in Codes :
        LET created == [Idle EXCEPT !.at = "answer", !.session = Len(sessions) + 1]
            refused == [Idle EXCEPT !.at = "answer", !.refusal = "failed"]
        IN  IF devices[Board] = "revoked"
            THEN /\ mcp' = [refused EXCEPT !.refusal = "credentialRejected"]
                 /\ sessions' = sessions
            ELSE /\ sessions' = WithSession(Board, code)
                 /\ IF CodeIsFree(Board, code)
                    THEN mcp' = created \/ mcp' = refused
                    ELSE mcp' = refused \/ mcp' = [mcp EXCEPT !.attempts = @ + 1]
  BY DEF StartCreate
<1>2. /\ mcp.at = "create"
      /\ UNCHANGED <<now, devices, bindings, admin, message, posts,
                     binding, lease, tasks, rebind, queue, display>>
  BY DEF StartCreate
<1>3. Len(sessions) \in Nat /\ sessions \in Seq(SessionRow) /\ mcp \in McpRow
      /\ now \in Nat /\ devices \in [Devices -> {"active", "revoked"}] /\ Newest(sessions)
  BY SeqFacts DEF GatewayInv, GatewayTypes, BoardInv, BoardTypes
<1>4. Board \in Devices
  BY BoundsAssumption
<1>5. sessions' = sessions \/ sessions' = WithSession(Board, code)
  BY <1>1
<1>6. /\ sessions' \in Seq(SessionRow) /\ Newest(sessions') /\ SessionsKept
      /\ DOMAIN sessions \subseteq DOMAIN sessions'
  BY <1>3, <1>4, <1>5, WithSessionFacts, BoundsAssumption DEF SessionsKept
<1>7. GatewayInv'
  BY <1>2, <1>3, <1>6, SessionsChange
<1>8. /\ mcp' \in McpRow /\ mcp'.at \in {"create", "answer"}
      /\ mcp'.at = "answer" /\ mcp'.session # 0 => mcp'.session \in DOMAIN sessions'
      /\ mcp'.at = "answer" /\ mcp'.session = 0 => mcp'.refusal # "none"
  <2> DEFINE created == [Idle EXCEPT !.at = "answer", !.session = Len(sessions) + 1]
             refused == [Idle EXCEPT !.at = "answer", !.refusal = "failed"]
             rejected == [refused EXCEPT !.refusal = "credentialRejected"]
             again == [mcp EXCEPT !.attempts = @ + 1]
  <2>1. /\ created \in McpRow /\ created.at = "answer"
        /\ created.session = Len(sessions) + 1
    <3>1. Len(sessions) + 1 \in Nat
      BY <1>3
    <3> QED
      BY <3>1, CreatedFacts
  <2>2. /\ refused \in McpRow /\ refused.at = "answer" /\ refused.session = 0
        /\ refused.refusal = "failed"
    BY DEF McpRow, Idle
  <2>3. /\ rejected \in McpRow /\ rejected.at = "answer" /\ rejected.session = 0
        /\ rejected.refusal = "credentialRejected"
    BY DEF McpRow, Idle
  <2>4. again \in McpRow /\ again.at = "create"
    BY <1>2, <1>3 DEF McpRow
  <2>5. CodeIsFree(Board, code) => Len(sessions) + 1 \in DOMAIN WithSession(Board, code)
    BY <1>4, WithSessionFacts, BoundsAssumption
  <2>6. \/ mcp' = created /\ Len(sessions) + 1 \in DOMAIN sessions'
        \/ mcp' \in {refused, rejected, again}
    BY <1>1, <2>5
  <2> HIDE DEF created, refused, rejected, again
  <2> QED
    BY <2>1, <2>2, <2>3, <2>4, <2>6
<1>9. BoardTypes'
  BY <1>2, <1>6, <1>8 DEF BoardInv, BoardTypes
<1>10. LeaseInv'
  BY <1>2, <1>8 DEF BoardInv, LeaseInv, Alive, Coming
<1>11. DisplayInv'
  BY <1>2, DisplayStays DEF BoardInv
<1> QED
  BY <1>6, <1>7, <1>9, <1>10, <1>11 DEF BoardInv

\* A session that is entered has a generation of its own, newer than the lease
\* and every task's owner; its code is on its way to the display.
LEMMA StartAnswerStep ==
    ASSUME GatewayInv, BoardInv, StartAnswer
    PROVE  BoardInv'
<1> DEFINE s == mcp.session
           g == binding.generation + 1
           open == s # 0 /\ now < sessions[s].expires
           end == IF s = 0 THEN mcp.refusal ELSE "timedOut"
<1>1. /\ mcp.at = "answer"
      /\ UNCHANGED <<lease, tasks, queue, sessions, rebind, display>>
  BY DEF StartAnswer, BoardOnly, gateway
<1>2. binding \in UseCase /\ BoardTypes /\ mcp \in McpRow /\ ~binding.active
  BY <1>1 DEF BoardInv, BoardTypes, LeaseInv
<1>3. s \in Nat /\ g \in Nat /\ g > binding.generation
      /\ binding.generation \in Nat
  BY <1>2 DEF McpRow, UseCase
<1>4. CASE open
  <2>1. s \in DOMAIN sessions
    BY <1>1, <1>4 DEF BoardInv, BoardTypes
  <2>2. sessions[s] \in SessionRow
    BY <2>1, SeqFacts DEF GatewayInv, GatewayTypes
  <2>3. sessions[s].expires \in Nat /\ sessions[s].code \in Codes /\ now + 1 \in Nat
        /\ sessions[s].code # "none"
    BY <2>2, BoundsAssumption DEF SessionRow, GatewayInv, GatewayTypes
  <2> DEFINE r == [kind |-> "result", state |-> "pending",
                   code |-> sessions[s].code, generation |-> g]
             b == [binding EXCEPT !.generation = g, !.state = "pending",
                       !.active = TRUE, !.session = s, !.finalTried = FALSE,
                       !.deadline = sessions[s].expires, !.nextPoll = now + 1]
  <2>4. binding' = b /\ mcp' = Posting(r)
    BY <1>4 DEF StartAnswer, Posting
  <2>5. r \in Results /\ r.state = "pending" /\ r.generation = g /\ r.code # "none"
    BY <1>3, <2>3 DEF Results, States, SessionStatus
  <2>6. /\ b \in UseCase /\ b.generation = g /\ b.active /\ b.session = s
    BY <1>2, <1>3, <2>3 DEF UseCase, States, SessionStatus
  <2> HIDE DEF r, b
  <2>7. mcp' \in McpRow /\ mcp'.at = "post" /\ mcp'.result = r
    BY <2>4, <2>5, PostingFacts
  <2> HIDE DEF s, g, open
  <2>8. BoardTypes'
    BY <1>1, <2>1, <2>4, <2>5, <2>6, <2>7 DEF BoardInv, BoardTypes
  <2>9. Coming' /\ mcp'.result.generation = g /\ binding'.generation = g
    BY <2>4, <2>5, <2>6, <2>7 DEF Coming
  <2>10. \A t \in Tasks : tasks[t].owner \in Nat
    BY DEF BoardInv, BoardTypes, TaskRow
  <2>11. LeaseInv'
    BY <1>1, <1>3, <2>7, <2>9, <2>10 DEF BoardInv, BoardTypes, LeaseInv, Alive
  <2>12. DisplayInv'
    BY <2>5, <2>7, <2>9 DEF DisplayInv, Replaces
  <2> QED
    BY <2>8, <2>11, <2>12 DEF BoardInv
<1>5. CASE ~open
  <2>1. end \in States /\ end # "pending"
    BY <1>1, <1>2 DEF States, McpRow, BoardTypes
  <2> HIDE DEF end
  <2>2. binding' = Ended(binding, end) /\ mcp' = Posting(Result(end, "none"))
    BY <1>5 DEF StartAnswer, Posting, end
  <2>3. /\ binding' \in UseCase /\ ~binding'.active
        /\ binding'.generation = binding.generation
    BY <1>2, <2>1, <2>2, EndedFacts
  <2>4. Result(end, "none") \in Results /\ Result(end, "none").state # "pending"
    BY <1>2, <2>1, ResultFacts
  <2>5. mcp' \in McpRow /\ mcp'.at = "post" /\ mcp'.result \in Results
        /\ mcp'.result.state # "pending"
    BY <2>2, <2>4, PostingFacts
  <2>6. BoardTypes'
    BY <1>1, <2>3, <2>5 DEF BoardInv, BoardTypes
  <2>7. LeaseInv'
    BY <1>1, <2>3, <2>5 DEF BoardInv, LeaseInv, Alive, Coming
  <2>8. DisplayInv'
    BY <1>1, <2>3, DisplayStays DEF BoardInv
  <2> QED
    BY <2>6, <2>7, <2>8 DEF BoardInv
<1> QED
  BY <1>4, <1>5

\* The result that waits to be posted becomes the last of the queue.
LEMMA StartPostStep ==
    ASSUME BoardInv, StartPost
    PROVE  BoardInv'
<1>1. /\ mcp.at = "post" /\ mcp.result \in Results /\ mcp \in McpRow
      /\ queue' = Append(queue, mcp.result)
      /\ UNCHANGED <<binding, lease, tasks, sessions, rebind, display>>
  BY DEF StartPost, BoardOnly, gateway, BoardInv, BoardTypes
<1>2. queue \in Seq(Results \cup Resets) /\ mcp.result \in Results \cup Resets
      /\ Len(queue) \in Nat
  BY <1>1, SeqFacts DEF BoardInv, BoardTypes
<1>3. /\ queue' \in Seq(Results \cup Resets) /\ Len(queue') = Len(queue) + 1
      /\ \A i \in 1 .. Len(queue) : queue'[i] = queue[i]
      /\ queue'[Len(queue) + 1] = mcp.result
  BY <1>1, <1>2, AppendFacts
<1>4. /\ mcp' \in McpRow /\ mcp'.at \in {"acquire", "idle"}
      /\ mcp'.at = "acquire" <=> mcp.result.state = "pending"
      /\ mcp'.at = "acquire" => mcp'.result = mcp.result
  <2>1. CASE mcp.result.state = "pending"
    <3>1. mcp' = [mcp EXCEPT !.at = "acquire"]
      BY <2>1 DEF StartPost
    <3> QED
      BY <1>1, <2>1, <3>1, McpGoes
  <2>2. CASE mcp.result.state # "pending"
    <3>1. mcp' = Idle
      BY <2>2 DEF StartPost
    <3> QED
      BY <2>2, <3>1, IdleFacts
  <2> QED
    BY <2>1, <2>2
<1>5. BoardTypes'
  BY <1>1, <1>3, <1>4 DEF BoardInv, BoardTypes
<1>6. Coming <=> Coming'
  BY <1>1, <1>4 DEF Coming
<1>7. LeaseInv'
  BY <1>1, <1>4, <1>6 DEF BoardInv, LeaseInv, Alive, Coming
<1>8. DisplayInv'
  <2> SUFFICES ASSUME display.active, display.generation # binding.generation
               PROVE  rebind = "reset" \/ \E i \in 1 .. Len(queue') : Replaces(queue[i])'
    BY <1>1 DEF DisplayInv
  <2>1. CASE rebind = "reset"
    BY <2>1
  <2>2. CASE \E i \in 1 .. Len(queue) : Replaces(queue[i])
    <3>1. PICK i \in 1 .. Len(queue) : Replaces(queue[i])
      BY <2>2
    <3>2. i \in 1 .. Len(queue') /\ queue'[i] = queue[i]
      BY <1>2, <1>3
    <3> QED
      BY <1>1, <3>1, <3>2 DEF Replaces
  <2>3. CASE Replaces(mcp.result)
    <3>1. Len(queue) + 1 \in 1 .. Len(queue')
      BY <1>2, <1>3
    <3> QED
      BY <1>1, <1>3, <2>3, <3>1 DEF Replaces
  <2> QED
    BY <2>1, <2>2, <2>3 DEF BoardInv, DisplayInv
<1> QED
  BY <1>5, <1>7, <1>8 DEF BoardInv

\* The lease names the new session; where it was free, nobody polls yet.
LEMMA StartAcquireStep ==
    ASSUME BoardInv, StartAcquire
    PROVE  BoardInv'
<1>1. /\ mcp.at = "acquire" /\ mcp.result \in Results /\ mcp \in McpRow
      /\ lease' = mcp.result.generation
      /\ UNCHANGED <<binding, tasks, queue, sessions, rebind, display>>
  BY DEF StartAcquire, BoardOnly, gateway, BoardInv, BoardTypes
<1>2. /\ binding.generation \in Nat /\ lease' \in Nat
      /\ lease' \in 1 .. binding.generation
      /\ binding.active => lease' = binding.generation
  BY <1>1 DEF BoardInv, BoardTypes, UseCase, LeaseInv, Coming
<1>3. CASE lease = 0
  <2>1. mcp' = [mcp EXCEPT !.at = "spawn"]
    BY <1>3 DEF StartAcquire, MustCreateTask
  <2>2. mcp' \in McpRow /\ mcp'.at = "spawn" /\ mcp'.result = mcp.result
    BY <1>1, <2>1, McpGoes
  <2>3. \A t \in Tasks : ~Alive(t)
    BY <1>3 DEF BoardInv, LeaseInv
  <2>4. BoardTypes'
    BY <1>1, <1>2, <2>2 DEF BoardInv, BoardTypes
  <2>5. LeaseInv'
    BY <1>1, <1>2, <2>2, <2>3 DEF BoardInv, LeaseInv, Alive, Coming
  <2>6. DisplayInv'
    BY <1>1, DisplayStays DEF BoardInv
  <2> QED
    BY <2>4, <2>5, <2>6 DEF BoardInv
<1>4. CASE lease # 0
  <2>1. mcp' = Idle
    BY <1>4 DEF StartAcquire, MustCreateTask
  <2>2. mcp' \in McpRow /\ mcp'.at = "idle"
    BY <2>1, IdleFacts
  <2>3. \E t \in Tasks : Alive(t)
    BY <1>1, <1>4 DEF BoardInv, LeaseInv
  <2>4. BoardTypes'
    BY <1>1, <1>2, <2>2 DEF BoardInv, BoardTypes
  <2>5. LeaseInv'
    BY <1>1, <1>2, <2>2, <2>3 DEF BoardInv, LeaseInv, Alive, Coming
  <2>6. DisplayInv'
    BY <1>1, DisplayStays DEF BoardInv
  <2> QED
    BY <2>4, <2>5, <2>6 DEF BoardInv
<1> QED
  BY <1>3, <1>4

\* The one task is created, or the lease is free again and the abort comes.
LEMMA StartSpawnStep ==
    ASSUME BoardInv, StartSpawn
    PROVE  BoardInv'
<1>1. /\ mcp.at = "spawn" /\ mcp.result \in Results /\ mcp \in McpRow
      /\ tasks \in [Tasks -> TaskRow]
      /\ UNCHANGED <<binding, queue, sessions, rebind, display>>
  BY DEF StartSpawn, BoardOnly, gateway, BoardInv, BoardTypes
<1>2. /\ binding.generation \in Nat /\ lease \in Nat
      /\ lease = mcp.result.generation /\ lease \in 1 .. binding.generation
      /\ binding.active => lease = binding.generation
      /\ \A t \in Tasks : ~Alive(t)
  BY <1>1 DEF BoardInv, BoardTypes, UseCase, LeaseInv, Coming
<1>3. ASSUME NEW t \in Tasks, tasks' = [tasks EXCEPT ![t].at = "top"],
             mcp' = Idle, lease' = lease
      PROVE  BoardInv'
  <2>1. tasks[t] = NoTask
    BY <1>2 DEF BoardInv, BoardTypes, Alive
  <2>2. /\ tasks' \in [Tasks -> TaskRow] /\ tasks'[t].at = "top"
        /\ tasks'[t].owner = tasks[t].owner
        /\ \A u \in Tasks \ {t} : tasks'[u] = tasks[u]
    BY <1>1, <1>3 DEF TaskRow
  <2>3. mcp' \in McpRow /\ mcp'.at = "idle"
    BY <1>3, IdleFacts
  <2>4. BoardTypes'
    BY <1>1, <1>3, <2>2, <2>3 DEF BoardInv, BoardTypes
  <2>5. LeaseInv'
    BY <1>1, <1>2, <1>3, <2>2, <2>3 DEF BoardInv, LeaseInv, Alive, Coming
  <2>6. DisplayInv'
    BY <1>1, DisplayStays DEF BoardInv
  <2> QED
    BY <2>4, <2>5, <2>6 DEF BoardInv
<1>4. CASE lease' = 0 /\ mcp' = [mcp EXCEPT !.at = "abort"] /\ tasks' = tasks
  <2>1. mcp' \in McpRow /\ mcp'.at = "abort" /\ mcp'.result = mcp.result
    BY <1>1, <1>4, McpGoes
  <2>2. BoardTypes'
    BY <1>1, <1>4, <2>1 DEF BoardInv, BoardTypes
  <2>3. LeaseInv'
    BY <1>1, <1>2, <1>4, <2>1 DEF BoardInv, LeaseInv, Alive, Coming
  <2>4. DisplayInv'
    BY <1>1, DisplayStays DEF BoardInv
  <2> QED
    BY <2>2, <2>3, <2>4 DEF BoardInv
<1> QED
  BY <1>2, <1>3, <1>4 DEF StartSpawn

\* A session that could not be polled is closed.
LEMMA StartAbortStep ==
    ASSUME BoardInv, StartAbort
    PROVE  BoardInv'
<1> DEFINE current == mcp.result.generation = binding.generation /\ binding.active
           state == IF current THEN "failed" ELSE binding.state
<1>1. /\ mcp.at = "abort" /\ mcp.result \in Results /\ mcp \in McpRow
      /\ binding \in UseCase /\ BoardTypes
      /\ binding' = IF current THEN Ended(binding, "failed") ELSE binding
      /\ mcp' = [mcp EXCEPT !.at = "post", !.result = Result(state, "none")]
      /\ UNCHANGED <<lease, tasks, queue, sessions, rebind, display>>
  BY DEF StartAbort, BoardOnly, gateway, BoardInv, BoardTypes
<1>2. /\ binding.generation \in Nat /\ binding.generation >= 1
      /\ binding.active => current
  BY <1>1 DEF BoardInv, LeaseInv, Coming, UseCase
<1>3. state \in States
  BY <1>1 DEF States, UseCase
<1>4. /\ binding' \in UseCase /\ ~binding'.active
      /\ binding'.generation = binding.generation
  <2>1. "failed" \in States
    BY DEF States
  <2> QED
    BY <1>1, <1>2, <2>1, EndedFacts
<1> HIDE DEF current, state
<1>5. Result(state, "none") \in Results
      /\ Result(state, "none").generation = binding.generation
  BY <1>1, <1>3, ResultFacts
<1>6. mcp' \in McpRow /\ mcp'.at = "post" /\ mcp'.result = Result(state, "none")
  BY <1>1, <1>5 DEF McpRow
<1>7. BoardTypes'
  BY <1>1, <1>4, <1>5, <1>6 DEF BoardInv, BoardTypes
<1>8. LeaseInv'
  BY <1>1, <1>2, <1>4, <1>5, <1>6 DEF BoardInv, LeaseInv, Alive, Coming
<1>9. DisplayInv'
  BY <1>1, <1>4, DisplayStays DEF BoardInv
<1> QED
  BY <1>7, <1>8, <1>9 DEF BoardInv

\* What Bind makes of the use case.
LEMMA BoundFacts ==
    ASSUME NEW b \in UseCase
    PROVE  /\ [b EXCEPT !.bound = TRUE, !.generation = @ + 1] \in UseCase
           /\ [b EXCEPT !.bound = TRUE, !.generation = @ + 1].active = b.active
           /\ [b EXCEPT !.bound = TRUE, !.generation = @ + 1].generation = b.generation + 1
<1>1. ASSUME NEW g \in Nat
      PROVE  /\ [b EXCEPT !.bound = TRUE, !.generation = g] \in UseCase
             /\ [b EXCEPT !.bound = TRUE, !.generation = g].active = b.active
             /\ [b EXCEPT !.bound = TRUE, !.generation = g].generation = g
  BY DEF UseCase
<1> DEFINE g == b.generation + 1
<1>2. g \in Nat
  BY DEF UseCase
<1>3. [b EXCEPT !.bound = TRUE, !.generation = @ + 1] =
        [b EXCEPT !.bound = TRUE, !.generation = g]
  BY DEF UseCase
<1> HIDE DEF g
<1>4. /\ [b EXCEPT !.bound = TRUE, !.generation = g] \in UseCase
      /\ [b EXCEPT !.bound = TRUE, !.generation = g].active = b.active
      /\ [b EXCEPT !.bound = TRUE, !.generation = g].generation = g
  BY <1>1, <1>2
<1> QED
  BY <1>3, <1>4 DEF g

\* Bind closes what was open, and its reset clears the display.
LEMMA RebindStep ==
    ASSUME BoardInv, Rebind
    PROVE  BoardInv'
<1>1. UNCHANGED <<sessions, mcp, lease, tasks, display>>
  BY DEF Rebind, gateway
<1>2. binding \in UseCase /\ binding.generation \in Nat
  BY DEF BoardInv, BoardTypes, UseCase
<1>3. CASE /\ binding' = [Ended(binding, "idle") EXCEPT !.bound = TRUE,
                              !.generation = @ + 1]
           /\ rebind' = "reset" /\ UNCHANGED queue
  <2>1. "idle" \in States
    BY DEF States
  <2>2. /\ Ended(binding, "idle") \in UseCase /\ ~Ended(binding, "idle").active
        /\ Ended(binding, "idle").generation = binding.generation
    BY <1>2, <2>1, EndedFacts
  <2>3. /\ binding' \in UseCase /\ ~binding'.active
        /\ binding'.generation = binding.generation + 1
    BY <1>2, <1>3, <2>2, BoundFacts
  <2>4. BoardTypes'
    BY <1>1, <1>3, <2>3 DEF BoardInv, BoardTypes
  <2>5. lease \in Nat /\ \A t \in Tasks : tasks[t].owner \in Nat
    BY DEF BoardInv, BoardTypes, TaskRow
  <2>6. LeaseInv'
    BY <1>1, <1>2, <2>3, <2>5 DEF BoardInv, LeaseInv, Alive, Coming
  <2>7. DisplayInv'
    BY <1>3 DEF DisplayInv
  <2> QED
    BY <2>4, <2>6, <2>7 DEF BoardInv
<1>4. CASE /\ queue' = Append(queue, [kind |-> "reset", generation |-> binding.generation])
           /\ UNCHANGED binding
  <2> DEFINE item == [kind |-> "reset", generation |-> binding.generation]
  <2>1. item \in Results \cup Resets /\ item.kind = "reset"
        /\ item.generation = binding.generation
    BY <1>2 DEF Resets
  <2>2. queue \in Seq(Results \cup Resets) /\ Len(queue) \in Nat
    BY SeqFacts DEF BoardInv, BoardTypes
  <2> HIDE DEF item
  <2>3. /\ queue' \in Seq(Results \cup Resets) /\ Len(queue') = Len(queue) + 1
        /\ queue'[Len(queue) + 1] = item
    BY <1>4, <2>1, <2>2, AppendFacts DEF item
  <2>4. BoardTypes'
    BY <1>1, <1>4, <2>3 DEF BoardInv, BoardTypes
  <2>5. LeaseInv'
    BY <1>1, <1>4 DEF BoardInv, LeaseInv, Alive, Coming
  <2>6. Len(queue) + 1 \in 1 .. Len(queue') /\ Replaces(queue[Len(queue)])'
    BY <1>4, <2>1, <2>2, <2>3 DEF Replaces
  <2>7. DisplayInv'
    BY <2>2, <2>3, <2>6 DEF DisplayInv
  <2> QED
    BY <2>4, <2>5, <2>7 DEF BoardInv
<1> QED
  BY <1>3, <1>4 DEF Rebind

-----------------------------------------------------------------------------
(* The polling task.                                                       *)

\* What a task may do that stays there: it opens no session, and goes to release
\* only when none is open.
MayBecome(t, row) ==
    /\ row \in TaskRow /\ row.at # "none"
    /\ row.at = "answer" => row.answer # "none"
    /\ row.at = "post" => row.result \in Results
    /\ row.owner <= binding.generation
    /\ row.at = "release" => ~binding.active

\* A task that may become row, with the use case still in its generation, keeps the
\* board's invariant.
LEMMA TaskStep ==
    ASSUME BoardInv, NEW t \in Tasks, tasks[t].at # "none", NEW row, MayBecome(t, row),
           tasks' = [tasks EXCEPT ![t] = row],
           binding' \in UseCase, binding'.generation = binding.generation,
           binding'.active => binding.active /\ binding'.session = binding.session,
           DOMAIN sessions \subseteq DOMAIN sessions',
           UNCHANGED <<mcp, lease, rebind, queue, display>>
    PROVE  BoardInv'
<1>1. tasks \in [Tasks -> TaskRow]
  BY DEF BoardInv, BoardTypes
<1>2. /\ tasks' \in [Tasks -> TaskRow] /\ tasks'[t] = row
      /\ \A u \in Tasks \ {t} : tasks'[u] = tasks[u]
  BY <1>1 DEF MayBecome
<1>3. BoardTypes'
  BY <1>2 DEF BoardInv, BoardTypes, MayBecome
<1>4. \A u \in Tasks : Alive(u)' <=> Alive(u)
  BY <1>2 DEF Alive, MayBecome
<1>5. Coming' <=> Coming
  BY DEF Coming
<1>6. /\ \A u \in Tasks :
           /\ Alive(u)' => lease' # 0
           /\ tasks'[u].owner <= binding'.generation
           /\ tasks'[u].at = "release" /\ binding'.active
                => tasks'[u].owner < binding'.generation
      /\ \A u, v \in Tasks : Alive(u)' /\ Alive(v)' => u = v
  BY <1>2, <1>4 DEF BoardInv, LeaseInv, MayBecome
<1>7. LeaseInv'
  BY <1>4, <1>5, <1>6 DEF BoardInv, LeaseInv
<1>8. DisplayInv'
  BY DisplayStays DEF BoardInv
<1> QED
  BY <1>3, <1>7, <1>8 DEF BoardInv

\* The task takes the lease's generation for its own.
LEMMA PollTopStep ==
    ASSUME BoardInv, NEW t \in Tasks, PollTop(t)
    PROVE  BoardInv'
<1> DEFINE row == [tasks[t] EXCEPT !.at = "poll", !.owner = lease]
<1>1. /\ tasks[t].at = "top" /\ tasks \in [Tasks -> TaskRow]
      /\ lease \in Nat /\ lease <= binding.generation
      /\ UNCHANGED <<binding, mcp, lease, queue, sessions, rebind, display>>
  BY DEF PollTop, Task, BoardOnly, gateway, BoardInv, BoardTypes, LeaseInv
<1>2. tasks' = [tasks EXCEPT ![t] = row]
  BY Zenon DEF PollTop
<1>3. MayBecome(t, row)
  <2>1. row \in TaskRow /\ row.at = "poll" /\ row.owner = lease
    BY <1>1 DEF TaskRow
  <2> QED
    BY <1>1, <2>1 DEF MayBecome
<1> HIDE DEF row
<1>4. binding' \in UseCase
  BY <1>1 DEF BoardInv, BoardTypes
<1> QED
  BY <1>1, <1>2, <1>3, <1>4, TaskStep

\* The end of a poll: the use case has moved on, or has closed the session.
LEMMA PollEndsStep ==
    ASSUME BoardInv, NEW t \in Tasks, tasks[t].at # "none",
           NEW b \in UseCase, NEW state \in States, PollEnds(t, b, state),
           b.generation = binding.generation,
           b.active => binding.active /\ b.session = binding.session
    PROVE  BoardInv'
<1> DEFINE at == IF state \in Waits THEN "top" ELSE "post"
           result == IF state \in Waits THEN <<>> ELSE Result(state, "none")
           row == [tasks[t] EXCEPT !.at = at, !.answer = "none", !.result = result]
<1>1. /\ binding' = b /\ BoardTypes /\ tasks \in [Tasks -> TaskRow]
      /\ UNCHANGED <<mcp, lease, queue, sessions, rebind, display>>
  BY DEF PollEnds, BoardOnly, gateway, BoardInv, BoardTypes
<1>2. /\ result \in Results \cup {<<>>} /\ at \in {"top", "post"}
      /\ at = "post" => result \in Results
  BY <1>1, ResultFacts
<1>3. tasks' = [tasks EXCEPT ![t].at = at, ![t].answer = "none", ![t].result = result]
  BY DEF PollEnds
<1> HIDE DEF at, result
<1>4. tasks' = [tasks EXCEPT ![t] = row]
  BY <1>3, Zenon
<1>5. tasks[t].owner \in Nat /\ tasks[t].owner <= binding.generation
  BY DEF BoardInv, BoardTypes, TaskRow, LeaseInv
<1>6. /\ row \in TaskRow /\ row.at = at /\ row.result = result
      /\ row.owner = tasks[t].owner
  BY <1>1, <1>2 DEF TaskRow
<1> HIDE DEF row
<1>7. MayBecome(t, row)
  BY <1>2, <1>5, <1>6 DEF MayBecome
<1> QED
  BY <1>1, <1>4, <1>7, TaskStep

\* A poll without a query leaves the session as it is.
LEMMA PollLocalStep ==
    ASSUME BoardInv, NEW t \in Tasks, PollLocal(t)
    PROVE  BoardInv'
<1>1. tasks[t].at = "poll" /\ binding \in UseCase
  BY DEF PollLocal, Task, BoardInv, BoardTypes
<1>2. CASE PollEnds(t, binding, binding.state)
  <2>1. binding.state \in States
    BY <1>1 DEF UseCase
  <2> QED
    BY <1>1, <1>2, <2>1, PollEndsStep
<1>3. CASE PollEnds(t, [binding EXCEPT !.state = "waiting"], "waiting")
  <2>1. "waiting" \in States
    BY DEF States
  <2>2. /\ [binding EXCEPT !.state = "waiting"] \in UseCase
        /\ [binding EXCEPT !.state = "waiting"].generation = binding.generation
        /\ [binding EXCEPT !.state = "waiting"].active = binding.active
        /\ [binding EXCEPT !.state = "waiting"].session = binding.session
    BY <1>1, <2>1 DEF UseCase
  <2> QED
    BY <1>1, <1>3, <2>1, <2>2, PollEndsStep
<1> QED
  BY <1>2, <1>3 DEF PollLocal

\* The answer leaves the session open, or ends it.
LEMMA PollAnswerStep ==
    ASSUME BoardInv, NEW t \in Tasks, PollAnswer(t)
    PROVE  BoardInv'
<1> DEFINE answer == tasks[t].answer
<1>1. /\ tasks[t].at = "answer" /\ binding \in UseCase
      /\ answer # "none" /\ tasks[t] \in TaskRow
  BY DEF PollAnswer, Task, BoardInv, BoardTypes
<1>2. \A state \in States :
        /\ Ended(binding, state) \in UseCase /\ ~Ended(binding, state).active
        /\ Ended(binding, state).generation = binding.generation
  BY <1>1, EndedFacts
<1>3. \A state \in States :
        /\ [binding EXCEPT !.state = state] \in UseCase
        /\ [binding EXCEPT !.state = state].generation = binding.generation
        /\ [binding EXCEPT !.state = state].active = binding.active
        /\ [binding EXCEPT !.state = state].session = binding.session
  BY <1>1 DEF UseCase
<1>4. {"timedOut", "retrying", "pending"} \subseteq States
  BY DEF States, SessionStatus
<1>5. answer # "lost" => answer \in States
  BY <1>1 DEF States, TaskRow
<1>6. CASE answer \in {"lost", "pending"} /\ binding.finalTried
  <2>1. PollEnds(t, Ended(binding, "timedOut"), "timedOut")
    BY <1>6 DEF PollAnswer
  <2> QED
    BY <1>1, <1>2, <1>4, <2>1, PollEndsStep
<1>7. CASE answer = "lost" /\ ~binding.finalTried
  <2>1. PollEnds(t, [binding EXCEPT !.state = "retrying"], "retrying")
    BY <1>7 DEF PollAnswer
  <2> QED
    BY <1>1, <1>3, <1>4, <2>1, PollEndsStep
<1>8. CASE answer = "pending" /\ ~binding.finalTried
  <2>1. PollEnds(t, [binding EXCEPT !.state = "pending"], "pending")
    BY <1>8 DEF PollAnswer
  <2> QED
    BY <1>1, <1>3, <1>4, <2>1, PollEndsStep
<1>9. CASE answer \notin {"lost", "pending"}
  <2>1. PollEnds(t, Ended(binding, answer), answer)
    BY <1>9 DEF PollAnswer
  <2> QED
    BY <1>1, <1>2, <1>5, <1>9, <2>1, PollEndsStep
<1> QED
  BY <1>6, <1>7, <1>8, <1>9

\* The query expires what is due and finds the board's own session.
LEMMA PollQueryStep ==
    ASSUME GatewayInv, BoardInv, NEW t \in Tasks, PollQuery(t)
    PROVE  GatewayInv' /\ SessionsKept /\ BoardInv'
<1>1. /\ tasks[t].at = "poll" /\ binding.active
      /\ binding \in UseCase /\ tasks \in [Tasks -> TaskRow]
      /\ UNCHANGED <<now, devices, bindings, admin, message, posts,
                     mcp, lease, rebind, queue, display>>
  BY DEF PollQuery, Task, BoardInv, BoardTypes
<1>2. sessions' = IF devices[Board] = "active" THEN Moved(Due, "expired") ELSE sessions
  BY DEF PollQuery
<1>3. GatewayInv' /\ SessionsKept
  <2>1. now' \in Nat /\ devices' \in [Devices -> {"active", "revoked"}]
    BY <1>1 DEF GatewayInv, GatewayTypes
  <2>2. CASE sessions' = Moved(Due, "expired")
    BY <1>1, <2>1, <2>2, MoveStep
  <2>3. CASE sessions' = sessions
    <3>1. GatewayInv'
      BY <1>1, <2>1, <2>3, SessionsChange DEF GatewayInv, GatewayTypes
    <3> QED
      BY <2>3, <3>1 DEF SessionsKept
  <2> QED
    BY <1>2, <2>2, <2>3
<1>4. DOMAIN sessions \subseteq DOMAIN sessions' /\ sessions' \in Seq(SessionRow)
  BY <1>3 DEF SessionsKept, GatewayInv, GatewayTypes
<1>5. sessions'[binding.session].status \in SessionStatus
  <2>1. binding.session \in DOMAIN sessions'
    BY <1>1, <1>4 DEF BoardInv, BoardTypes
  <2>2. sessions'[binding.session] \in SessionRow
    BY <1>4, <2>1, SeqFacts
  <2> QED
    BY <2>2 DEF SessionRow
<1>6. PICK answer \in SessionStatus \cup {"lost", "credentialRejected"} :
        tasks' = [tasks EXCEPT ![t].at = "answer", ![t].answer = answer]
  BY <1>5 DEF PollQuery
<1> DEFINE row == [tasks[t] EXCEPT !.at = "answer", !.answer = answer]
<1>7. tasks' = [tasks EXCEPT ![t] = row]
  BY <1>6, Zenon
<1>8. answer # "none"
  BY DEF SessionStatus
<1>9. row \in TaskRow /\ row.at = "answer" /\ row.answer = answer
      /\ row.owner = tasks[t].owner
  BY <1>1 DEF TaskRow
<1>10. tasks[t].owner <= binding.generation
  BY DEF BoardInv, LeaseInv
<1> HIDE DEF row
<1>11. MayBecome(t, row)
  BY <1>8, <1>9, <1>10 DEF MayBecome
<1>12. /\ binding' \in UseCase /\ binding'.generation = binding.generation
       /\ binding'.session = binding.session
  <2>1. /\ now + 1 \in Nat /\ IsFinal \in BOOLEAN
        /\ binding.nextPoll \in Nat
    BY <1>1 DEF GatewayInv, GatewayTypes, IsFinal, UseCase
  <2>2. PICK n \in Nat : binding' = [binding EXCEPT !.finalTried = IsFinal, !.nextPoll = n]
    BY <2>1 DEF PollQuery
  <2> QED
    BY <1>1, <2>1, <2>2 DEF UseCase
<1>13. BoardInv'
  BY <1>1, <1>4, <1>7, <1>11, <1>12, TaskStep
<1> QED
  BY <1>3, <1>13

\* The task's result becomes the last of the queue.
LEMMA PollPostStep ==
    ASSUME BoardInv, NEW t \in Tasks, PollPost(t)
    PROVE  BoardInv'
<1> DEFINE row == [tasks[t] EXCEPT !.at = "active", !.result = <<>>]
<1>1. /\ tasks[t].at = "post" /\ tasks[t].result \in Results
      /\ tasks \in [Tasks -> TaskRow]
      /\ queue' = Append(queue, tasks[t].result)
      /\ UNCHANGED <<binding, mcp, lease, sessions, rebind, display>>
  BY DEF PollPost, Task, BoardOnly, gateway, BoardInv, BoardTypes
<1>2. tasks' = [tasks EXCEPT ![t] = row]
  BY Zenon DEF PollPost
<1>3. row \in TaskRow /\ row.at = "active" /\ row.owner = tasks[t].owner
  BY <1>1 DEF TaskRow
<1> HIDE DEF row
<1>4. /\ tasks' \in [Tasks -> TaskRow]
      /\ \A u \in Tasks : Alive(u)' <=> Alive(u)
      /\ \A u \in Tasks : tasks'[u].owner = tasks[u].owner
      /\ \A u \in Tasks \ {t} : tasks'[u] = tasks[u]
      /\ tasks'[t].at = "active"
  BY <1>1, <1>2, <1>3 DEF Alive
<1>5. queue \in Seq(Results \cup Resets) /\ Len(queue) \in Nat
      /\ tasks[t].result \in Results \cup Resets
  BY <1>1, SeqFacts DEF BoardInv, BoardTypes
<1>6. /\ queue' \in Seq(Results \cup Resets) /\ Len(queue') = Len(queue) + 1
      /\ \A i \in 1 .. Len(queue) : queue'[i] = queue[i]
  BY <1>1, <1>5, AppendFacts
<1>7. BoardTypes'
  BY <1>1, <1>4, <1>6 DEF BoardInv, BoardTypes
<1>8. Coming' <=> Coming
  BY <1>1 DEF Coming
<1>9. LeaseInv'
  BY <1>1, <1>4, <1>8 DEF BoardInv, LeaseInv
<1>10. (\E i \in 1 .. Len(queue) : Replaces(queue[i]))
         => \E i \in 1 .. Len(queue') : Replaces(queue[i])'
  <2> SUFFICES ASSUME NEW i \in 1 .. Len(queue), Replaces(queue[i])
               PROVE  i \in 1 .. Len(queue') /\ Replaces(queue[i])'
    OBVIOUS
  <2> QED
    BY <1>1, <1>5, <1>6 DEF Replaces
<1>11. Replaces(mcp.result) => Replaces(mcp.result)'
  BY <1>1 DEF Replaces
<1>12. DisplayInv'
  BY <1>1, <1>10, <1>11 DEF BoardInv, DisplayInv
<1> QED
  BY <1>7, <1>9, <1>12 DEF BoardInv

\* A task goes on to release only when no session is open.
LEMMA PollActiveStep ==
    ASSUME BoardInv, NEW t \in Tasks, PollActive(t)
    PROVE  BoardInv'
<1> DEFINE at == IF binding.active THEN "top" ELSE "release"
           row == [tasks[t] EXCEPT !.at = at]
<1>1. /\ tasks[t].at = "active" /\ tasks \in [Tasks -> TaskRow] /\ binding \in UseCase
      /\ tasks' = [tasks EXCEPT ![t].at = at]
      /\ UNCHANGED <<binding, mcp, lease, queue, sessions, rebind, display>>
  BY DEF PollActive, Task, TaskGoes, BoardOnly, gateway, BoardInv, BoardTypes
<1>2. at \in {"top", "release"} /\ (at = "release" => ~binding.active)
  OBVIOUS
<1> HIDE DEF at
<1>3. tasks' = [tasks EXCEPT ![t] = row]
  BY <1>1, Zenon
<1>4. tasks[t].owner <= binding.generation
  BY DEF BoardInv, LeaseInv
<1>5. row \in TaskRow /\ row.at = at /\ row.owner = tasks[t].owner
  BY <1>1, <1>2 DEF TaskRow
<1> HIDE DEF row
<1>6. MayBecome(t, row)
  BY <1>2, <1>4, <1>5 DEF MayBecome
<1> QED
  BY <1>1, <1>3, <1>6, TaskStep

\* The lease is given up only by a task whose session is not open any more.
LEMMA PollReleaseStep ==
    ASSUME BoardInv, NEW t \in Tasks, PollRelease(t)
    PROVE  BoardInv'
<1>1. /\ tasks[t].at = "release" /\ tasks \in [Tasks -> TaskRow] /\ binding \in UseCase
      /\ UNCHANGED <<binding, mcp, queue, sessions, rebind, display>>
  BY DEF PollRelease, Task, BoardOnly, gateway, BoardInv, BoardTypes
<1>2. CASE lease = tasks[t].owner
  <2>1. lease' = 0 /\ tasks' = [tasks EXCEPT ![t] = NoTask]
    BY <1>2 DEF PollRelease, MayRelease
  <2>2. /\ tasks' \in [Tasks -> TaskRow] /\ tasks'[t] = NoTask
        /\ \A u \in Tasks \ {t} : tasks'[u] = tasks[u]
    BY <1>1, <2>1, IdleFacts
  <2>3. BoardTypes'
    BY <1>1, <2>1, <2>2, IdleFacts DEF BoardInv, BoardTypes
  <2>4. Alive(t) /\ \A u \in Tasks : ~Alive(u)'
    BY <1>1, <2>2, IdleFacts DEF BoardInv, LeaseInv, Alive
  <2>5. binding.generation \in Nat /\ lease \in Nat
    BY <1>1 DEF BoardInv, BoardTypes, UseCase
  <2>6. binding.active => Coming
    BY <1>1, <1>2, <2>5 DEF BoardInv, LeaseInv
  <2>7. mcp.at # "spawn"
    BY <2>4 DEF BoardInv, LeaseInv
  <2>8. Coming' <=> Coming
    BY <1>1 DEF Coming
  <2>9. \A u \in Tasks :
          /\ tasks'[u].owner <= binding'.generation
          /\ tasks'[u].at # "release"
    BY <1>1, <2>2, <2>4, <2>5, IdleFacts DEF BoardInv, LeaseInv, Alive
  <2>10. LeaseInv'
    BY <1>1, <2>1, <2>4, <2>5, <2>6, <2>7, <2>8, <2>9 DEF BoardInv, LeaseInv
  <2>11. DisplayInv'
    BY <1>1, DisplayStays DEF BoardInv
  <2> QED
    BY <2>3, <2>10, <2>11 DEF BoardInv
<1>3. CASE lease # tasks[t].owner
  <2> DEFINE row == [tasks[t] EXCEPT !.at = "top"]
  <2>1. lease' = lease /\ tasks' = [tasks EXCEPT ![t].at = "top"]
    BY <1>3 DEF PollRelease, MayRelease, TaskGoes
  <2>2. tasks' = [tasks EXCEPT ![t] = row]
    BY <2>1, Zenon
  <2>3. tasks[t].owner <= binding.generation
    BY DEF BoardInv, LeaseInv
  <2>4. row \in TaskRow /\ row.at = "top" /\ row.owner = tasks[t].owner
    BY <1>1 DEF TaskRow
  <2> HIDE DEF row
  <2>5. MayBecome(t, row)
    BY <2>3, <2>4 DEF MayBecome
  <2> QED
    BY <1>1, <2>1, <2>2, <2>5, TaskStep
<1> QED
  BY <1>2, <1>3

-----------------------------------------------------------------------------
(* The event loop.                                                         *)

\* What is processed replaces the display with the current generation, or did
\* not count among what was to replace it.
LEMMA ProcessBindingStep ==
    ASSUME BoardInv, ProcessBinding
    PROVE  BoardInv'
<1> DEFINE item == Head(queue)
<1>1. /\ queue # <<>> /\ queue' = Tail(queue)
      /\ display' = IF IsCurrentBindingResult(item) THEN Shown(item) ELSE display
      /\ UNCHANGED <<binding, mcp, lease, tasks, sessions, rebind>>
  BY DEF ProcessBinding, gateway
<1>2. queue \in Seq(Results \cup Resets) /\ Len(queue) \in Nat
  BY SeqFacts DEF BoardInv, BoardTypes
<1>3. /\ item \in Results \cup Resets /\ item = queue[1]
      /\ queue' \in Seq(Results \cup Resets) /\ Len(queue') = Len(queue) - 1
      /\ \A i \in 1 .. Len(queue) - 1 : queue'[i] = queue[i + 1]
  BY <1>1, <1>2, HeadTailProperties
<1> HIDE DEF item
<1> DEFINE Screen == [active : BOOLEAN, generation : Nat, code : Codes \cup {"none"}]
<1>4. display \in Screen
  BY DEF BoardInv, BoardTypes
<1>5. Shown(item) \in Screen
  BY <1>3, <1>4 DEF Shown, Results, Resets, States, SessionStatus
<1>6. display' \in Screen
  BY <1>1, <1>4, <1>5
<1>7. BoardTypes'
  BY <1>1, <1>3, <1>6 DEF BoardInv, BoardTypes
<1>8. LeaseInv'
  BY <1>1 DEF BoardInv, LeaseInv, Alive, Coming
<1>9. Replaces(item) => display'.generation = binding.generation
  BY <1>1, <1>3 DEF Replaces, Shown, IsCurrentBindingResult, Results, Resets, Silent, Waits
<1>10. display'.generation = binding.generation \/ display' = display
  BY <1>1, <1>3 DEF Shown, IsCurrentBindingResult, Results, Resets
<1>11. DisplayInv'
  <2> SUFFICES ASSUME display'.active, display'.generation # binding.generation
               PROVE  \/ rebind = "reset"
                      \/ \E i \in 1 .. Len(queue') : Replaces(queue[i])'
                      \/ mcp.at = "post" /\ Replaces(mcp.result)'
    BY <1>1 DEF DisplayInv
  <2>1. ~Replaces(item) /\ display' = display
    BY <1>9, <1>10
  <2>2. \/ rebind = "reset"
        \/ \E i \in 1 .. Len(queue) : Replaces(queue[i])
        \/ mcp.at = "post" /\ Replaces(mcp.result)
    BY <2>1 DEF BoardInv, DisplayInv
  <2>3. Replaces(mcp.result) => Replaces(mcp.result)'
    BY <1>1 DEF Replaces
  <2>4. ASSUME NEW i \in 1 .. Len(queue), Replaces(queue[i])
        PROVE  \E j \in 1 .. Len(queue') : Replaces(queue[j])'
    <3>1. i # 1
      BY <1>3, <2>1, <2>4
    <3>2. i - 1 \in 1 .. Len(queue') /\ queue'[i - 1] = queue[i]
      BY <1>2, <1>3, <3>1
    <3>3. Replaces(queue[i - 1])'
      BY <1>1, <2>4, <3>2 DEF Replaces
    <3> QED
      BY <3>2, <3>3
  <2> QED
    BY <2>2, <2>3, <2>4
<1> QED
  BY <1>7, <1>8, <1>11 DEF BoardInv

-----------------------------------------------------------------------------
(* All steps together.                                                     *)

\* The board's own steps leave the gateway as it is; a tick only moves the clock.
LEMMA GatewayStays ==
    ASSUME GatewayInv, UNCHANGED gateway, now' \in Nat
    PROVE  GatewayInv' /\ ConfirmsProperly
<1>1. UNCHANGED <<sessions, devices, bindings, admin, message, posts>>
  BY DEF gateway
<1>2. GatewayTypes'
  BY <1>1 DEF GatewayInv, GatewayTypes
<1>3. Newest(sessions)' /\ Exclusive(bindings)'
  BY <1>1 DEF GatewayInv, Newest, Exclusive
<1>4. ConfirmsProperly
  BY <1>1 DEF ConfirmsProperly
<1> QED
  BY <1>2, <1>3, <1>4 DEF GatewayInv

\* Nothing is issued, bound, opened or shown at first.
LEMMA InitStep ==
    ASSUME Init
    PROVE  IInv
<1>1. /\ sessions = <<>> /\ bindings = <<>> /\ admin = <<>> /\ now = 0
      /\ devices = [d \in Devices |-> "active"]
      /\ message \in [Events -> [code : Codes, identity : Identities]]
      /\ posts = [p \in Posts |-> FreePost]
  BY DEF Init
<1>2. /\ sessions \in Seq(SessionRow) /\ bindings \in Seq(BindingRow)
      /\ queue \in Seq(Results \cup Resets)
  BY <1>1 DEF Init
<1>3. FreePost \in PostRow /\ FreePost.at = "idle"
  BY DEF FreePost, PostRow
<1>4. posts \in [Posts -> PostRow] /\ \A p \in Posts : posts[p].at = "idle"
  BY <1>1, <1>3
<1>5. GatewayTypes
  BY <1>1, <1>2, <1>4 DEF GatewayTypes
<1>6. DOMAIN sessions = {} /\ DOMAIN bindings = {}
  BY <1>1
<1>7. GatewayInv
  BY <1>5, <1>6 DEF GatewayInv, Newest, Exclusive
<1>8. /\ binding = [generation |-> 0, state |-> "unavailable", active |-> FALSE,
                    bound |-> FALSE, session |-> 0, deadline |-> 0, nextPoll |-> 0,
                    finalTried |-> FALSE]
      /\ mcp = Idle /\ lease = 0 /\ tasks = [t \in Tasks |-> NoTask] /\ queue = <<>>
      /\ display = [active |-> FALSE, generation |-> 0, code |-> "none"]
  BY DEF Init
<1>9. binding \in UseCase /\ ~binding.active /\ binding.generation = 0
  BY <1>8 DEF UseCase, States
<1>10. /\ tasks \in [Tasks -> TaskRow]
       /\ \A t \in Tasks : tasks[t] = NoTask /\ tasks[t].at = "none" /\ tasks[t].owner = 0
  BY <1>8, IdleFacts
<1>11. /\ display \in [active : BOOLEAN, generation : Nat, code : Codes \cup {"none"}]
       /\ ~display.active
  BY <1>8
<1>12. mcp \in McpRow /\ mcp.at = "idle"
  BY <1>8, IdleFacts
<1>13. BoardTypes
  BY <1>2, <1>8, <1>9, <1>10, <1>11, <1>12 DEF BoardTypes
<1>14. LeaseInv
  BY <1>8, <1>9, <1>10, <1>12 DEF LeaseInv, Alive, Coming
<1>15. DisplayInv
  BY <1>11 DEF DisplayInv
<1> QED
  BY <1>7, <1>13, <1>14, <1>15 DEF IInv

\* Every step keeps the invariant and confirms properly.
LEMMA NextStep ==
    ASSUME IInv, [Next]_vars
    PROVE  IInv' /\ ConfirmsProperly
<1>1. GatewayInv /\ BoardInv /\ now \in Nat
  BY DEF IInv, BoardInv, GatewayInv, GatewayTypes
<1> SUFFICES GatewayInv' /\ BoardInv' /\ ConfirmsProperly
  BY DEF IInv, BoardInv
<1>2. UNCHANGED board /\ ConfirmsProperly => BoardInv'
  BY <1>1, BoardStays DEF ConfirmsProperly
<1>3. UNCHANGED <<now, gateway>> => GatewayInv' /\ ConfirmsProperly
  BY <1>1, GatewayStays
<1>4. SessionsKept => ConfirmsProperly
  BY DEF SessionsKept, ConfirmsProperly
<1>5. CASE Gateway
  <2>1. UNCHANGED board
    BY <1>5 DEF Gateway, OtherCreate, ExpireDue, RevokeDevice, ChangeStatusRead,
                ChangeStatusSave, Deliver, PostEvent, RecordRead, Mark, ConfirmRead,
                Confirm, Crash, AtGateway
  <2> QED
    BY <1>1, <1>2, <1>5, <2>1, GatewayStep
<1>6. CASE StartLocal \/ StartRequest \/ StartAnswer \/ StartPost \/ StartAcquire
             \/ StartSpawn \/ StartAbort
  <2>1. UNCHANGED <<now, gateway>>
    BY <1>6 DEF StartLocal, StartRequest, StartAnswer, StartPost, StartAcquire,
                StartSpawn, StartAbort, BoardOnly
  <2>2. BoardInv'
    BY <1>1, <1>6, StartLocalStep, StartRequestStep, StartAnswerStep, StartPostStep,
       StartAcquireStep, StartSpawnStep, StartAbortStep
  <2> QED
    BY <1>3, <2>1, <2>2
<1>7. CASE StartCreate
  BY <1>1, <1>4, <1>7, StartCreateStep
<1>8. CASE Rebind \/ ProcessBinding
  <2>1. UNCHANGED <<now, gateway>>
    BY <1>8 DEF Rebind, ProcessBinding
  <2> QED
    BY <1>1, <1>3, <1>8, <2>1, RebindStep, ProcessBindingStep
<1>9. CASE Tick
  <2>1. UNCHANGED gateway /\ UNCHANGED board /\ now' \in Nat
    BY <1>1, <1>9 DEF Tick
  <2> QED
    BY <1>1, <1>2, <2>1, GatewayStays
<1>10. ASSUME NEW t \in Tasks, Poll(t)
       PROVE  GatewayInv' /\ BoardInv' /\ ConfirmsProperly
  <2>1. CASE PollQuery(t)
    BY <1>1, <1>4, <2>1, PollQueryStep
  <2>2. CASE ~PollQuery(t)
    <3>1. UNCHANGED <<now, gateway>>
      BY <1>10, <2>2 DEF Poll, PollTop, PollLocal, PollAnswer, PollPost, PollActive,
                         PollRelease, PollEnds, BoardOnly
    <3>2. BoardInv'
      BY <1>1, <1>10, <2>2, PollTopStep, PollLocalStep, PollAnswerStep, PollPostStep,
         PollActiveStep, PollReleaseStep DEF Poll
    <3> QED
      BY <1>3, <3>1, <3>2
  <2> QED
    BY <2>1, <2>2
<1>11. CASE UNCHANGED vars
  <2>1. UNCHANGED <<now, gateway>> /\ UNCHANGED board
    BY <1>11 DEF vars, gateway, board
  <2> QED
    BY <1>2, <1>3, <2>1
<1> QED
  BY <1>5, <1>6, <1>7, <1>8, <1>9, <1>10, <1>11 DEF Next, Mcp, StartWork

\* The inductive invariant holds in every reachable state of the board and the
\* gateway, whatever the order of their steps.
THEOREM Inductive == Spec => []IInv
<1>1. Init => IInv
  BY InitStep
<1>2. IInv /\ [Next]_vars => IInv'
  BY NextStep
<1> QED
  BY <1>1, <1>2, PTL DEF Spec

\* An open session is polled by exactly one task, and by none only while
\* im.binding.start is on its way to create it (BindingPollingLease,
\* StartBindingPolling, BindingPollLoop).
THEOREM OnePoller == Spec => []PolledByOne
<1>1. IInv => PolledByOne
  <2> SUFFICES ASSUME IInv PROVE PolledByOne
    OBVIOUS
  <2> DEFINE alive == {t \in Tasks : tasks[t] # NoTask}
  <2>1. \A t \in Tasks : tasks[t] # NoTask <=> Alive(t)
    BY IdleFacts DEF IInv, BoardTypes, Alive
  <2>2. Cardinality(alive) <= 1
    <3>1. CASE alive = {}
      BY <3>1, FS_EmptySet
    <3>2. CASE alive # {}
      <4>1. PICK t \in Tasks : alive = {t}
        BY <2>1, <3>2 DEF IInv, LeaseInv
      <4>2. Cardinality({t}) = 1
        BY FS_Singleton
      <4> HIDE DEF alive
      <4> QED
        BY <4>1, <4>2
    <3> QED
      BY <3>1, <3>2
  <2>3. binding.active => alive # {} \/ mcp.at \in {"post", "acquire", "spawn", "abort"}
    BY <2>1 DEF IInv, LeaseInv, Coming
  <2> QED
    BY <2>2, <2>3 DEF PolledByOne
<1> QED
  BY <1>1, Inductive, PTL

\* A code of an older generation does not stay on the display: what replaces it is
\* always on its way (ProcessBindingResult, EnqueueBindingReset).
THEOREM OldCodeGoes == Spec => []OldCodeIsTakenDown
<1>1. IInv => OldCodeIsTakenDown
  <2> SUFFICES ASSUME IInv PROVE OldCodeIsTakenDown
    OBVIOUS
  <2>1. DOMAIN queue = 1 .. Len(queue)
    BY SeqFacts DEF IInv, BoardTypes
  <2> QED
    BY <2>1 DEF IInv, DisplayInv, OldCodeIsTakenDown, Replaces
<1> QED
  BY <1>1, Inductive, PTL

\* What the gateway confirms is still pending, in its window, of a device that is not
\* revoked and has no newer code; the binding made with it is the only active one of
\* the device and of the identity (DefaultPairingApplication.confirm).
THEOREM ConfirmsWhatIsCurrent == Spec => ConfirmedIsCurrent
<1>1. IInv /\ [Next]_vars =>
        [\A s \in DOMAIN sessions :
          sessions'[s].status = "confirmed" /\ sessions[s].status # "confirmed" =>
              /\ sessions[s].status = "pending" /\ now < sessions[s].expires
              /\ devices[sessions[s].device] = "active"
              /\ \A r \in DOMAIN sessions :
                     r > s => sessions[r].device # sessions[s].device
              /\ \E b \in DOMAIN bindings' :
                     /\ bindings'[b].status = "active"
                     /\ bindings'[b].device = sessions[s].device
                     /\ \A c \in DOMAIN bindings' \ {b} :
                            /\ bindings'[c].status = "active"
                            => /\ bindings'[c].device # bindings'[b].device
                               /\ bindings'[c].identity # bindings'[b].identity
        ]_vars
  BY NextStep DEF ConfirmsProperly, ConfirmedProperly
<1> QED
  BY <1>1, Inductive, PTL DEF Spec, ConfirmedIsCurrent
=============================================================================
