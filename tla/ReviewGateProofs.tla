--------------------------- MODULE ReviewGateProofs ---------------------------
(***************************************************************************)
(* Theorems about ReviewGate, for any principals, moderators, subjects and *)
(* requests.                                                               *)
(*                                                                         *)
(* The argument.  A gated handler that has read the participants waits for *)
(* everyone who was pending then: a reviewer who is pending now is on its  *)
(* list or has become pending since (ListSound).  When it finds everyone   *)
(* on the list heard, only the second kind is left.  A waiver is the same  *)
(* with one read: who has answered now has answered since the check.       *)
(***************************************************************************)
EXTENDS ReviewGate, SequenceTheorems, TLAPS

-----------------------------------------------------------------------------
(* The inductive invariant. *)

Gated == {"resolve", "decision"}

Message == [author: Principals, kind: Kinds, live: BOOLEAN]

\* What a handler can hold.
Handlers ==
  {Idle}
  \cup [op: Gated, at: {"begun"}, who: Principals]
  \cup [op: Gated, at: {"listed", "passed"}, who: Principals, waiting: SUBSET Principals]
  \cup [op: {"add"}, target: Subjects, role: Roles]
  \cup [op: {"waive"}, at: {"begun", "passed"}, who: Principals, target: Subjects]

HistoryTyped == late \in [Requests -> SUBSET Principals]

\* Who is pending is waited for or late.
ListSound ==
  \A r \in Requests : Running(req[r]) =>
    /\ req[r].at = "listed" => Pending(row, msgs) \subseteq req[r].waiting \cup late[r]
    /\ req[r].at = "passed" => Pending(row, msgs) \subseteq late[r]

GateInv ==
  /\ TypeOK
  /\ req \in [Requests -> Handlers] /\ HistoryTyped
  /\ ListSound /\ WaiverHonest

-----------------------------------------------------------------------------
(* Rows, messages and handlers. *)

LEMMA ReviewSets ==
  /\ Creator \in Principals /\ Moderators \subseteq Principals
  /\ Subjects \subseteq Principals /\ MaxMsgs \in Nat /\ MaxOutcomes \in Nat
  BY ReviewAssumption DEF ReviewAssumption

\* What the fields of a handler's record are.
LEMMA HandlerFields ==
  ASSUME NEW q \in Handlers
  PROVE  /\ q.op \in {"idle", "resolve", "decision", "add", "waive"}
         /\ q.op \in Gated /\ q.at # "begun" => q.waiting \subseteq Principals
         /\ q.op \in Gated => q.who \in Principals /\ q.at \in {"begun", "listed", "passed"}
         /\ q.op = "add" => q.target \in Subjects /\ q.role \in Roles
         /\ q.op = "waive" => q.target \in Subjects /\ q.who \in Principals
  BY DEF Handlers, Idle, Gated

\* The role and the waiver of a row survive watching, mentions and posts.
LEMMA AutowatchKeeps ==
  ASSUME NEW old \in ParticipantRow
  PROVE  /\ Autowatch(old) \in ParticipantRow
         /\ Autowatch(old).state = "in"
         /\ old.state # "absent" => /\ Autowatch(old).role = old.role
                                    /\ Autowatch(old).waived = old.waived
<1>1. CASE old.state = "absent"
  BY <1>1 DEF Autowatch, ParticipantRow, Roles
<1>2. CASE old.state = "left"
  BY <1>2 DEF Autowatch, ParticipantRow, Roles
<1>3. CASE old.state = "in"
  BY <1>3 DEF Autowatch, ParticipantRow, Roles
<1>4. QED
  BY <1>1, <1>2, <1>3 DEF ParticipantRow

LEMMA ObjectionsType ==
  ASSUME NEW ms \in Seq(Message), NEW rows, NEW q
  PROVE  Objections(q, rows, ms) \subseteq Principals
<1>1. ASSUME NEW i \in 1 .. Len(ms) PROVE ms[i].author \in Principals
  <2>1. ms[i] \in Message
    BY ElementOfSeq
  <2>2. QED
    BY <2>1 DEF Message
<1>2. Repliers(ms) \subseteq Principals
  BY <1>1 DEF Repliers
<1>3. QED
  BY <1>2 DEF Objections, Pending, Required

-----------------------------------------------------------------------------
(* How the rows change. *)

\* A row keeps its role and its waiver, if it exists.
RowKept(a) ==
  row[a].state # "absent" =>
    /\ row'[a].state # "absent" /\ row'[a].role = row[a].role
    /\ row[a].waived => row'[a].waived

LEMMA PostsEffect ==
  ASSUME TypeOK, NEW p \in Principals, NEW kind \in Kinds, NEW mentions,
         Posts(p, kind, mentions)
  PROVE  /\ row' \in [Principals -> ParticipantRow]
         /\ msgs' \in Seq(Message)
         /\ Len(msgs') <= MaxMsgs
         /\ \A a \in Principals : RowKept(a)
<1> DEFINE m == [author |-> p, kind |-> kind, live |-> TRUE]
<1>1. row \in [Principals -> ParticipantRow]
      /\ msgs \in Seq(Message)
  BY DEF TypeOK, Message
<1>2. row' = [a \in Principals |->
                IF a \in mentions \cup {p} THEN Autowatch(row[a]) ELSE row[a]]
  BY DEF Posts
<1>3. row' \in [Principals -> ParticipantRow]
  BY <1>1, <1>2, AutowatchKeeps
<1>4. m \in Message
  BY DEF Message
<1>5. msgs' = Append(msgs, m) /\ Len(msgs) < MaxMsgs
  BY DEF Posts
<1> HIDE DEF m
<1>6. msgs' \in Seq(Message)
      /\ Len(msgs') = Len(msgs) + 1 /\ Len(msgs) \in Nat
  BY <1>1, <1>4, <1>5
<1>7. \A a \in Principals : RowKept(a)
  <2> SUFFICES ASSUME NEW a \in Principals, row[a].state # "absent"
               PROVE  /\ row'[a].state # "absent" /\ row'[a].role = row[a].role
                      /\ row[a].waived => row'[a].waived
    BY DEF RowKept
  <2>1. row[a] \in ParticipantRow
    BY <1>1
  <2>2. row'[a] = Autowatch(row[a]) \/ row'[a] = row[a]
    BY <1>2
  <2>3. QED
    BY <2>1, <2>2, AutowatchKeeps
<1>8. QED
  BY <1>3, <1>5, <1>6, <1>7, ReviewSets

\* Every step keeps the types; only managing a role changes a role, and nothing
\* takes a waiver back.
StepTyped ==
  /\ status' \in {"open", "resolved"}
  /\ row' \in [Principals -> ParticipantRow]
  /\ msgs' \in Seq(Message)
  /\ Len(msgs') <= MaxMsgs
  /\ outcomes' \in 0 .. MaxOutcomes
  /\ req' \in [Requests -> Handlers]

\* What changes the rows and the messages: a post, a deleted message, or a new row.
WorldSame == UNCHANGED <<status, row, msgs, outcomes>>

\* Steps of a handler that only read.
LEMMA ReadsTyped ==
  ASSUME TypeOK, req \in [Requests -> Handlers], WorldSame, NEW r \in Requests,
         NEW q \in Handlers, req' = [req EXCEPT ![r] = q]
  PROVE  StepTyped
  BY DEF TypeOK, StepTyped, WorldSame, Message

LEMMA IdleHandler == Idle \in Handlers
  BY DEF Handlers

LEMMA HandlersStep ==
  ASSUME GateInv, NEW r \in Requests,
         \/ \E p \in Principals :
              \/ \E op \in {"resolve", "decision"} : GateBegin(r, p, op)
              \/ \E a \in Subjects, role \in Roles : AddBegin(r, p, a, role)
              \/ \E a \in Subjects : WaiveBegin(r, p, a)
         \/ GateParticipants(r) \/ GateMessages(r) \/ WaiveCheck(r) \/ Fail(r)
  PROVE  StepTyped /\ WorldSame
<1> DEFINE q == req[r]
<1>1. TypeOK /\ req \in [Requests -> Handlers] /\ q \in Handlers
  BY DEF GateInv
<1>2. row \in [Principals -> ParticipantRow] /\ msgs \in Seq(Message)
  BY <1>1 DEF TypeOK, Message
<1>3. ASSUME NEW p \in Principals, NEW op \in {"resolve", "decision"}, GateBegin(r, p, op)
      PROVE  StepTyped /\ WorldSame
  <2> DEFINE n == [op |-> op, at |-> "begun", who |-> p]
  <2>1. n \in Handlers
    BY DEF Handlers, Gated
  <2>2. req' = [req EXCEPT ![r] = n] /\ WorldSame
    BY <1>3 DEF GateBegin, Remember, WorldSame
  <2>3. QED
    BY <1>1, <2>1, <2>2, ReadsTyped
<1>4. ASSUME NEW p \in Principals, NEW a \in Subjects, NEW role \in Roles,
             AddBegin(r, p, a, role)
      PROVE  StepTyped /\ WorldSame
  <2> DEFINE n == [op |-> "add", target |-> a, role |-> role]
  <2>1. n \in Handlers
    BY DEF Handlers
  <2>2. req' = [req EXCEPT ![r] = n] /\ WorldSame
    BY <1>4 DEF AddBegin, Remember, WorldSame
  <2>3. QED
    BY <1>1, <2>1, <2>2, ReadsTyped
<1>5. ASSUME NEW p \in Principals, NEW a \in Subjects, WaiveBegin(r, p, a)
      PROVE  StepTyped /\ WorldSame
  <2> DEFINE n == [op |-> "waive", at |-> "begun", who |-> p, target |-> a]
  <2>1. n \in Handlers
    BY DEF Handlers
  <2>2. req' = [req EXCEPT ![r] = n] /\ WorldSame
    BY <1>5 DEF WaiveBegin, Remember, WorldSame
  <2>3. QED
    BY <1>1, <2>1, <2>2, ReadsTyped
<1>6. CASE GateParticipants(r)
  <2> DEFINE n == [op |-> q.op, who |-> q.who,
                   at |-> IF Required(row) = {} THEN "passed" ELSE "listed",
                   waiting |-> Required(row) \ Waived(row)]
  <2>1. q.op \in Gated /\ q.who \in Principals
    BY <1>1, <1>6, HandlerFields DEF GateParticipants, Gated
  <2>2. Required(row) \ Waived(row) \in SUBSET Principals
    BY DEF Required
  <2>3. n \in Handlers
    BY <2>1, <2>2 DEF Handlers
  <2>4. req' = [req EXCEPT ![r] = n] /\ WorldSame
    BY <1>6 DEF GateParticipants, Advance, WorldSame
  <2>5. QED
    BY <1>1, <2>3, <2>4, ReadsTyped
<1>7. CASE GateMessages(r)
  <2> DEFINE n == [q EXCEPT !.at = "passed"]
  <2>1. n \in Handlers
    <3>1. q \in [op: Gated, at: {"listed", "passed"}, who: Principals,
                waiting: SUBSET Principals]
      BY <1>1, <1>7 DEF Handlers, Idle, Gated, GateMessages
    <3>2. n \in [op: Gated, at: {"listed", "passed"}, who: Principals,
                waiting: SUBSET Principals]
      BY <3>1
    <3>3. QED
      BY <3>2 DEF Handlers
  <2>2. WorldSame /\ (req' = [req EXCEPT ![r] = n] \/ req' = [req EXCEPT ![r] = Idle])
    BY <1>7 DEF GateMessages, Advance, Finish, WorldSame
  <2> HIDE DEF n
  <2>3. QED
    BY <1>1, <2>1, <2>2, ReadsTyped, IdleHandler
<1>8. CASE WaiveCheck(r)
  <2> DEFINE n == [q EXCEPT !.at = "passed"]
  <2>1. n \in Handlers
    <3>1. q \in [op: {"waive"}, at: {"begun", "passed"}, who: Principals, target: Subjects]
      BY <1>1, <1>8 DEF Handlers, Idle, Gated, WaiveCheck
    <3>2. n \in [op: {"waive"}, at: {"begun", "passed"}, who: Principals, target: Subjects]
      BY <3>1
    <3>3. QED
      BY <3>2 DEF Handlers
  <2>2. WorldSame /\ (req' = [req EXCEPT ![r] = n] \/ req' = [req EXCEPT ![r] = Idle])
    BY <1>8 DEF WaiveCheck, Advance, Finish, WorldSame
  <2> HIDE DEF n
  <2>3. QED
    BY <1>1, <2>1, <2>2, ReadsTyped, IdleHandler
<1>9. CASE Fail(r)
  BY <1>1, <1>9, ReadsTyped, IdleHandler DEF Fail, Finish, WorldSame
<1>10. QED
  BY <1>3, <1>4, <1>5, <1>6, <1>7, <1>8, <1>9

\* Steps that write: they end their handler, if they have one.
LEMMA WritesStep ==
  ASSUME GateInv,
         \/ \E r \in Requests : GateCommit(r) \/ AddCommit(r) \/ WaiveCommit(r)
         \/ \E p \in Principals, a \in Subjects : Leave(p, a)
         \/ \E p \in Subjects : Watch(p)
         \/ \E p \in Principals, kind \in Kinds, mentions \in SUBSET Subjects :
              Post(p, kind, mentions)
         \/ \E p \in Principals, i \in 1 .. MaxMsgs : DeleteMessage(p, i)
  PROVE  /\ StepTyped
         /\ \A a \in Principals : RowKept(a)
         /\ \A r \in Requests : req'[r] = req[r] \/ req'[r] = Idle
<1> DEFINE goal == /\ StepTyped
                   /\ \A a \in Principals : RowKept(a)
                   /\ \A r \in Requests : req'[r] = req[r] \/ req'[r] = Idle
<1>1. TypeOK /\ req \in [Requests -> Handlers]
      /\ row \in [Principals -> ParticipantRow] /\ msgs \in Seq(Message)
      /\ Len(msgs) <= MaxMsgs
      /\ status \in {"open", "resolved"} /\ outcomes \in 0 .. MaxOutcomes
  BY DEF GateInv, TypeOK, Message
<1>2. ASSUME NEW r \in Requests, Finish(r)
      PROVE  /\ req' \in [Requests -> Handlers]
             /\ \A s \in Requests : req'[s] = req[s] \/ req'[s] = Idle
  BY <1>1, <1>2, IdleHandler DEF Finish
<1>3. row' = row => \A a \in Principals : RowKept(a)
  BY DEF RowKept
<1>4. ASSUME NEW r \in Requests, GateCommit(r) PROVE goal
  <2>1. req[r] \in Handlers /\ req[r].op \in Gated
    BY <1>1, <1>4 DEF GateCommit, Gated
  <2>2. req[r].who \in Principals /\ Finish(r)
    BY <1>4, <2>1, HandlerFields DEF GateCommit
  <2>3. CASE Posts(req[r].who, "decision", {}) /\ UNCHANGED <<status, outcomes>>
    <3>1. "decision" \in Kinds
      BY DEF Kinds
    <3>2. QED
      BY <1>1, <1>2, <2>2, <2>3, <3>1, PostsEffect DEF StepTyped
  <2>4. CASE outcomes < MaxOutcomes /\ outcomes' = outcomes + 1 /\ status' = "resolved"
             /\ UNCHANGED <<row, msgs>>
    <3>1. outcomes' \in 0 .. MaxOutcomes
      BY <1>1, <2>4, ReviewSets
    <3>2. QED
      BY <1>1, <1>2, <1>3, <2>2, <2>4, <3>1 DEF StepTyped
  <2>5. QED
    BY <1>4, <2>3, <2>4 DEF GateCommit
<1>5. ASSUME NEW r \in Requests, AddCommit(r) PROVE goal
  <2> DEFINE q == req[r]
             n == [state |-> "in", role |-> q.role, waived |-> FALSE]
  <2>1. q.op = "add" /\ Finish(r) /\ UNCHANGED <<status, msgs, outcomes>>
        /\ row' = IF row[q.target].state # "absent" THEN row
                  ELSE [row EXCEPT ![q.target] = n]
    BY <1>5 DEF AddCommit
  <2>2. q.target \in Principals /\ n \in ParticipantRow
    BY <1>1, <2>1, HandlerFields, ReviewSets DEF ParticipantRow
  <2> HIDE DEF q, n
  <2>3. row' \in [Principals -> ParticipantRow] /\ \A a \in Principals : RowKept(a)
    BY <1>1, <2>1, <2>2 DEF RowKept
  <2>4. QED
    BY <1>1, <1>2, <2>1, <2>3 DEF StepTyped
<1>6. ASSUME NEW r \in Requests, WaiveCommit(r) PROVE goal
  <2> DEFINE q == req[r]
  <2>1. q.op = "waive" /\ Finish(r) /\ UNCHANGED <<status, msgs, outcomes>>
        /\ row' = [row EXCEPT ![q.target].waived = TRUE]
    BY <1>6 DEF WaiveCommit
  <2>2. q.target \in Principals
    BY <1>1, <2>1, HandlerFields, ReviewSets
  <2> HIDE DEF q
  <2>3. row' \in [Principals -> ParticipantRow] /\ \A a \in Principals : RowKept(a)
    BY <1>1, <2>1, <2>2 DEF RowKept, ParticipantRow
  <2>4. QED
    BY <1>1, <1>2, <2>1, <2>3 DEF StepTyped
<1>7. ASSUME NEW p \in Principals, NEW a \in Subjects, Leave(p, a) PROVE goal
  <2>1. a \in Principals /\ row[a].state # "absent"
        /\ row' = [row EXCEPT ![a].state = "left"]
        /\ UNCHANGED <<status, msgs, outcomes, req>>
    BY <1>7, ReviewSets DEF Leave
  <2>2. row' \in [Principals -> ParticipantRow] /\ \A b \in Principals : RowKept(b)
    BY <1>1, <2>1 DEF RowKept, ParticipantRow
  <2>3. QED
    BY <1>1, <2>1, <2>2 DEF StepTyped
<1>8. ASSUME NEW p \in Subjects, Watch(p) PROVE goal
  <2> DEFINE n == Autowatch(row[p])
  <2>1. p \in Principals /\ row' = [row EXCEPT ![p] = n]
        /\ UNCHANGED <<status, msgs, outcomes, req>>
    BY <1>8, ReviewSets DEF Watch
  <2>2. row[p] \in ParticipantRow
    BY <1>1, <2>1
  <2>3. /\ n \in ParticipantRow /\ n.state = "in"
        /\ row[p].state # "absent" => n.role = row[p].role /\ n.waived = row[p].waived
    BY <2>2, AutowatchKeeps
  <2> HIDE DEF n
  <2>4. row' \in [Principals -> ParticipantRow] /\ \A b \in Principals : RowKept(b)
    BY <1>1, <2>1, <2>3 DEF RowKept
  <2>5. QED
    BY <1>1, <2>1, <2>4 DEF StepTyped
<1>9. ASSUME NEW p \in Principals, NEW kind \in Kinds, NEW mentions \in SUBSET Subjects,
             Post(p, kind, mentions)
      PROVE  goal
  BY <1>1, <1>9, PostsEffect DEF Post, StepTyped
<1>10. ASSUME NEW p \in Principals, NEW i \in 1 .. MaxMsgs, DeleteMessage(p, i)
       PROVE  goal
  <2>1. i \in 1 .. Len(msgs) /\ msgs' = [msgs EXCEPT ![i].live = FALSE]
        /\ UNCHANGED <<status, row, outcomes, req>>
    BY <1>10 DEF DeleteMessage
  <2> DEFINE m == [msgs[i] EXCEPT !.live = FALSE]
  <2>2. msgs[i] \in Message
    BY <1>1, <2>1, ElementOfSeq
  <2>3. m \in Message
    BY <2>2 DEF Message
  <2>4. msgs' \in Seq(Message) /\ Len(msgs') = Len(msgs)
    BY <1>1, <2>1, <2>3, ExceptSeq
  <2>5. QED
    BY <1>1, <1>3, <2>1, <2>4 DEF StepTyped
<1>11. QED
  BY <1>4, <1>5, <1>6, <1>7, <1>8, <1>9, <1>10

LEMMA PatchStep ==
  ASSUME GateInv, NEW p \in Principals, NEW a \in Subjects, NEW role \in Roles,
         PatchRole(p, a, role)
  PROVE  /\ StepTyped
         /\ \A b \in Principals \ {a} : RowKept(b)
         /\ row[a].state # "absent" /\ row'[a].state = row[a].state
         /\ row'[a].waived = row[a].waived
         /\ req' = req
<1>1. a \in Principals /\ row \in [Principals -> ParticipantRow]
      /\ row[a].state # "absent" /\ row' = [row EXCEPT ![a].role = role]
      /\ UNCHANGED <<status, msgs, outcomes, req>>
  BY ReviewSets DEF PatchRole, GateInv, TypeOK
<1>2. row' \in [Principals -> ParticipantRow] /\ \A b \in Principals \ {a} : RowKept(b)
  BY <1>1 DEF ParticipantRow, RowKept
<1>3. row'[a].state = row[a].state /\ row'[a].waived = row[a].waived
  BY <1>1 DEF ParticipantRow
<1>4. StepTyped
  BY <1>1, <1>2 DEF GateInv, TypeOK, StepTyped, Message
<1>5. QED
  BY <1>1, <1>2, <1>3, <1>4

-----------------------------------------------------------------------------
(* The gate. *)

LEMMA StepKeepsTypes == ASSUME GateInv, Step PROVE StepTyped
<1>1. CASE \E p \in Principals, a \in Subjects, role \in Roles : PatchRole(p, a, role)
  BY <1>1, PatchStep
<1>2. QED
  BY <1>1, HandlersStep, WritesStep DEF Step

\* How a gated handler gets from one place to the next.
LEMMA HandlerMoves ==
  ASSUME GateInv, Step, NEW r \in Requests, Running(req'[r])
  PROVE  \/ ~Running(req[r]) /\ req'[r].at = "begun"
         \/ Running(req[r]) /\ req'[r] = req[r]
         \/ Running(req[r]) /\ GateParticipants(r)
         \/ Running(req[r]) /\ GateMessages(r) /\ req'[r] = [req[r] EXCEPT !.at = "passed"]
<1> DEFINE goal == \/ ~Running(req[r]) /\ req'[r].at = "begun"
                   \/ Running(req[r]) /\ req'[r] = req[r]
                   \/ Running(req[r]) /\ GateParticipants(r)
                   \/ /\ Running(req[r]) /\ GateMessages(r)
                      /\ req'[r] = [req[r] EXCEPT !.at = "passed"]
<1>1. req \in [Requests -> Handlers] /\ ~Running(Idle)
  BY DEF GateInv, Running, Idle
<1>2. CASE req'[r] = req[r] \/ req'[r] = Idle
  BY <1>1, <1>2
<1>3. ASSUME NEW s \in Requests, NEW q, req' = [req EXCEPT ![s] = q], r # s PROVE goal
  BY <1>1, <1>2, <1>3
<1>4. ASSUME NEW s \in Requests, NEW p \in Principals, NEW op \in {"resolve", "decision"},
             GateBegin(s, p, op)
      PROVE  goal
  <2> DEFINE n == [op |-> op, at |-> "begun", who |-> p]
  <2>1. req' = [req EXCEPT ![s] = n] /\ req[s] = Idle /\ n.at = "begun"
    BY <1>4 DEF GateBegin, Remember
  <2> HIDE DEF n
  <2>2. QED
    BY <1>1, <1>3, <2>1
<1>5. ASSUME NEW s \in Requests, NEW p \in Principals, NEW a \in Subjects, NEW role \in Roles,
             AddBegin(s, p, a, role)
      PROVE  goal
  <2> DEFINE n == [op |-> "add", target |-> a, role |-> role]
  <2>1. req' = [req EXCEPT ![s] = n] /\ ~Running(n)
    BY <1>5 DEF AddBegin, Remember, Running
  <2> HIDE DEF n
  <2>2. QED
    BY <1>1, <1>3, <2>1
<1>6. ASSUME NEW s \in Requests, NEW p \in Principals, NEW a \in Subjects, WaiveBegin(s, p, a)
      PROVE  goal
  <2> DEFINE n == [op |-> "waive", at |-> "begun", who |-> p, target |-> a]
  <2>1. req' = [req EXCEPT ![s] = n] /\ ~Running(n)
    BY <1>6 DEF WaiveBegin, Remember, Running
  <2> HIDE DEF n
  <2>2. QED
    BY <1>1, <1>3, <2>1
<1>7. ASSUME NEW s \in Requests, GateParticipants(s) PROVE goal
  BY <1>1, <1>3, <1>7 DEF GateParticipants, Advance, Running
<1>8. ASSUME NEW s \in Requests, GateMessages(s) PROVE goal
  <2> DEFINE n == [req[s] EXCEPT !.at = "passed"]
  <2>1. req' = [req EXCEPT ![s] = n] \/ req' = [req EXCEPT ![s] = Idle]
    BY <1>8 DEF GateMessages, Advance, Finish
  <2>2. Running(req[s])
    BY <1>8 DEF GateMessages, Running
  <2> HIDE DEF n
  <2>3. CASE r = s /\ req' = [req EXCEPT ![s] = n]
    BY <1>1, <1>8, <2>2, <2>3 DEF n
  <2>4. QED
    BY <1>1, <1>2, <1>3, <2>1, <2>3
<1>9. ASSUME NEW s \in Requests, WaiveCheck(s) PROVE goal
  <2> DEFINE n == [req[s] EXCEPT !.at = "passed"]
  <2>1. req' = [req EXCEPT ![s] = n] \/ req' = [req EXCEPT ![s] = Idle]
    BY <1>9 DEF WaiveCheck, Advance, Finish
  <2>2. ~Running(n)
    BY <1>9 DEF WaiveCheck, Running
  <2> HIDE DEF n
  <2>3. QED
    BY <1>1, <1>2, <1>3, <2>1, <2>2
<1>10. ASSUME NEW s \in Requests, Fail(s) PROVE goal
  BY <1>1, <1>2, <1>3, <1>10 DEF Fail, Finish
<1>11. CASE \E p \in Principals, a \in Subjects, role \in Roles : PatchRole(p, a, role)
  BY <1>2, <1>11 DEF PatchRole
<1>12. QED
  BY <1>2, <1>4, <1>5, <1>6, <1>7, <1>8, <1>9, <1>10, <1>11, WritesStep DEF Step

\* How the handler of a waiver comes to the write.
LEMMA WaiveMoves ==
  ASSUME GateInv, Step, NEW r \in Requests, req'[r].op = "waive", req'[r].at = "passed"
  PROVE  \/ req'[r] = req[r]
         \/ /\ WorldSame
            /\ req[r].op = "waive" /\ req'[r].target \notin Repliers(msgs)
<1> DEFINE goal == \/ req'[r] = req[r]
                   \/ /\ WorldSame
                      /\ req[r].op = "waive" /\ req'[r].target \notin Repliers(msgs)
<1>1. req \in [Requests -> Handlers] /\ Idle.op # "waive"
  BY DEF GateInv, Idle
<1>2. CASE req'[r] = req[r] \/ req'[r] = Idle
  BY <1>1, <1>2
<1>3. ASSUME NEW s \in Requests, NEW q, req' = [req EXCEPT ![s] = q],
             r # s \/ q.op # "waive" \/ q.at # "passed"
      PROVE  goal
  BY <1>1, <1>2, <1>3
<1>4. ASSUME NEW s \in Requests, NEW p \in Principals, NEW op \in {"resolve", "decision"},
             GateBegin(s, p, op)
      PROVE  goal
  <2> DEFINE n == [op |-> op, at |-> "begun", who |-> p]
  <2>1. req' = [req EXCEPT ![s] = n] /\ n.at # "passed"
    BY <1>4 DEF GateBegin, Remember
  <2> HIDE DEF n
  <2>2. QED
    BY <1>3, <2>1
<1>5. ASSUME NEW s \in Requests, NEW p \in Principals, NEW a \in Subjects, NEW role \in Roles,
             AddBegin(s, p, a, role)
      PROVE  goal
  <2> DEFINE n == [op |-> "add", target |-> a, role |-> role]
  <2>1. req' = [req EXCEPT ![s] = n] /\ n.op # "waive"
    BY <1>5 DEF AddBegin, Remember
  <2> HIDE DEF n
  <2>2. QED
    BY <1>3, <2>1
<1>6. ASSUME NEW s \in Requests, NEW p \in Principals, NEW a \in Subjects, WaiveBegin(s, p, a)
      PROVE  goal
  <2> DEFINE n == [op |-> "waive", at |-> "begun", who |-> p, target |-> a]
  <2>1. req' = [req EXCEPT ![s] = n] /\ n.at # "passed"
    BY <1>6 DEF WaiveBegin, Remember
  <2> HIDE DEF n
  <2>2. QED
    BY <1>3, <2>1
<1>7. ASSUME NEW s \in Requests, GateParticipants(s) PROVE goal
  <2> DEFINE n == [op |-> req[s].op, who |-> req[s].who,
                   at |-> IF Required(row) = {} THEN "passed" ELSE "listed",
                   waiting |-> Required(row) \ Waived(row)]
  <2>1. req' = [req EXCEPT ![s] = n] /\ n.op # "waive"
    BY <1>7 DEF GateParticipants, Advance
  <2> HIDE DEF n
  <2>2. QED
    BY <1>3, <2>1
<1>8. ASSUME NEW s \in Requests, GateMessages(s) PROVE goal
  <2> DEFINE n == [req[s] EXCEPT !.at = "passed"]
  <2>1. req' = [req EXCEPT ![s] = n] \/ req' = [req EXCEPT ![s] = Idle]
    BY <1>8 DEF GateMessages, Advance, Finish
  <2>2. n.op # "waive"
    BY <1>8 DEF GateMessages
  <2> HIDE DEF n
  <2>3. QED
    BY <1>1, <1>3, <2>1, <2>2
<1>9. ASSUME NEW s \in Requests, WaiveCheck(s) PROVE goal
  <2>1. CASE req' = [req EXCEPT ![s] = Idle]
    BY <1>1, <1>3, <2>1
  <2>2. CASE req[s].target \notin Repliers(msgs)
             /\ req' = [req EXCEPT ![s] = [req[s] EXCEPT !.at = "passed"]]
    <3>1. CASE r # s
      BY <1>3, <2>2, <3>1
    <3>2. CASE r = s
      BY <1>1, <1>9, <2>2, <3>2 DEF WaiveCheck, WorldSame
    <3>3. QED
      BY <3>1, <3>2
  <2>3. QED
    BY <1>9, <2>1, <2>2 DEF WaiveCheck, Advance, Finish
<1>10. ASSUME NEW s \in Requests, Fail(s) PROVE goal
  BY <1>1, <1>3, <1>10 DEF Fail, Finish
<1>11. CASE \E p \in Principals, a \in Subjects, role \in Roles : PatchRole(p, a, role)
  BY <1>2, <1>11 DEF PatchRole
<1>12. QED
  BY <1>2, <1>4, <1>5, <1>6, <1>7, <1>8, <1>9, <1>10, <1>11, WritesStep DEF Step

LEMMA GateStep == ASSUME GateInv, Step, Observe PROVE GateInv'
<1>1. StepTyped
  BY StepKeepsTypes
<1>2. row' \in [Principals -> ParticipantRow] /\ msgs' \in Seq(Message)
      /\ req' \in [Requests -> Handlers]
  BY <1>1 DEF StepTyped
<1>3. \A r \in Requests : Objections(req'[r], row', msgs') \subseteq Principals
  BY <1>2, ObjectionsType
<1>4. HistoryTyped'
  BY <1>3 DEF GateInv, HistoryTyped, Observe
<1>5. TypeOK'
  <2>1. ASSUME NEW r \in Requests
        PROVE  req'[r].op \in {"idle", "resolve", "decision", "add", "waive"}
    BY <1>2, HandlerFields
  <2>2. QED
    BY <1>1, <1>4, <2>1 DEF TypeOK, StepTyped, HistoryTyped, Message
\* Who is objected to has been so before, or is late.
<1>6. ASSUME NEW r \in Requests, HasRead(req'[r]), NEW a \in Objections(req'[r], row', msgs')
      PROVE  a \in late'[r] \/ (a \in Objections(req'[r], row, msgs) /\ a \notin late[r])
  BY <1>6 DEF Observe
<1>7. ListSound'
  <2> SUFFICES ASSUME NEW r \in Requests, Running(req'[r]), req'[r].at # "begun",
                      NEW a \in Pending(row', msgs'), a \notin late'[r]
               PROVE  req'[r].at = "listed" /\ a \in req'[r].waiting
    BY DEF ListSound
  <2>1. a \in Pending(row, msgs) /\ a \notin late[r]
    BY <1>6 DEF HasRead, Objections
  <2>2. Running(req[r]) =>
          /\ req[r].at = "listed" => Pending(row, msgs) \subseteq req[r].waiting \cup late[r]
          /\ req[r].at = "passed" => Pending(row, msgs) \subseteq late[r]
    BY DEF GateInv, ListSound
  <2>3. CASE Running(req[r]) /\ req'[r] = req[r]
    <3>1. req'[r].at \in {"listed", "passed"}
      BY <1>2, HandlerFields DEF Running, Gated
    <3>2. QED
      BY <2>1, <2>2, <2>3, <3>1
  <2>4. CASE Running(req[r]) /\ GateParticipants(r)
    <3>1. /\ req'[r].at = IF Required(row) = {} THEN "passed" ELSE "listed"
          /\ req'[r].waiting = Required(row) \ Waived(row)
      BY <2>4 DEF GateInv, GateParticipants, Advance
    <3>2. QED
      BY <2>1, <3>1 DEF Pending
  <2>5. CASE Running(req[r]) /\ GateMessages(r) /\ req'[r] = [req[r] EXCEPT !.at = "passed"]
    <3>1. req[r].waiting \subseteq Repliers(msgs)
      <4>1. CASE req' = [req EXCEPT ![r] = Idle]
        BY <2>5, <4>1 DEF GateInv, Running, Idle
      <4>2. QED
        BY <2>5, <4>1 DEF GateMessages, Finish
    <3>2. a \notin req[r].waiting
      BY <2>1, <3>1 DEF Pending
    <3>3. req[r].at = "listed"
      BY <2>5 DEF GateMessages
    <3>4. QED
      BY <2>1, <2>2, <2>5, <3>2, <3>3
  <2>6. QED
    BY <2>3, <2>4, <2>5, HandlerMoves
<1>8. WaiverHonest'
  <2> SUFFICES ASSUME NEW r \in Requests, req'[r].op = "waive", req'[r].at = "passed",
                      req'[r].target \in Repliers(msgs'), req'[r].target \notin late'[r]
               PROVE  FALSE
    BY DEF WaiverHonest
  <2>1. ~Running(req'[r])
    BY DEF Running
  <2>2. req'[r].target \in Repliers(msgs) /\ req'[r].target \notin late[r]
    BY <1>6, <2>1 DEF HasRead, Objections
  <2>3. CASE req'[r] = req[r]
    BY <2>2, <2>3 DEF GateInv, WaiverHonest
  <2>4. QED
    BY <2>2, <2>3, WaiveMoves
<1>9. QED
  BY <1>2, <1>4, <1>5, <1>7, <1>8 DEF GateInv

-----------------------------------------------------------------------------
(* The theorems. *)

LEMMA GateInit == Init => GateInv
<1> SUFFICES ASSUME Init PROVE GateInv
  OBVIOUS
<1>1. req \in [Requests -> Handlers] /\ HistoryTyped
  BY IdleHandler DEF Init, HistoryTyped
<1>2. row \in [Principals -> ParticipantRow]
  BY DEF Init, ParticipantRow, Roles
<1>3. msgs \in Seq([author: Principals, kind: Kinds, live: BOOLEAN]) /\ Len(msgs) = 0
  BY DEF Init
<1>4. TypeOK
  BY <1>1, <1>2, <1>3, ReviewSets DEF Init, TypeOK, HistoryTyped, Idle
<1>5. ListSound /\ WaiverHonest
  BY DEF Init, ListSound, WaiverHonest, Running, Idle
<1>6. QED
  BY <1>1, <1>4, <1>5 DEF GateInv

LEMMA GateNext == GateInv /\ [Next]_vars => GateInv'
<1>1. CASE UNCHANGED vars
  BY <1>1 DEF vars, GateInv, TypeOK, HistoryTyped, ListSound, WaiverHonest
<1>2. QED
  BY <1>1, GateStep DEF Next

\* The invariant of the review gate, in every behaviour.
THEOREM GateInvariant == Spec => []GateInv
  BY GateInit, GateNext, PTL DEF Spec

\* Every variable holds one of its values.
THEOREM ReviewTyped == Spec => []TypeOK
<1>1. GateInv => TypeOK
  BY DEF GateInv
<1>2. QED
  BY <1>1, GateInvariant, PTL

\* getThreadReviewReadiness decides from reads of different moments, but whoever
\* was pending when it read the participants, and is still when the thread is
\* resolved or the decision is posted, has the request refused.
THEOREM GateIsHonest == Spec => []GateHonest
<1>1. GateInv => GateHonest
  BY DEF GateInv, ListSound, GateHonest
<1>2. QED
  BY <1>1, GateInvariant, PTL

\* waive-review overrides no answer that was visible when it looked.
THEOREM WaiverIsHonest == Spec => []WaiverHonest
<1>1. GateInv => WaiverHonest
  BY DEF GateInv
<1>2. QED
  BY <1>1, GateInvariant, PTL

\* No route but PATCH of a participant changes the role of a row that exists,
\* none takes a waiver back, and no row ever goes (autowatchThread, waive-review,
\* the routes of participants.ts).
THEOREM ReviewStateIsKept == Spec => ReviewStateKept
<1> DEFINE kept(a) ==
      row[a].state # "absent" =>
        /\ row'[a].state # "absent"
        /\ row'[a].role # row[a].role =>
             \E p \in Principals, role \in Roles : PatchRole(p, a, role)
        /\ row[a].waived => row'[a].waived
<1>1. ASSUME GateInv, [Next]_vars, NEW a \in Principals PROVE kept(a)
  <2>1. RowKept(a) => kept(a)
    BY DEF RowKept
  <2>2. row' = row => RowKept(a)
    BY DEF RowKept
  <2>3. CASE UNCHANGED vars
    BY <2>1, <2>2, <2>3 DEF vars
  <2>4. ASSUME NEW p \in Principals, NEW b \in Subjects, NEW role \in Roles,
               PatchRole(p, b, role)
        PROVE  kept(a)
    <3>1. CASE a = b
      BY <1>1, <2>4, <3>1, PatchStep
    <3>2. CASE a # b
      BY <1>1, <2>1, <2>4, <3>2, PatchStep
    <3>3. QED
      BY <3>1, <3>2
  <2>5. CASE Step
    BY <1>1, <2>1, <2>2, <2>4, <2>5, HandlersStep, WritesStep DEF Step, WorldSame
  <2>6. QED
    BY <1>1, <2>3, <2>5 DEF Next
<1>2. GateInv /\ [Next]_vars => [\A a \in Principals : kept(a)]_vars
  BY <1>1
<1>3. QED
  BY <1>2, GateInvariant, PTL DEF Spec, ReviewStateKept
=============================================================================
