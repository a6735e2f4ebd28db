----------------------------- MODULE ReviewGate ------------------------------
(***************************************************************************)
(* The review gate of one thread: who must review it, what counts as a     *)
(* review, and the two writes the gate protects, resolving the thread and  *)
(* posting a decision (lib/data-access/review.ts, routes/participants.ts,  *)
(* the gates of routes/threads.ts and routes/messages.ts, autowatch).      *)
(*                                                                         *)
(* getThreadReviewReadiness runs outside any transaction: the handler      *)
(* reads the thread, then the participants, then the messages, and the     *)
(* write it protects commits later without looking again.  Each of these   *)
(* is a step.  Routes that decide on nothing but what cannot change (the   *)
(* caller's scopes, the creator, the existence of a row) are one step, at  *)
(* their write.  The thread is neither hidden, closed, archived nor        *)
(* deleted: Governance has the status machine.                             *)
(*                                                                         *)
(* late is a history variable: no guard looks at it.                       *)
(***************************************************************************)
EXTENDS Naturals, Sequences

CONSTANTS
  Principals,  \* everyone with a principal row
  Creator,     \* who opened the thread
  Moderators,  \* those with governance authority
  Subjects,    \* bound: those whose participant row the routes are used on
  Requests,    \* request slots
  MaxMsgs,     \* bound on the number of messages
  MaxOutcomes  \* bound on the number of outcomes

ASSUME ReviewAssumption ==
  /\ Creator \in Principals
  /\ Moderators \subseteq Principals /\ Subjects \subseteq Principals
  /\ MaxMsgs \in Nat /\ MaxOutcomes \in Nat

VARIABLES
  status,    \* "open" or "resolved"
  row,       \* the participant row of every principal
  msgs,      \* the messages by seq, deleted ones included
  outcomes,  \* how many outcomes resolve has written
  req,       \* where every running handler is, with what it has read
  late       \* late[r]: whom r's handler would object to since it has read

vars == <<status, row, msgs, outcomes, req, late>>

\* "member" stands for every role that is not required_reviewer.
Roles == {"member", "required_reviewer"}
Kinds == {"comment", "system", "decision"}
Idle  == [op |-> "idle"]

\* canManageParticipants
Manages(p) == p = Creator \/ p \in Moderators

\* findParticipantsByThreadId, those with the role: left rows do not count.
Required(rows) == {a \in Principals : rows[a].state = "in"
                                      /\ rows[a].role = "required_reviewer"}

\* The authors of visible messages, system messages left out.
Repliers(ms) == {ms[i].author : i \in {j \in 1 .. Len(ms) :
                                         ms[j].live /\ ms[j].kind # "system"}}

Waived(rows) == {a \in Principals : rows[a].waived}

\* pendingReviewerIds
Pending(rows, ms) == Required(rows) \ (Repliers(ms) \cup Waived(rows))

\* Mutant: whoever comes back starts over as a member.
AutowatchAnew(old) ==
  IF old.state = "in" THEN old
  ELSE [state |-> "in", role |-> "member", waived |-> FALSE]

\* autowatchThread: the role and the waiver of a row survive leaving.
Autowatch(old) ==
  CASE old.state = "absent" -> [state |-> "in", role |-> "member", waived |-> FALSE]
    [] old.state = "left"   -> [old EXCEPT !.state = "in"]
    [] old.state = "in"     -> old

Remember(r, q) == req[r] = Idle /\ req' = [req EXCEPT ![r] = q]
Advance(r, q)  == req' = [req EXCEPT ![r] = q]
Finish(r)      == req' = [req EXCEPT ![r] = Idle]

-----------------------------------------------------------------------------
(* The gate, for op = "resolve" or "decision". *)

\* The handler's own guards, on the thread it reads.
GateBegin(r, p, op) ==
  /\ IF op = "resolve" THEN Manages(p) /\ status = "open" ELSE p \in Moderators
  /\ Remember(r, [op |-> op, at |-> "begun", who |-> p])
  /\ UNCHANGED <<status, row, msgs, outcomes>>

\* The participants are read; with no required reviewer the gate is open.
GateParticipants(r) ==
  LET q == req[r] IN
  /\ q.op \in {"resolve", "decision"} /\ q.at = "begun"
  /\ Advance(r, [op |-> q.op, who |-> q.who,
                 at |-> IF Required(row) = {} THEN "passed" ELSE "listed",
                 waiting |-> Required(row) \ Waived(row)])
  /\ UNCHANGED <<status, row, msgs, outcomes>>

\* Mutant: the handler answers 409 and goes on.
GateMessagesNoReturn(r) ==
  LET q == req[r] IN
  /\ q.op \in {"resolve", "decision"} /\ q.at = "listed"
  /\ Advance(r, [q EXCEPT !.at = "passed"])
  /\ UNCHANGED <<status, row, msgs, outcomes>>

\* The messages are read; a reviewer neither waived nor heard refuses it (409).
GateMessages(r) ==
  LET q == req[r] IN
  /\ q.op \in {"resolve", "decision"} /\ q.at = "listed"
  /\ IF q.waiting \subseteq Repliers(msgs)
     THEN Advance(r, [q EXCEPT !.at = "passed"]) ELSE Finish(r)
  /\ UNCHANGED <<status, row, msgs, outcomes>>

\* The message of a post, with the autowatch of its author and its mentions.
Posts(p, kind, mentions) ==
  /\ Len(msgs) < MaxMsgs
  /\ msgs' = Append(msgs, [author |-> p, kind |-> kind, live |-> TRUE])
  /\ row' = [a \in Principals |->
               IF a \in mentions \cup {p} THEN Autowatch(row[a]) ELSE row[a]]

GateCommit(r) ==
  LET q == req[r] IN
  /\ q.op \in {"resolve", "decision"} /\ q.at = "passed"
  /\ IF q.op = "resolve"
     THEN /\ outcomes < MaxOutcomes
          /\ outcomes' = outcomes + 1
          /\ status' = "resolved"
          /\ UNCHANGED <<row, msgs>>
     ELSE Posts(q.who, "decision", {}) /\ UNCHANGED <<status, outcomes>>
  /\ Finish(r)

-----------------------------------------------------------------------------
(* Messages *)

Post(p, kind, mentions) ==
  /\ kind = "comment" \/ (kind = "system" /\ p \in Moderators)
  /\ Posts(p, kind, mentions)
  /\ UNCHANGED <<status, outcomes, req>>

DeleteMessage(p, i) ==
  /\ p \in Moderators
  /\ i \in 1 .. Len(msgs) /\ msgs[i].live
  /\ msgs' = [msgs EXCEPT ![i].live = FALSE]
  /\ UNCHANGED <<status, row, outcomes, req>>

-----------------------------------------------------------------------------
(* Participants *)

\* POST /participants.  A row that exists, left or not, is returned as it is.
AddBegin(r, p, a, role) ==
  /\ IF a = p THEN role = "member" ELSE Manages(p)
  /\ row[a].state = "absent"
  /\ Remember(r, [op |-> "add", target |-> a, role |-> role])
  /\ UNCHANGED <<status, row, msgs, outcomes>>

\* The insert; a row created meanwhile violates the unique key and fails it.
AddCommit(r) ==
  LET q == req[r] IN
  /\ q.op = "add"
  /\ row' = IF row[q.target].state # "absent" THEN row
            ELSE [row EXCEPT ![q.target] =
                    [state |-> "in", role |-> q.role, waived |-> FALSE]]
  /\ Finish(r)
  /\ UNCHANGED <<status, msgs, outcomes>>

\* PATCH of a role: any row that exists, left ones included.
PatchRole(p, a, role) ==
  /\ Manages(p)
  /\ row[a].state # "absent"
  /\ row' = [row EXCEPT ![a].role = role]
  /\ UNCHANGED <<status, msgs, outcomes, req>>

\* DELETE of a participant, by itself or by a manager; unwatch does the same.
Leave(p, a) ==
  /\ p = a \/ Manages(p)
  /\ row[a].state # "absent"
  /\ row' = [row EXCEPT ![a].state = "left"]
  /\ UNCHANGED <<status, msgs, outcomes, req>>

Watch(p) ==
  /\ row' = [row EXCEPT ![p] = Autowatch(@)]
  /\ UNCHANGED <<status, msgs, outcomes, req>>

\* waive-review: the row, then the reviewer's messages, then the write.
WaiveBegin(r, p, a) ==
  /\ row[a].state # "absent"
  /\ row[a].role = "required_reviewer" /\ ~row[a].waived
  /\ Remember(r, [op |-> "waive", at |-> "begun", who |-> p, target |-> a])
  /\ UNCHANGED <<status, row, msgs, outcomes>>

\* Mutant: the reviewer's messages are not looked at.
WaiveCheckUnheard(r) ==
  LET q == req[r] IN
  /\ q.op = "waive" /\ q.at = "begun"
  /\ IF Manages(q.who) THEN Advance(r, [q EXCEPT !.at = "passed"]) ELSE Finish(r)
  /\ UNCHANGED <<status, row, msgs, outcomes>>

\* Refused to whom has answered (409).
WaiveCheck(r) ==
  LET q == req[r] IN
  /\ q.op = "waive" /\ q.at = "begun"
  /\ IF q.target \notin Repliers(msgs) /\ Manages(q.who)
     THEN Advance(r, [q EXCEPT !.at = "passed"]) ELSE Finish(r)
  /\ UNCHANGED <<status, row, msgs, outcomes>>

WaiveCommit(r) ==
  LET q == req[r] IN
  /\ q.op = "waive" /\ q.at = "passed"
  /\ row' = [row EXCEPT ![q.target].waived = TRUE]
  /\ Finish(r)
  /\ UNCHANGED <<status, msgs, outcomes>>

\* An error anywhere ends the handler; its write, if any, did not happen.
Fail(r) ==
  /\ req[r] # Idle
  /\ Finish(r)
  /\ UNCHANGED <<status, row, msgs, outcomes>>

-----------------------------------------------------------------------------

\* The thread is created with its creator in it.
Init ==
  /\ status = "open"
  /\ row = [a \in Principals |->
              [state |-> IF a = Creator THEN "in" ELSE "absent",
               role |-> "member", waived |-> FALSE]]
  /\ msgs = <<>>
  /\ outcomes = 0
  /\ req = [r \in Requests |-> Idle]
  /\ late = [r \in Requests |-> {}]

Step ==
  \/ \E r \in Requests, p \in Principals :
       \/ \E op \in {"resolve", "decision"} : GateBegin(r, p, op)
       \/ \E a \in Subjects, role \in Roles : AddBegin(r, p, a, role)
       \/ \E a \in Subjects : WaiveBegin(r, p, a)
  \/ \E r \in Requests :
       \/ GateParticipants(r)
       \/ GateMessages(r)
       \/ GateCommit(r)
       \/ AddCommit(r)
       \/ WaiveCheck(r)
       \/ WaiveCommit(r)
       \/ Fail(r)
  \/ \E p \in Principals, a \in Subjects :
       \/ \E role \in Roles : PatchRole(p, a, role)
       \/ Leave(p, a)
  \/ \E p \in Subjects : Watch(p)
  \/ \E p \in Principals, kind \in Kinds, mentions \in SUBSET Subjects :
       Post(p, kind, mentions)
  \/ \E p \in Principals, i \in 1 .. MaxMsgs : DeleteMessage(p, i)

Running(q) == q.op \in {"resolve", "decision"}

\* The handler has taken the read that its check begins with.
HasRead(q) == (Running(q) /\ q.at # "begun") \/ (q.op = "waive" /\ q.at = "passed")

\* Whom its check objects to: the gate to reviewers that are pending, a waiver
\* to those that have answered.
Objections(q, rows, ms) == IF Running(q) THEN Pending(rows, ms) ELSE Repliers(ms)

\* Those who have become so, and still are, since a handler has read.
Observe ==
  late' = [r \in Requests |->
    IF HasRead(req'[r])
    THEN {a \in Objections(req'[r], row', msgs') :
            a \in late[r] \/ a \notin Objections(req'[r], row, msgs)}
    ELSE {}]

Next == Step /\ Observe

Spec == Init /\ [][Next]_vars

-----------------------------------------------------------------------------
(* Properties. *)

ParticipantRow == [state: {"absent", "in", "left"}, role: Roles, waived: BOOLEAN]

TypeOK ==
  /\ status \in {"open", "resolved"}
  /\ row \in [Principals -> ParticipantRow]
  /\ msgs \in Seq([author: Principals, kind: Kinds, live: BOOLEAN])
  /\ Len(msgs) <= MaxMsgs
  /\ outcomes \in 0 .. MaxOutcomes
  /\ \A r \in Requests :
       /\ req[r].op \in {"idle", "resolve", "decision", "add", "waive"}
       /\ late[r] \subseteq Principals

\* The gate is no older than its reads: at any moment from the decision to the
\* commit, a reviewer who is required and has neither a visible message nor a
\* waiver has become so after the handler read the participants; whoever was
\* pending then, and is still, has it refused, however participants, waivers,
\* posts and deletions interleave with its three reads.
GateHonest ==
  \A r \in Requests :
    Running(req[r]) /\ req[r].at = "passed" => Pending(row, msgs) \subseteq late[r]

\* A waiver never covers an answer that was there to be read: when waive-review
\* is about to write, the reviewer has no visible message, or got it after the
\* route looked (participants.ts, "reviewer has already responded").
WaiverHonest ==
  \A r \in Requests :
    req[r].op = "waive" /\ req[r].at = "passed" /\ req[r].target \in Repliers(msgs)
      => req[r].target \in late[r]

\* Expected by CTR-FINAL-002 and CTR-FINAL-004 of the code: a thread is resolved
\* only while it is open and none of its reviewers is pending.  It looks before
\* its transaction, not in it.
FinalizesReady ==
  [][outcomes' > outcomes => status = "open" /\ Pending(row, msgs) = {}]_vars

\* Expected by CTR-REVIEW-006: a waiver is never written over an answer.
WaiverNeverOverAnswer ==
  [][\A a \in Principals : row'[a].waived /\ ~row[a].waived => a \notin Repliers(msgs)]_vars

\* Watching, leaving, coming back, posting and being mentioned never change a
\* role or a waiver ("Watch is independent from review authority"): a reviewer
\* that left comes back as a reviewer, unless a manager said otherwise.
ReviewStateKept ==
  [][\A a \in Principals : row[a].state # "absent" =>
       /\ row'[a].state # "absent"
       /\ row'[a].role # row[a].role =>
            \E p \in Principals, role \in Roles : PatchRole(p, a, role)
       /\ row[a].waived => row'[a].waived]_vars

\* Departure never removes a review requirement (CTR-REVIEW-001: "unwatch ...
\* participant departure ... MUST NOT create, delete, satisfy ... a Review
\* Requirement"): a reviewer the gate waits for stops being one by answering,
\* by a waiver or by a change of its role.
DepartureKeepsRequirement ==
  [][\A a \in Pending(row, msgs) :
       \/ a \in Required(row')
       \/ a \in Repliers(msgs') \cup Waived(row')
       \/ row'[a].role # "required_reviewer"]_vars

=============================================================================
