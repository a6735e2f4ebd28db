----------------------------- MODULE Governance ------------------------------
(***************************************************************************)
(* Governed writes of the forum service: the thread lifecycle endpoints,   *)
(* soft deletion, resolve, pin/feature flags, message deletion and report  *)
(* handling, with the audit log and the notification facts they write      *)
(* (lib/governance.ts, routes/moderation.ts, threads.ts, messages.ts,      *)
(* reports.ts, outcomes.ts).                                               *)
(*                                                                         *)
(* A handler runs in two steps.  It READS the rows it needs outside any    *)
(* transaction and applies its guards to what it read (the Accept actions; *)
(* a refused request changes nothing and is not a step).  It then COMMITS: *)
(* withTransactionRetry runs the writes in one SERIALIZABLE transaction,   *)
(* so they take effect at one point, on the rows as they are then.  What   *)
(* was read is only remembered in req[r].  Between the two steps any other *)
(* request may commit.                                                     *)
(*                                                                         *)
(* A handler that tells the participants takes a step more, Begin: it      *)
(* reads them in the snapshot of its transaction and never writes them,    *)
(* so one who joins or leaves before the commit does not stop it.  What    *)
(* does is a write of the thread's row, which all of these handlers write  *)
(* themselves, or a watch that changes a participant (it reads that row,   *)
(* so the two cannot be ordered): the transaction is begun again.          *)
(*                                                                         *)
(* seenAt and around are history: the length of the audit log when the     *)
(* handler read, and who has been in its thread since.  No guard looks at  *)
(* them.                                                                   *)
(***************************************************************************)
EXTENDS Lifecycle, Naturals, Sequences, FiniteSets

CONSTANTS
  Threads,      \* thread ids
  NoThread,     \* the null threadId of a record about a message report
  Principals,   \* authenticated callers
  Moderators,   \* those whose token has forum.moderate or forum.admin
  Writers,      \* those whose token has forum.write
  Creator,      \* Creator[t]: who opened thread t
  Messages,     \* message numbers (seq) already posted in every thread
  Requests,     \* request slots: at most one running handler in each
  Ops,          \* the operations clients ask for
  MaxAudit      \* bound on the audit log; no handler starts once it is full

Flags      == {"pinned", "featured"}
FlagOps    == {"flag", "patch"}
HandleOps  == {"ignore", "warn", "delete"}
MemberOps  == {"watch", "unwatch", "join", "remove"}
AllOps     == StatusActions \cup FlagOps \cup HandleOps \cup MemberOps
                \cup {"deleteMessage", "report", "outcome"}

ASSUME GovernanceAssumption ==
  /\ NoThread \notin Threads
  /\ Moderators \subseteq Principals
  /\ Writers \subseteq Principals
  /\ Creator \in [Threads -> Principals]
  /\ Messages \subseteq Nat \ {0}
  /\ IsFiniteSet(Messages)
  /\ Ops \subseteq AllOps
  /\ MaxAudit \in Nat

\* A report is keyed by (targetType, targetId, reporterId), which is unique;
\* message number 0 stands for the thread itself.
ReportKeys == Threads \X (Messages \cup {0}) \X Principals
ReportStatuses == {"none", "pending", "ignored", "warned", "deleted"}

\* reportStatusForAction
Handled(op) == CASE op = "ignore" -> "ignored"
                 [] op = "warn"   -> "warned"
                 [] op = "delete" -> "deleted"

VARIABLES
  status,    \* forum_threads.status
  raised,    \* the flags of a thread that are on (pinned, featured)
  live,      \* the messages of a thread whose deletedAt is null
  derived,   \* its messageCount and lastMessageAt columns
  decided,   \* the threads with a row in forum_outcomes
  member,    \* its participants: no row, in (leftAt null) or left
  report,    \* the reports, "none" where there is no row
  audit,     \* forum_audit_events, in commit order
  facts,     \* forum_notification_facts
  req,       \* what every running handler remembers from its reads
  snap,      \* the participants its transaction sees, once it has begun
  around     \* who was in its thread ever since, and at some time since, it read

rows == <<status, raised, live, derived, decided, member, report, audit, facts>>
vars == <<rows, req, snap, around>>

-----------------------------------------------------------------------------
(* What a running handler carries from its reads to its transaction. *)

Idle == [op |-> "idle"]

StatusRequest  == [op: StatusActions, actor: Principals, thread: Threads,
                   seen: Statuses, seenAt: Nat]
FlagRequest    == [op: FlagOps, actor: Principals, thread: Threads,
                   on: SUBSET Flags, off: SUBSET Flags, seen: SUBSET Flags]
MessageRequest == [op: {"deleteMessage"}, actor: Principals, thread: Threads,
                   message: Messages]
ReportRequest  == [op: {"report"}, key: ReportKeys]
HandleRequest  == [op: HandleOps, actor: Principals, key: ReportKeys, seenAt: Nat]
MemberRequest  == [op: MemberOps, actor: Principals, thread: Threads,
                   who: Principals]
OutcomeRequest == [op: {"outcome"}, actor: Principals, thread: Threads]

Pending == StatusRequest \cup FlagRequest \cup MessageRequest \cup ReportRequest
             \cup HandleRequest \cup MemberRequest \cup OutcomeRequest

(* The rows a handler writes. *)

EventTypes == StatusActions \cup {"pin", "unpin", "feature", "unfeature",
                                  "deleteMessage", "report.handle"}
NoReport == <<>>
AuditEvent == [type: EventTypes, actor: Principals,
               thread: Threads \cup {NoThread}, report: ReportKeys \cup {NoReport},
               from: Statuses \cup {"pending", "none"},
               to: Statuses \cup {"ignored", "warned", "none"}, seenAt: Nat]
Fact == [to: Principals, thread: Threads, event: Nat \ {0},
         reason: {"thread_notice", "moderator_notice"}]

\* An audit record that moves thread t: of a status action, or of a report
\* handled by deleting the reported thread (threadId is set and the report's
\* own new status is "deleted").
SetsStatus(e, t) ==
  /\ e.thread = t
  /\ e.type \in StatusActions \/ (e.type = "report.handle" /\ e.to = "deleted")

\* The number of visible messages and the latest of them, 0 if there is none;
\* message numbers grow with createdAt.
Latest(shown)  == {m \in shown : \A n \in shown : n <= m}
Derived(shown) == [count |-> Cardinality(shown),
                   last  |-> IF Latest(shown) = {} THEN 0
                             ELSE CHOOSE m \in Latest(shown) : TRUE]

Governs(p) == p \in Moderators

\* Those in thread t, given the participant rows.
Active(rowsOf, t) == {p \in Principals : rowsOf[t][p] = "in"}

\* The handlers that tell everyone in the thread: they see the participants in
\* the snapshot of their transaction.
FansOut(q)  == q.op \in StatusActions \cup {"deleteMessage"}
NoSnapshot == [begun |-> FALSE, sees |-> {}]

\* The transactions on thread t that fan out are begun again.
Restarted(t) ==
  [r \in Requests |-> IF FansOut(req[r]) /\ req[r].thread = t
                      THEN NoSnapshot ELSE snap[r]]

-----------------------------------------------------------------------------
(* Helpers of the transaction body. *)

FlagEvent(f, q) ==
  [type   |-> IF f = "pinned" THEN IF f \in q.on THEN "pin" ELSE "unpin"
              ELSE IF f \in q.on THEN "feature" ELSE "unfeature",
   actor  |-> q.actor, thread |-> q.thread, report |-> NoReport,
   from   |-> "none", to |-> "none", seenAt |-> 0]

\* Mutant: the record assumes that the thread was open.
StatusEventFromOpen(q) ==
  [type |-> q.op, actor |-> q.actor, thread |-> q.thread, report |-> NoReport,
   from |-> "open", to |-> Target(q.op), seenAt |-> q.seenAt]

StatusEvent(q) ==
  [type |-> q.op, actor |-> q.actor, thread |-> q.thread, report |-> NoReport,
   from |-> q.seen, to |-> Target(q.op), seenAt |-> q.seenAt]

MessageEvent(q) ==
  [type |-> q.op, actor |-> q.actor, thread |-> q.thread, report |-> NoReport,
   from |-> "none", to |-> "none", seenAt |-> 0]

\* Mutant: the record does not say which report.
HandleEventUnkeyed(q) ==
  [type |-> "report.handle", actor |-> q.actor,
   thread |-> IF q.key[2] = 0 THEN q.key[1] ELSE NoThread, report |-> NoReport,
   from |-> "pending", to |-> Handled(q.op), seenAt |-> q.seenAt]

\* threadId is set only when the report's target is a thread.
HandleEvent(q) ==
  [type |-> "report.handle", actor |-> q.actor,
   thread |-> IF q.key[2] = 0 THEN q.key[1] ELSE NoThread, report |-> q.key,
   from |-> "pending", to |-> Handled(q.op), seenAt |-> q.seenAt]

\* Mutants: the insert is lost; a retry repeats it.
AppendAuditLost(log, e)  == log
AppendAuditTwice(log, e) == log \o <<e, e>>

\* appendAuditEvent; its event id is its place in the log.
AppendAudit(log, e) == Append(log, e)

\* Mutant: one record per PATCH, whatever it changed.
AppendFirst(changed, log, e) ==
  IF changed /\ Len(log) = Len(audit) THEN Append(log, e) ELSE log

\* The same append, made for the flags whose value differs from the one read.
AppendIf(changed, log, e) == IF changed THEN Append(log, e) ELSE log

\* Mutant: everyone who ever had a row is told.
FanOutToAll(q, seen, event, reason) ==
  {[to |-> p, thread |-> q.thread, event |-> event, reason |-> reason] :
     p \in {x \in Principals : member[q.thread][x] # "none"} \ {q.actor}}

\* notifyThreadParticipants: everyone the transaction sees but the actor.
FanOut(q, seen, event, reason) ==
  {[to |-> p, thread |-> q.thread, event |-> event, reason |-> reason] :
     p \in seen \ {q.actor}}

\* Mutant: a moderator hears of its own decision.
ReporterNoticeToSelf(q, event) ==
  {[to |-> q.key[3], thread |-> q.key[1], event |-> event,
    reason |-> "moderator_notice"]}

\* The reporter's notice of PATCH /reports/:id.
ReporterNotice(q, event) ==
  IF q.key[3] = q.actor THEN {}
  ELSE {[to |-> q.key[3], thread |-> q.key[1], event |-> event,
         reason |-> "moderator_notice"]}

NoticeReason(op) == IF op \in {"hide", "softDelete", "deleteMessage"}
                    THEN "moderator_notice" ELSE "thread_notice"

\* Mutant: the derived columns are left as they were.
TombstoneUnrepaired(t, m) ==
  /\ live' = [live EXCEPT ![t] = @ \ {m}]
  /\ UNCHANGED derived

\* deletedAt is set and repairThreadMessageDerivedState runs, in one transaction.
Tombstone(t, m) ==
  /\ live' = [live EXCEPT ![t] = @ \ {m}]
  /\ derived' = [derived EXCEPT ![t] = Derived(live[t] \ {m})]

\* resolve writes an outcome in its transaction.
WithOutcome(q) == IF q.op = "resolve" THEN decided \cup {q.thread} ELSE decided

Room == Len(audit) < MaxAudit
Remember(r, q) == Room /\ req[r] = Idle /\ req' = [req EXCEPT ![r] = q]
Finish(r) == req' = [req EXCEPT ![r] = Idle]

-----------------------------------------------------------------------------
(* Step one: the guards a handler applies to the rows it reads. *)

AcceptLifecycle(r, p, t, a) ==
  /\ a \in LifecycleActions \cap Ops
  /\ p \in Moderators
  /\ LegalTransition(a, status[t])
  /\ Remember(r, [op |-> a, actor |-> p, thread |-> t, seen |-> status[t],
                  seenAt |-> Len(audit)])

\* Mutant: a deleted thread may be deleted again.
AcceptSoftDeleteAgain(r, p, t) ==
  /\ "softDelete" \in Ops
  /\ p \in Moderators \cap Writers
  /\ Remember(r, [op |-> "softDelete", actor |-> p, thread |-> t,
                  seen |-> status[t], seenAt |-> Len(audit)])

AcceptSoftDelete(r, p, t) ==
  /\ "softDelete" \in Ops
  /\ p \in Moderators \cap Writers
  /\ LegalTransition("softDelete", status[t])
  /\ Remember(r, [op |-> "softDelete", actor |-> p, thread |-> t,
                  seen |-> status[t], seenAt |-> Len(audit)])

\* Mutant: whatever the status.
AcceptResolveAny(r, p, t) ==
  /\ "resolve" \in Ops
  /\ p \in Writers
  /\ Visible(status[t], Governs(p))
  /\ p = Creator[t] \/ Governs(p)
  /\ Remember(r, [op |-> "resolve", actor |-> p, thread |-> t,
                  seen |-> status[t], seenAt |-> Len(audit)])

\* The readiness gate that follows these guards is modelled in ReviewGate;
\* here it may answer either way.
AcceptResolve(r, p, t) ==
  /\ "resolve" \in Ops
  /\ p \in Writers
  /\ Visible(status[t], Governs(p))
  /\ p = Creator[t] \/ Governs(p)
  /\ LegalTransition("resolve", status[t])
  /\ Remember(r, [op |-> "resolve", actor |-> p, thread |-> t,
                  seen |-> status[t], seenAt |-> Len(audit)])

\* POST /pin, /unpin, /feature, /unfeature: one flag, and only if it changes.
AcceptFlag(r, p, t, f) ==
  /\ "flag" \in Ops
  /\ p \in Moderators
  /\ Remember(r, [op |-> "flag", actor |-> p, thread |-> t,
                  on   |-> IF f \in raised[t] THEN {} ELSE {f},
                  off  |-> IF f \in raised[t] THEN {f} ELSE {},
                  seen |-> raised[t]])

\* PATCH with pinned and/or featured in the body, whatever they are now.
AcceptPatch(r, p, t, on, off) ==
  /\ "patch" \in Ops
  /\ p \in Moderators \cap Writers
  /\ status[t] # "deleted"
  /\ on \cap off = {} /\ on \cup off # {}
  /\ Remember(r, [op |-> "patch", actor |-> p, thread |-> t,
                  on |-> on, off |-> off, seen |-> raised[t]])

AcceptDeleteMessage(r, p, t, m) ==
  /\ "deleteMessage" \in Ops
  /\ p \in Moderators \cap Writers
  /\ m \in live[t]
  /\ Remember(r, [op |-> "deleteMessage", actor |-> p, thread |-> t, message |-> m])

\* assertReportTargetExists, then the look-up of an earlier report.
AcceptReport(r, k) ==
  /\ "report" \in Ops
  /\ k[3] \in Writers
  /\ status[k[1]] # "hidden"
  /\ IF k[2] = 0 THEN status[k[1]] # "deleted" ELSE k[2] \in live[k[1]]
  /\ report[k] = "none"
  /\ Remember(r, [op |-> "report", key |-> k])

\* Mutant: any report that exists may be handled.
AcceptHandleAny(r, p, k, op) ==
  /\ op \in HandleOps \cap Ops
  /\ p \in Moderators \cap Writers
  /\ report[k] # "none"
  /\ Remember(r, [op |-> op, actor |-> p, key |-> k, seenAt |-> Len(audit)])

AcceptHandle(r, p, k, op) ==
  /\ op \in HandleOps \cap Ops
  /\ p \in Moderators \cap Writers
  /\ report[k] = "pending"
  /\ Remember(r, [op |-> op, actor |-> p, key |-> k, seenAt |-> Len(audit)])

\* watch and unwatch are about the caller; the participant routes (join,
\* remove) about anyone, if the caller opened the thread or governs.  join
\* answers a row that exists, left or not, as it is.
AcceptMember(r, p, t, op, who) ==
  /\ op \in MemberOps \cap Ops
  /\ p \in Writers
  /\ Visible(status[t], Governs(p))
  /\ who = p \/ (op \in {"join", "remove"} /\ (p = Creator[t] \/ Governs(p)))
  /\ op = "join" => status[t] # "deleted" /\ member[t][who] = "none"
  /\ op = "remove" => member[t][who] # "none"
  /\ Remember(r, [op |-> op, actor |-> p, thread |-> t, who |-> who])

AcceptOutcome(r, p, t) ==
  /\ "outcome" \in Ops
  /\ p \in Writers
  /\ Visible(status[t], Governs(p)) /\ status[t] # "deleted"
  /\ Remember(r, [op |-> "outcome", actor |-> p, thread |-> t])

Accept ==
  /\ \E r \in Requests :
       \/ \E p \in Principals, t \in Threads :
            \/ \E a \in LifecycleActions : AcceptLifecycle(r, p, t, a)
            \/ AcceptSoftDelete(r, p, t)
            \/ AcceptResolve(r, p, t)
            \/ \E f \in Flags : AcceptFlag(r, p, t, f)
            \/ \E on, off \in SUBSET Flags : AcceptPatch(r, p, t, on, off)
            \/ \E m \in Messages : AcceptDeleteMessage(r, p, t, m)
            \/ \E op \in MemberOps, who \in Principals : AcceptMember(r, p, t, op, who)
            \/ AcceptOutcome(r, p, t)
       \/ \E k \in ReportKeys : AcceptReport(r, k)
       \/ \E p \in Principals, k \in ReportKeys, op \in HandleOps :
            AcceptHandle(r, p, k, op)
  /\ UNCHANGED <<rows, snap>>

-----------------------------------------------------------------------------
(* Step two: the transaction. *)

\* The transaction of a handler that fans out takes its snapshot.
Begin(r) ==
  /\ FansOut(req[r])
  /\ ~snap[r].begun
  /\ snap' = [snap EXCEPT ![r] = [begun |-> TRUE,
                                 sees  |-> Active(member, req[r].thread)]]
  /\ UNCHANGED <<rows, req>>

\* close, archive, hide, restore, softDelete and resolve: the record, then a
\* blind status update (resolve also writes its outcome), then the fan-out.
CommitStatus(r) ==
  LET q == req[r] IN
  /\ q \in StatusRequest
  /\ snap[r].begun
  /\ Room
  /\ audit' = AppendAudit(audit, StatusEvent(q))
  /\ status' = [status EXCEPT ![q.thread] = Target(q.op)]
  /\ decided' = WithOutcome(q)
  /\ facts' = facts \cup FanOut(q, snap[r].sees, Len(audit) + 1, NoticeReason(q.op))
  /\ snap' = Restarted(q.thread)
  /\ Finish(r)
  /\ UNCHANGED <<raised, live, derived, member, report>>

\* Flags are written as asked; a record is appended for each flag whose value
\* differs from the one the handler read.  Nobody is notified.
CommitFlags(r) ==
  LET q == req[r]
      Differs(f) == (f \in q.on /\ f \notin q.seen) \/ (f \in q.off /\ f \in q.seen)
  IN
  /\ q \in FlagRequest
  /\ Room
  /\ raised' = [raised EXCEPT ![q.thread] = (@ \cup q.on) \ q.off]
  /\ audit' = AppendIf(Differs("featured"),
                       AppendIf(Differs("pinned"), audit, FlagEvent("pinned", q)),
                       FlagEvent("featured", q))
  /\ snap' = Restarted(q.thread)
  /\ Finish(r)
  /\ UNCHANGED <<status, live, derived, decided, member, report, facts>>

CommitDeleteMessage(r) ==
  LET q == req[r] IN
  /\ q \in MessageRequest
  /\ snap[r].begun
  /\ Room
  /\ audit' = AppendAudit(audit, MessageEvent(q))
  /\ Tombstone(q.thread, q.message)
  /\ facts' = facts \cup FanOut(q, snap[r].sees, Len(audit) + 1, NoticeReason(q.op))
  /\ snap' = Restarted(q.thread)
  /\ Finish(r)
  /\ UNCHANGED <<status, raised, decided, member, report>>

\* Mutant: the status read with the report is trusted.
CascadeUnchecked(q) == TRUE

\* A report handled by deleting its thread reads the status again, inside the
\* transaction; if the thread is already deleted the transaction rolls back.
CascadeAllowed(q) ==
  q.op = "delete" /\ q.key[2] = 0 => LegalTransition("softDelete", status[q.key[1]])

CommitHandle(r) ==
  LET q == req[r]
      t == q.key[1]
      m == q.key[2]
  IN
  /\ q \in HandleRequest
  /\ Room
  /\ CascadeAllowed(q)
  /\ audit' = AppendAudit(audit, HandleEvent(q))
  /\ IF q.op = "delete" /\ m # 0
     THEN Tombstone(t, m) ELSE UNCHANGED <<live, derived>>
  /\ status' = IF q.op = "delete" /\ m = 0
               THEN [status EXCEPT ![t] = "deleted"] ELSE status
  /\ report' = [report EXCEPT ![q.key] = Handled(q.op)]
  /\ facts' = facts \cup ReporterNotice(q, Len(audit) + 1)
  /\ snap' = IF q.op = "delete" THEN Restarted(t) ELSE snap
  /\ Finish(r)
  /\ UNCHANGED <<raised, decided, member>>

\* The insert of a report; a second row with the key is refused (409).
CommitReport(r) ==
  /\ req[r] \in ReportRequest
  /\ report[req[r].key] = "none"
  /\ report' = [report EXCEPT ![req[r].key] = "pending"]
  /\ Finish(r)
  /\ UNCHANGED <<status, raised, live, derived, decided, member, audit, facts, snap>>

\* What becomes of a participant's row: a watch enters or comes back, a join
\* inserts where there is no row yet, the others leave.
Membership(op, row) ==
  CASE op = "watch" -> "in"
    [] op = "join"  -> IF row = "none" THEN "in" ELSE row
    [] OTHER        -> IF row = "none" THEN row ELSE "left"

CommitMember(r) ==
  LET q == req[r]
      row == member[q.thread][q.who]
  IN
  /\ q \in MemberRequest
  /\ member' = [member EXCEPT ![q.thread][q.who] = Membership(q.op, row)]
  /\ snap' = IF q.op = "watch" /\ row # "in" THEN Restarted(q.thread) ELSE snap
  /\ Finish(r)
  /\ UNCHANGED <<status, raised, live, derived, decided, report, audit, facts>>

CommitOutcome(r) ==
  /\ req[r] \in OutcomeRequest
  /\ decided' = decided \cup {req[r].thread}
  /\ Finish(r)
  /\ UNCHANGED <<status, raised, live, derived, member, report, audit, facts, snap>>

\* The transaction threw: its retries ran out, or a check inside it failed.
Rollback(r) ==
  /\ req[r] # Idle
  /\ snap' = [snap EXCEPT ![r] = NoSnapshot]
  /\ Finish(r)
  /\ UNCHANGED rows

-----------------------------------------------------------------------------

Nobody == [stayed |-> {}, met |-> {}]

\* Threads are created open with their creator as a participant.
Init ==
  /\ status = [t \in Threads |-> "open"]
  /\ raised = [t \in Threads |-> {}]
  /\ live = [t \in Threads |-> Messages]
  /\ derived = [t \in Threads |-> Derived(Messages)]
  /\ decided = {}
  /\ member = [t \in Threads |-> [p \in Principals |->
                                    IF p = Creator[t] THEN "in" ELSE "none"]]
  /\ report = [k \in ReportKeys |-> "none"]
  /\ audit = <<>>
  /\ facts = {}
  /\ req = [r \in Requests |-> Idle]
  /\ snap = [r \in Requests |-> NoSnapshot]
  /\ around = [r \in Requests |-> Nobody]

Step ==
  \/ Accept
  \/ \E r \in Requests :
       \/ Begin(r)
       \/ CommitStatus(r)
       \/ CommitFlags(r)
       \/ CommitDeleteMessage(r)
       \/ CommitHandle(r)
       \/ CommitReport(r)
       \/ CommitMember(r)
       \/ CommitOutcome(r)
       \/ Rollback(r)

\* The history of a handler that fans out starts with its reads and follows
\* every later step.
Observe ==
  around' = [r \in Requests |->
    LET q    == req'[r]
        here == Active(member', q.thread)
    IN  IF ~FansOut(q) THEN Nobody
        ELSE IF req[r] = q
        THEN [stayed |-> around[r].stayed \cap here, met |-> around[r].met \cup here]
        ELSE [stayed |-> here, met |-> here]]

Next == Step /\ Observe

Spec == Init /\ [][Next]_vars

-----------------------------------------------------------------------------
(* Properties. *)

\* Every variable keeps its type: rows hold values of their columns, and a
\* handler carries only what its operation reads.
TypeOK ==
  /\ status \in [Threads -> Statuses]
  /\ raised \in [Threads -> SUBSET Flags]
  /\ live \in [Threads -> SUBSET Messages]
  /\ derived \in [Threads -> [count: Nat, last: Messages \cup {0}]]
  /\ decided \subseteq Threads
  /\ member \in [Threads -> [Principals -> {"none", "in", "left"}]]
  /\ report \in [ReportKeys -> ReportStatuses]
  /\ audit \in Seq(AuditEvent)
  /\ facts \subseteq Fact
  /\ req \in [Requests -> Pending \cup {Idle}]
  /\ snap \in [Requests -> [begun: BOOLEAN, sees: SUBSET Principals]]
  /\ around \in [Requests -> [stayed: SUBSET Principals, met: SUBSET Principals]]

\* The first n records of the log say that thread t has status s: the last of
\* them that moves t moves it to s, or none moves it and s is the initial one.
Explains(log, n, s, t) ==
  \/ s = "open" /\ \A i \in 1 .. n : ~SetsStatus(log[i], t)
  \/ \E i \in 1 .. n :
       /\ SetsStatus(log[i], t) /\ log[i].to = s
       /\ \A j \in i + 1 .. n : ~SetsStatus(log[j], t)

\* The audit log always accounts for the status of every thread, whichever of
\* the seven writers moved it and however their transactions interleaved
\* (governance.ts: no governance action succeeds unrecorded).
StatusExplained == \A t \in Threads : Explains(audit, Len(audit), status[t], t)

\* Every recorded status action is one the state machine allows from the
\* status it records, made by a moderator or, for resolve, by the creator:
\* whatever happened meanwhile, the log never shows an illegal transition.
RecordedTransitionsLegal ==
  \A i \in 1 .. Len(audit) : LET e == audit[i] IN
    e.type \in StatusActions =>
      /\ LegalTransition(e.type, e.from) /\ e.to = Target(e.type)
      /\ Governs(e.actor) \/ (e.type = "resolve" /\ e.actor = Creator[e.thread])

\* Record k of the log is of a status action whose thread another record moved
\* between its handler's read and its commit.
Raced(log, k) ==
  /\ log[k].type \in StatusActions
  /\ \E j \in log[k].seenAt + 1 .. k - 1 : SetsStatus(log[j], log[k].thread)

\* The recorded "from" is where the thread really was, unless another record
\* moved the thread after the handler read it: a wrong audit trail and an
\* illegal move can only come from a race between a read and a commit.
ChainUnlessRaced ==
  \A k \in 1 .. Len(audit) : LET e == audit[k] IN
    e.type \in StatusActions =>
      Raced(audit, k) \/ Explains(audit, k - 1, e.from, e.thread)

Resolves(e, t) == e.type = "resolve" /\ e.thread = t

\* A thread is resolved a second time only if, after the first time, a status
\* action was committed on it that had been raced: the second resolve itself,
\* or one that brought the thread back.  Every path around the check of the
\* status that is not a race would break it, however many records long.
FinalizedOnceUnlessRaced ==
  \A t \in Threads : \A i, k \in 1 .. Len(audit) :
    i < k /\ Resolves(audit[i], t) /\ Resolves(audit[k], t) =>
      \E j \in i + 1 .. k : audit[j].thread = t /\ Raced(audit, j)

\* Deleting a thread through a report never hits a thread that is already
\* deleted, whatever was committed since the report was read: the status is
\* read again inside the transaction.
CascadeOnLiveThread ==
  \A k \in 1 .. Len(audit) : LET e == audit[k] IN
    \A t \in Threads : e.type = "report.handle" /\ SetsStatus(e, t) =>
                         ~Explains(audit, k - 1, "deleted", t)

\* A notification fact comes from a record of the log about the fact's thread,
\* never goes to the one who acted, goes to nobody but the reporter when a
\* report is handled, and (recipient, event) identifies it.
FactsSound ==
  /\ \A f \in facts :
       /\ f.event \in 1 .. Len(audit)
       /\ LET e == audit[f.event] IN
            /\ f.to # e.actor
            /\ IF e.type = "report.handle"
               THEN f.to = e.report[3] /\ f.thread = e.report[1]
               ELSE e.type \in StatusActions \cup {"deleteMessage"} /\ f.thread = e.thread
  /\ \A f, g \in facts : f.to = g.to /\ f.event = g.event => f = g

\* A status action, or a message deleted by its own route, tells everyone who
\* has been in the thread ever since its handler read the rows, and nobody who
\* was not there at some time since, the one who acted aside.  Those who come
\* or go meanwhile may be told or not: the snapshot decides.  (A report handled
\* by deleting tells the reporter alone, whatever it deletes.)
WatchersNotified ==
  [][\A r \in Requests :
       FansOut(req[r]) /\ req'[r] = Idle /\ Len(audit') > Len(audit) =>
         LET told == {f.to : f \in {g \in facts' : g.event = Len(audit')}} IN
           /\ around[r].stayed \ {req[r].actor} \subseteq told
           /\ told \subseteq around[r].met \ {req[r].actor}]_vars

\* messageCount and lastMessageAt always describe the visible messages, both
\* deletion paths and repeated deletions of one message included.
DerivedRepaired == \A t \in Threads : derived[t] = Derived(live[t])

\* A thread is never resolved without an outcome.
ResolutionsHaveOutcome ==
  \A t \in Threads : status[t] = "resolved" => t \in decided

HandlesReport(e, k) == e.type = "report.handle" /\ e.report = k

\* Report k is unhandled and the log has no record of handling it, or stands as
\* the last record of handling it says.
Accounted(k) ==
  \/ /\ report[k] \in {"none", "pending"}
     /\ \A i \in 1 .. Len(audit) : ~HandlesReport(audit[i], k)
  \/ /\ report[k] \notin {"none", "pending"}
     /\ \E i \in 1 .. Len(audit) :
          /\ HandlesReport(audit[i], k) /\ audit[i].to = report[k]
          /\ \A j \in i + 1 .. Len(audit) : ~HandlesReport(audit[j], k)

\* The audit log always accounts for the state of every report, of a thread or
\* of a message, through both deletions and moderators racing to handle it with
\* different answers: the last record of handling it is what it says.
ReportExplained == \A k \in ReportKeys : Accounted(k)

\* A report is handled a second time only by a handler that had read it before
\* the first handling was committed.  That does happen: ignoring, warning, and
\* deleting a message check nothing again inside the transaction.
RehandledOnlyByRace ==
  \A i, k \in 1 .. Len(audit) : \A n \in ReportKeys :
    i < k /\ HandlesReport(audit[i], n) /\ HandlesReport(audit[k], n)
      => audit[k].seenAt < i

\* What handler q remembers is true of the log it read, of which log is a
\* continuation.
Sound(log, q) ==
  /\ q \in StatusRequest =>
       /\ q.seenAt <= Len(log)
       /\ Explains(log, q.seenAt, q.seen, q.thread)
       /\ LegalTransition(q.op, q.seen)
       /\ Governs(q.actor) \/ (q.op = "resolve" /\ q.actor = Creator[q.thread])
  /\ q \in HandleRequest =>
       /\ q.seenAt <= Len(log)
       /\ \A i \in 1 .. q.seenAt : ~HandlesReport(log[i], q.key)

\* What a running handler remembers was true when it read it, and its guards
\* held then: a status handler carries the status the log gave the thread at
\* that moment, from which its action is legal for its caller, and a moderator
\* handling a report carries one that had not been handled.
InFlightSound == \A r \in Requests : Sound(audit, req[r])

\* The statuses and the log together behave as the ledger of AuditLedger:
\* a status moves with exactly one record, and the log is append-only.
Ledger == INSTANCE AuditLedger
LedgerSpec == Ledger!LedgerSpec

\* At most one finalization of a thread is ever committed, whatever attempts
\* are made at once (CTR-FINAL-004 of the core invariants).
FinalizedOnce ==
  \A t \in Threads : \A i, k \in 1 .. Len(audit) :
    Resolves(audit[i], t) /\ Resolves(audit[k], t) => i = k

\* A deleted thread stays deleted (governance.ts: "deleted is terminal").
DeletedIsTerminal ==
  [][\A t \in Threads : status[t] = "deleted" => status'[t] = "deleted"]_vars

\* Every change of a status is a transition of the state machine from the
\* status the thread really has, and is recorded with that status.
StatusStepsLegal ==
  [][\A t \in Threads : status'[t] # status[t] =>
       LET e == audit'[Len(audit')] IN
         \E a \in StatusActions :
           /\ LegalTransition(a, status[t]) /\ status'[t] = Target(a)
           /\ e.type = "report.handle" \/ (e.type = a /\ e.from = status[t])]_vars

\* "A flag can never flip unrecorded" (threads.ts, the PATCH route): whenever a
\* flag changes, a record of that change is appended in the same step.
FlagFlipsRecorded ==
  [][\A t \in Threads : \A f \in Flags :
       (f \in raised'[t]) # (f \in raised[t]) =>
         \E i \in Len(audit) + 1 .. Len(audit') :
           /\ audit'[i].thread = t
           /\ audit'[i].type = CASE f = "pinned" /\ f \in raised'[t]      -> "pin"
                                 [] f = "pinned" /\ f \notin raised'[t]   -> "unpin"
                                 [] f = "featured" /\ f \in raised'[t]    -> "feature"
                                 [] f = "featured" /\ f \notin raised'[t] -> "unfeature"
    ]_vars

\* A flag flips unrecorded only under a PATCH, or an endpoint, that had read it
\* with another value than it has when the handler commits.
FlagsUnlessRaced ==
  [][\A r \in Requests : \A f \in Flags :
       LET q == req[r] IN
         /\ q.op \in FlagOps /\ req'[r] = Idle
         /\ (f \in raised'[q.thread]) # (f \in raised[q.thread])
         /\ (f \in q.seen) = (f \in raised[q.thread])
         => \E i \in Len(audit) + 1 .. Len(audit') :
              audit'[i] = FlagEvent(f, q)]_vars

\* A report is handled at most once (routes/reports.ts answers 409, "Report
\* already handled", to the second moderator).
HandledOnce ==
  \A i, k \in 1 .. Len(audit) : \A n \in ReportKeys :
    HandlesReport(audit[i], n) /\ HandlesReport(audit[k], n) => i = k

=============================================================================
