--------------------------- MODULE GovernanceProofs --------------------------
(***************************************************************************)
(* Theorems about Governance, for any threads, principals, messages and    *)
(* request slots, and any bound on the log.                                *)
(*                                                                         *)
(* The argument.  A status is explained by the log (StatusExplained) and   *)
(* so is a report (ReportExplained), so what a handler reads is explained  *)
(* by the log as it was then; the log only grows at its end, so it still   *)
(* is when the handler commits (InFlightSound).  These with TypeOK are     *)
(* inductive; what the log itself records follows, and what is written     *)
(* with a record: columns, outcomes, flags and notification facts.         *)
(***************************************************************************)
EXTENDS Governance, FiniteSetTheorems, TLAPS

-----------------------------------------------------------------------------
(* Lemmas about the operators. *)

LEMMA TargetType == \A a \in StatusActions : Target(a) \in Statuses
  BY DEF StatusActions, LifecycleActions, Target, Statuses

LEMMA HandledType ==
  \A op \in HandleOps : Handled(op) \in {"ignored", "warned", "deleted"}
  BY DEF HandleOps, Handled

LEMMA DerivedType ==
  ASSUME NEW shown \in SUBSET Messages
  PROVE  Derived(shown) \in [count: Nat, last: Messages \cup {0}]
<1>1. IsFiniteSet(shown)
  BY FS_Subset, GovernanceAssumption DEF GovernanceAssumption
<1>2. Cardinality(shown) \in Nat
  BY <1>1, FS_CardinalityType
<1>3. Latest(shown) # {} => (CHOOSE m \in Latest(shown) : TRUE) \in Messages
  BY DEF Latest
<1>4. QED
  BY <1>2, <1>3 DEF Derived

\* The four kinds of record a transaction appends are audit events.
LEMMA StatusEventType ==
  ASSUME NEW q \in StatusRequest PROVE StatusEvent(q) \in AuditEvent
  BY TargetType DEF StatusRequest, StatusEvent, AuditEvent, EventTypes, NoReport

LEMMA FlagEventType ==
  ASSUME NEW q \in FlagRequest, NEW f \in Flags
  PROVE  FlagEvent(f, q) \in AuditEvent
  BY DEF FlagRequest, FlagEvent, AuditEvent, EventTypes, NoReport, Flags

LEMMA MessageEventType ==
  ASSUME NEW q \in MessageRequest PROVE MessageEvent(q) \in AuditEvent
  BY DEF MessageRequest, MessageEvent, AuditEvent, EventTypes, NoReport

LEMMA HandleEventType ==
  ASSUME NEW q \in HandleRequest PROVE HandleEvent(q) \in AuditEvent
<1>1. Handled(q.op) \in Statuses \cup {"ignored", "warned", "none"}
  BY HandledType DEF HandleRequest, Statuses
<1>2. q.key[1] \in Threads
  BY DEF HandleRequest, ReportKeys
<1>3. QED
  BY <1>1, <1>2 DEF HandleRequest, HandleEvent, AuditEvent, EventTypes

-----------------------------------------------------------------------------
(* Lemmas about Explains: it looks at the first n records only, and a       *)
(* stretch of records that leave a thread alone does not change it.         *)

LEMMA ExplainsPrefix ==
  ASSUME NEW old, NEW new, NEW n \in Nat, NEW s, NEW t,
         \A i \in 1 .. n : new[i] = old[i],
         Explains(old, n, s, t)
  PROVE  Explains(new, n, s, t)
  BY DEF Explains

LEMMA ExplainsQuiet ==
  ASSUME NEW log, NEW m \in Nat, NEW n \in Nat, m <= n, NEW s, NEW t,
         \A i \in m + 1 .. n : ~SetsStatus(log[i], t),
         Explains(log, m, s, t)
  PROVE  Explains(log, n, s, t)
  BY DEF Explains

LEMMA ExplainsMove ==
  ASSUME NEW log, NEW n \in Nat, NEW t, SetsStatus(log[n + 1], t)
  PROVE  Explains(log, n + 1, log[n + 1].to, t)
  BY DEF Explains

-----------------------------------------------------------------------------
(* How a step extends the log. *)

Grows ==
  /\ Len(audit') >= Len(audit)
  /\ \A i \in 1 .. Len(audit) : audit'[i] = audit[i]

\* Records that move no thread and handle no report.
Quiet ==
  \A i \in Len(audit) + 1 .. Len(audit') :
    /\ audit'[i].type \notin StatusActions \cup {"report.handle"}
    /\ \A t \in Threads : ~SetsStatus(audit'[i], t)
    /\ \A k \in ReportKeys : ~HandlesReport(audit'[i], k)

LEMMA AppendGrows ==
  ASSUME audit \in Seq(AuditEvent), NEW e \in AuditEvent,
         audit' = AppendAudit(audit, e)
  PROVE  /\ audit' \in Seq(AuditEvent)
         /\ Grows
         /\ Len(audit') = Len(audit) + 1
         /\ audit'[Len(audit) + 1] = e
  BY DEF AppendAudit, Grows

LEMMA NoRecordGrows ==
  ASSUME audit \in Seq(AuditEvent), UNCHANGED audit
  PROVE  Grows /\ Quiet
  BY DEF Grows, Quiet

\* A flag handler appends at most two records, all of them quiet.
LEMMA FlagsGrow ==
  ASSUME audit \in Seq(AuditEvent), NEW r \in Requests, CommitFlags(r)
  PROVE  audit' \in Seq(AuditEvent) /\ Grows /\ Quiet
<1> DEFINE q == req[r]
           e1 == FlagEvent("pinned", q)
           e2 == FlagEvent("featured", q)
<1>1. q \in FlagRequest
  BY DEF CommitFlags
<1>2. e1 \in AuditEvent /\ e2 \in AuditEvent
  BY <1>1, FlagEventType DEF Flags
<1>3. \A e \in {e1, e2} :
        /\ e.type \in {"pin", "unpin", "feature", "unfeature"}
  BY DEF FlagEvent
<1>4. \/ audit' = audit
      \/ \E e \in {e1, e2} : audit' = Append(audit, e)
      \/ audit' = Append(Append(audit, e1), e2)
  BY DEF CommitFlags, AppendIf
<1> HIDE DEF q, e1, e2
<1>5. audit' \in Seq(AuditEvent) /\ Grows
  BY <1>2, <1>4 DEF Grows
<1>6. \A i \in Len(audit) + 1 .. Len(audit') : audit'[i] \in {e1, e2}
  BY <1>2, <1>4
<1>7. Quiet
  BY <1>3, <1>6 DEF Quiet, SetsStatus, HandlesReport, StatusActions, LifecycleActions
<1>8. QED
  BY <1>5, <1>7

-----------------------------------------------------------------------------
(* Step one: whatever handler starts, what it remembers is typed and sound. *)

IInv == TypeOK /\ StatusExplained /\ ReportExplained /\ InFlightSound

LEMMA StatusRequestSound ==
  ASSUME TypeOK, StatusExplained, NEW p \in Principals, NEW t \in Threads,
         NEW a \in StatusActions, LegalTransition(a, status[t]),
         Governs(p) \/ (a = "resolve" /\ p = Creator[t]),
         NEW q, q = [op |-> a, actor |-> p, thread |-> t, seen |-> status[t],
                     seenAt |-> Len(audit)]
  PROVE  q \in Pending /\ Sound(audit, q)
<1>1. Len(audit) \in Nat /\ status[t] \in Statuses
  BY DEF TypeOK
<1>2. q \in StatusRequest
  BY <1>1 DEF StatusRequest
<1>3. q \notin HandleRequest
  BY DEF HandleRequest, HandleOps, StatusActions, LifecycleActions
<1>4. Explains(audit, q.seenAt, q.seen, q.thread)
  BY DEF StatusExplained
<1>5. QED
  BY <1>1, <1>2, <1>3, <1>4 DEF Sound, Pending

LEMMA HandleRequestSound ==
  ASSUME TypeOK, ReportExplained, NEW p \in Principals, NEW k \in ReportKeys,
         NEW op \in HandleOps, report[k] = "pending",
         NEW q, q = [op |-> op, actor |-> p, key |-> k, seenAt |-> Len(audit)]
  PROVE  q \in Pending /\ Sound(audit, q)
<1>1. Len(audit) \in Nat
  BY DEF TypeOK
<1>2. q \in HandleRequest
  BY <1>1 DEF HandleRequest
<1>3. q \notin StatusRequest
  BY DEF StatusRequest, HandleOps, StatusActions, LifecycleActions
<1>4. \A i \in 1 .. q.seenAt : ~HandlesReport(audit[i], q.key)
  BY DEF ReportExplained, Accounted
<1>5. QED
  BY <1>1, <1>2, <1>3, <1>4 DEF Sound, Pending

\* The other requests carry nothing that Sound speaks of.
LEMMA OtherRequestSound ==
  ASSUME NEW q \in FlagRequest \cup MessageRequest \cup ReportRequest
                      \cup MemberRequest \cup OutcomeRequest
  PROVE  q \in Pending /\ Sound(audit, q)
<1>1. q.op \notin StatusActions \cup HandleOps
  BY DEF FlagRequest, MessageRequest, ReportRequest, MemberRequest, OutcomeRequest,
         FlagOps, MemberOps, HandleOps, StatusActions, LifecycleActions
<1>2. q \notin StatusRequest /\ q \notin HandleRequest
  BY <1>1 DEF StatusRequest, HandleRequest
<1>3. QED
  BY <1>2 DEF Sound, Pending

LEMMA AcceptStep ==
  ASSUME IInv, Accept
  PROVE  /\ UNCHANGED rows /\ UNCHANGED snap
         /\ \E r \in Requests, q \in Pending :
              Sound(audit, q) /\ req[r] = Idle /\ req' = [req EXCEPT ![r] = q]
<1> DEFINE Started == \E r \in Requests, q \in Pending :
                         /\ Sound(audit, q) /\ req[r] = Idle
                         /\ req' = [req EXCEPT ![r] = q]
<1> USE DEF IInv
<1>1. ASSUME NEW r \in Requests, NEW q \in Pending, Sound(audit, q), Remember(r, q)
      PROVE  Started
  BY <1>1 DEF Remember
<1>2. PICK r \in Requests :
       \/ \E p \in Principals, t \in Threads :
            \/ \E a \in LifecycleActions : AcceptLifecycle(r, p, t, a)
            \/ AcceptSoftDelete(r, p, t)
            \/ AcceptResolve(r, p, t)
            \/ \E f \in Flags : AcceptFlag(r, p, t, f)
            \/ \E on, off \in SUBSET Flags : AcceptPatch(r, p, t, on, off)
            \/ \E m \in Messages : AcceptDeleteMessage(r, p, t, m)
            \/ \E op \in MemberOps, who \in Principals : AcceptMember(r, p, t, op, who)
            \/ AcceptOutcome(r, p, t)
       \/ \E k \in ReportKeys : AcceptReport(r, k)
       \/ \E p \in Principals, k \in ReportKeys, op \in HandleOps :
            AcceptHandle(r, p, k, op)
  BY DEF Accept
<1>3. ASSUME NEW p \in Principals, NEW t \in Threads, NEW a \in LifecycleActions,
             AcceptLifecycle(r, p, t, a)
      PROVE  Started
  <2>1. a \in StatusActions /\ Governs(p)
    BY <1>3 DEF AcceptLifecycle, StatusActions, Governs
  <2>2. QED
    BY <1>1, <1>3, <2>1, StatusRequestSound DEF AcceptLifecycle
<1>4. ASSUME NEW p \in Principals, NEW t \in Threads, AcceptSoftDelete(r, p, t)
      PROVE  Started
  <2>1. "softDelete" \in StatusActions /\ Governs(p)
    BY <1>4 DEF AcceptSoftDelete, StatusActions, Governs
  <2>2. QED
    BY <1>1, <1>4, <2>1, StatusRequestSound DEF AcceptSoftDelete
<1>5. ASSUME NEW p \in Principals, NEW t \in Threads, AcceptResolve(r, p, t)
      PROVE  Started
  <2>1. "resolve" \in StatusActions
    BY DEF StatusActions
  <2>2. QED
    BY <1>1, <1>5, <2>1, StatusRequestSound DEF AcceptResolve
<1>6. ASSUME NEW p \in Principals, NEW t \in Threads, NEW f \in Flags,
             AcceptFlag(r, p, t, f)
      PROVE  Started
  <2> DEFINE q == [op |-> "flag", actor |-> p, thread |-> t,
                   on   |-> IF f \in raised[t] THEN {} ELSE {f},
                   off  |-> IF f \in raised[t] THEN {f} ELSE {},
                   seen |-> raised[t]]
  <2>1. q \in FlagRequest
    BY DEF TypeOK, FlagRequest, FlagOps
  <2>2. QED
    BY <1>1, <1>6, <2>1, OtherRequestSound DEF AcceptFlag
<1>7. ASSUME NEW p \in Principals, NEW t \in Threads,
             NEW on \in SUBSET Flags, NEW off \in SUBSET Flags,
             AcceptPatch(r, p, t, on, off)
      PROVE  Started
  <2> DEFINE q == [op |-> "patch", actor |-> p, thread |-> t,
                   on |-> on, off |-> off, seen |-> raised[t]]
  <2>1. q \in FlagRequest
    BY DEF TypeOK, FlagRequest, FlagOps
  <2>2. QED
    BY <1>1, <1>7, <2>1, OtherRequestSound DEF AcceptPatch
<1>8. ASSUME NEW p \in Principals, NEW t \in Threads, NEW m \in Messages,
             AcceptDeleteMessage(r, p, t, m)
      PROVE  Started
  <2> DEFINE q == [op |-> "deleteMessage", actor |-> p, thread |-> t, message |-> m]
  <2>1. q \in MessageRequest
    BY DEF MessageRequest
  <2>2. QED
    BY <1>1, <1>8, <2>1, OtherRequestSound DEF AcceptDeleteMessage
<1>9. ASSUME NEW p \in Principals, NEW t \in Threads, NEW op \in MemberOps,
             NEW who \in Principals, AcceptMember(r, p, t, op, who)
      PROVE  Started
  <2> DEFINE q == [op |-> op, actor |-> p, thread |-> t, who |-> who]
  <2>1. q \in MemberRequest
    BY DEF MemberRequest
  <2>2. QED
    BY <1>1, <1>9, <2>1, OtherRequestSound DEF AcceptMember
<1>10. ASSUME NEW p \in Principals, NEW t \in Threads, AcceptOutcome(r, p, t)
       PROVE  Started
  <2> DEFINE q == [op |-> "outcome", actor |-> p, thread |-> t]
  <2>1. q \in OutcomeRequest
    BY DEF OutcomeRequest
  <2>2. QED
    BY <1>1, <1>10, <2>1, OtherRequestSound DEF AcceptOutcome
<1>11. ASSUME NEW k \in ReportKeys, AcceptReport(r, k)
       PROVE  Started
  <2> DEFINE q == [op |-> "report", key |-> k]
  <2>1. q \in ReportRequest
    BY DEF ReportRequest
  <2>2. QED
    BY <1>1, <1>11, <2>1, OtherRequestSound DEF AcceptReport
<1>12. ASSUME NEW p \in Principals, NEW k \in ReportKeys, NEW op \in HandleOps,
              AcceptHandle(r, p, k, op)
       PROVE  Started
  BY <1>1, <1>12, HandleRequestSound DEF AcceptHandle
<1>13. Started
  BY <1>2, <1>3, <1>4, <1>5, <1>6, <1>7, <1>8, <1>9, <1>10, <1>11, <1>12
<1>14. UNCHANGED rows /\ UNCHANGED snap
  BY DEF Accept
<1>15. QED
  BY <1>13, <1>14

-----------------------------------------------------------------------------
(* Step two: types. *)

LEMMA FanOutType ==
  ASSUME TypeOK, NEW q, q.thread \in Threads, NEW r \in Requests,
         NEW n \in Nat \ {0}, NEW reason \in {"thread_notice", "moderator_notice"}
  PROVE  FanOut(q, snap[r].sees, n, reason) \subseteq Fact
<1>1. snap[r].sees \subseteq Principals
  BY DEF TypeOK
<1>2. QED
  BY <1>1 DEF FanOut, Fact

LEMMA RestartedType ==
  ASSUME TypeOK, NEW t
  PROVE  Restarted(t) \in [Requests -> [begun: BOOLEAN, sees: SUBSET Principals]]
  BY DEF TypeOK, Restarted, NoSnapshot

LEMMA ObserveType ==
  ASSUME TypeOK, Observe
  PROVE  around' \in [Requests -> [stayed: SUBSET Principals, met: SUBSET Principals]]
<1> DEFINE Kind == [stayed: SUBSET Principals, met: SUBSET Principals]
           After(r) ==
             LET q    == req'[r]
                 here == Active(member', q.thread)
             IN  IF ~FansOut(q) THEN Nobody
                 ELSE IF req[r] = q
                 THEN [stayed |-> around[r].stayed \cap here,
                       met |-> around[r].met \cup here]
                 ELSE [stayed |-> here, met |-> here]
<1>1. \A rowsOf, t : Active(rowsOf, t) \in SUBSET Principals
  BY DEF Active
<1>2. ASSUME NEW r \in Requests PROVE After(r) \in Kind
  <2>1. around[r].stayed \in SUBSET Principals /\ around[r].met \in SUBSET Principals
    BY DEF TypeOK
  <2>2. Active(member', req'[r].thread) \in SUBSET Principals
    BY <1>1
  <2> HIDE DEF Kind
  <2>3. \A a, b \in SUBSET Principals : [stayed |-> a, met |-> b] \in Kind
    BY DEF Kind
  <2>4. QED
    BY <2>1, <2>2, <2>3 DEF Nobody
<1>3. around' = [r \in Requests |-> After(r)]
  BY DEF Observe
<1> HIDE DEF After
<1>4. QED
  BY <1>2, <1>3

LEMMA NoticeReasonType ==
  \A op : NoticeReason(op) \in {"thread_notice", "moderator_notice"}
  BY DEF NoticeReason

LEMMA ReporterNoticeType ==
  ASSUME NEW q \in HandleRequest, NEW n \in Nat \ {0}
  PROVE  ReporterNotice(q, n) \subseteq Fact
<1>1. q.key[1] \in Threads /\ q.key[3] \in Principals
  BY DEF HandleRequest, ReportKeys
<1>2. QED
  BY <1>1 DEF ReporterNotice, Fact

LEMMA FinishType ==
  ASSUME TypeOK, NEW r \in Requests, Finish(r)
  PROVE  req' \in [Requests -> Pending \cup {Idle}]
  BY DEF TypeOK, Finish

LEMMA TombstoneType ==
  ASSUME TypeOK, NEW t \in Threads, NEW m, Tombstone(t, m)
  PROVE  /\ live' \in [Threads -> SUBSET Messages]
         /\ derived' \in [Threads -> [count: Nat, last: Messages \cup {0}]]
<1>1. live[t] \ {m} \in SUBSET Messages
  BY DEF TypeOK
<1>2. Derived(live[t] \ {m}) \in [count: Nat, last: Messages \cup {0}]
  BY <1>1, DerivedType
<1>3. QED
  BY <1>1, <1>2 DEF TypeOK, Tombstone

LEMMA StatusTypes ==
  ASSUME TypeOK, Observe, NEW r \in Requests, CommitStatus(r) PROVE TypeOK'
<1> DEFINE q == req[r]
<1>1. q \in StatusRequest /\ q.thread \in Threads /\ q.op \in StatusActions
  BY DEF CommitStatus, StatusRequest
<1>2. audit' \in Seq(AuditEvent)
  BY <1>1, StatusEventType, AppendGrows DEF CommitStatus, TypeOK
<1>3. status' \in [Threads -> Statuses]
  BY <1>1, TargetType DEF CommitStatus, TypeOK
<1>4. decided' \subseteq Threads
  BY <1>1 DEF CommitStatus, WithOutcome, TypeOK
<1>5. Len(audit) + 1 \in Nat \ {0}
  BY DEF TypeOK
<1>6. facts' \subseteq Fact
  BY <1>1, <1>5, FanOutType, NoticeReasonType DEF CommitStatus, TypeOK
<1>7. req' \in [Requests -> Pending \cup {Idle}]
  BY FinishType DEF CommitStatus
<1>8. snap' \in [Requests -> [begun: BOOLEAN, sees: SUBSET Principals]]
  BY RestartedType DEF CommitStatus
<1>9. QED
  BY <1>2, <1>3, <1>4, <1>6, <1>7, <1>8, ObserveType DEF CommitStatus, TypeOK

LEMMA FlagTypes ==
  ASSUME TypeOK, Observe, NEW r \in Requests, CommitFlags(r) PROVE TypeOK'
<1>1. audit' \in Seq(AuditEvent)
  BY FlagsGrow DEF TypeOK
<1>2. req[r].on \in SUBSET Flags /\ req[r].thread \in Threads
  BY DEF CommitFlags, FlagRequest
<1>3. raised' \in [Threads -> SUBSET Flags]
  BY <1>2 DEF CommitFlags, TypeOK
<1>4. req' \in [Requests -> Pending \cup {Idle}]
  BY FinishType DEF CommitFlags
<1>5. snap' \in [Requests -> [begun: BOOLEAN, sees: SUBSET Principals]]
  BY RestartedType DEF CommitFlags
<1>6. QED
  BY <1>1, <1>3, <1>4, <1>5, ObserveType DEF CommitFlags, TypeOK

LEMMA DeleteMessageTypes ==
  ASSUME TypeOK, Observe, NEW r \in Requests, CommitDeleteMessage(r) PROVE TypeOK'
<1> DEFINE q == req[r]
<1>1. q \in MessageRequest /\ q.thread \in Threads
  BY DEF CommitDeleteMessage, MessageRequest
<1>2. audit' \in Seq(AuditEvent)
  BY <1>1, MessageEventType, AppendGrows DEF CommitDeleteMessage, TypeOK
<1>3. /\ live' \in [Threads -> SUBSET Messages]
      /\ derived' \in [Threads -> [count: Nat, last: Messages \cup {0}]]
  BY <1>1, TombstoneType DEF CommitDeleteMessage
<1>4. Len(audit) + 1 \in Nat \ {0}
  BY DEF TypeOK
<1>5. facts' \subseteq Fact
  BY <1>1, <1>4, FanOutType, NoticeReasonType DEF CommitDeleteMessage, TypeOK
<1>6. req' \in [Requests -> Pending \cup {Idle}]
  BY FinishType DEF CommitDeleteMessage
<1>7. snap' \in [Requests -> [begun: BOOLEAN, sees: SUBSET Principals]]
  BY RestartedType DEF CommitDeleteMessage
<1>8. QED
  BY <1>2, <1>3, <1>5, <1>6, <1>7, ObserveType DEF CommitDeleteMessage, TypeOK

LEMMA HandleTypes ==
  ASSUME TypeOK, Observe, NEW r \in Requests, CommitHandle(r) PROVE TypeOK'
<1> DEFINE q == req[r]
<1>1. q \in HandleRequest /\ q.key \in ReportKeys /\ q.key[1] \in Threads
  BY DEF CommitHandle, HandleRequest, ReportKeys
<1>2. audit' \in Seq(AuditEvent)
  BY <1>1, HandleEventType, AppendGrows DEF CommitHandle, TypeOK
<1>3. /\ live' \in [Threads -> SUBSET Messages]
      /\ derived' \in [Threads -> [count: Nat, last: Messages \cup {0}]]
  BY <1>1, TombstoneType DEF CommitHandle, TypeOK
<1>4. status' \in [Threads -> Statuses]
  BY <1>1 DEF CommitHandle, TypeOK, Statuses
<1>5. Handled(q.op) \in ReportStatuses
  BY <1>1, HandledType DEF HandleRequest, ReportStatuses
<1>6. report' \in [ReportKeys -> ReportStatuses]
  BY <1>1, <1>5 DEF CommitHandle, TypeOK
<1>7. Len(audit) + 1 \in Nat \ {0}
  BY DEF TypeOK
<1>8. facts' \subseteq Fact
  BY <1>1, <1>7, ReporterNoticeType DEF CommitHandle, TypeOK
<1>9. req' \in [Requests -> Pending \cup {Idle}]
  BY FinishType DEF CommitHandle
<1>10. snap' \in [Requests -> [begun: BOOLEAN, sees: SUBSET Principals]]
  BY RestartedType DEF CommitHandle, TypeOK
<1>11. QED
  BY <1>2, <1>3, <1>4, <1>6, <1>8, <1>9, <1>10, ObserveType DEF CommitHandle, TypeOK

LEMMA OtherTypes ==
  ASSUME TypeOK, Observe, NEW r \in Requests,
         \/ Begin(r) \/ CommitReport(r) \/ CommitMember(r)
         \/ CommitOutcome(r) \/ Rollback(r)
  PROVE  TypeOK'
<1>1. ~Begin(r) => req' \in [Requests -> Pending \cup {Idle}]
  BY FinishType DEF CommitReport, CommitMember, CommitOutcome, Rollback
<1>2. around' \in [Requests -> [stayed: SUBSET Principals, met: SUBSET Principals]]
  BY ObserveType
<1>3. CASE Begin(r)
  <2>1. Active(member, req[r].thread) \subseteq Principals
    BY DEF Active
  <2>2. snap' \in [Requests -> [begun: BOOLEAN, sees: SUBSET Principals]]
    BY <1>3, <2>1 DEF Begin, TypeOK
  <2>3. QED
    BY <1>2, <1>3, <2>2 DEF Begin, rows, TypeOK
<1>4. CASE CommitReport(r) /\ ~Begin(r)
  <2>1. report' \in [ReportKeys -> ReportStatuses]
    BY <1>4 DEF CommitReport, TypeOK, ReportStatuses
  <2>2. QED
    BY <1>1, <1>2, <1>4, <2>1 DEF CommitReport, TypeOK
<1>5. CASE CommitMember(r) /\ ~Begin(r)
  <2> DEFINE q == req[r]
             row == member[q.thread][q.who]
  <2>1. q.who \in Principals /\ q.thread \in Threads
    BY <1>5 DEF CommitMember, MemberRequest
  <2>2. row \in {"none", "in", "left"}
    BY <2>1 DEF TypeOK
  <2>3. Membership(q.op, row) \in {"none", "in", "left"}
    BY <2>2 DEF Membership
  <2>4. member' = [member EXCEPT ![q.thread][q.who] = Membership(q.op, row)]
    BY <1>5 DEF CommitMember
  <2>5. member' \in [Threads -> [Principals -> {"none", "in", "left"}]]
    <3> HIDE DEF q, row
    <3>1. QED
      BY <2>1, <2>3, <2>4 DEF TypeOK
  <2>6. snap' \in [Requests -> [begun: BOOLEAN, sees: SUBSET Principals]]
    BY <1>5, RestartedType DEF CommitMember, TypeOK
  <2>7. QED
    BY <1>1, <1>2, <1>5, <2>5, <2>6 DEF CommitMember, TypeOK
<1>6. CASE CommitOutcome(r) /\ ~Begin(r)
  <2>1. req[r].thread \in Threads
    BY <1>6 DEF CommitOutcome, OutcomeRequest
  <2>2. decided' \subseteq Threads
    BY <1>6, <2>1 DEF CommitOutcome, TypeOK
  <2>3. QED
    BY <1>1, <1>2, <1>6, <2>2 DEF CommitOutcome, TypeOK
<1>7. CASE Rollback(r) /\ ~Begin(r)
  <2>1. snap' \in [Requests -> [begun: BOOLEAN, sees: SUBSET Principals]]
    BY <1>7 DEF Rollback, NoSnapshot, TypeOK
  <2>2. QED
    BY <1>1, <1>2, <1>7, <2>1 DEF Rollback, rows, TypeOK
<1>8. QED
  BY <1>3, <1>4, <1>5, <1>6, <1>7

-----------------------------------------------------------------------------
(* Step two: the log. *)

\* A status handler appends the one record that moves its thread.
LEMMA StatusLog ==
  ASSUME TypeOK, NEW r \in Requests, CommitStatus(r)
  PROVE  /\ req[r] \in StatusRequest
         /\ Grows /\ Len(audit') = Len(audit) + 1
         /\ audit'[Len(audit) + 1] = StatusEvent(req[r])
         /\ status' = [status EXCEPT ![req[r].thread] = Target(req[r].op)]
<1>1. req[r] \in StatusRequest
  BY DEF CommitStatus
<1>2. QED
  BY <1>1, StatusEventType, AppendGrows DEF CommitStatus, TypeOK

LEMMA HandleLog ==
  ASSUME TypeOK, NEW r \in Requests, CommitHandle(r)
  PROVE  /\ req[r] \in HandleRequest
         /\ Grows /\ Len(audit') = Len(audit) + 1
         /\ audit'[Len(audit) + 1] = HandleEvent(req[r])
<1>1. req[r] \in HandleRequest
  BY DEF CommitHandle
<1>2. QED
  BY <1>1, HandleEventType, AppendGrows DEF CommitHandle, TypeOK

LEMMA DeleteMessageLog ==
  ASSUME TypeOK, NEW r \in Requests, CommitDeleteMessage(r)
  PROVE  Grows /\ Quiet
<1>1. req[r] \in MessageRequest
  BY DEF CommitDeleteMessage
<1>2. /\ Grows /\ Len(audit') = Len(audit) + 1
      /\ audit'[Len(audit) + 1] = MessageEvent(req[r])
  BY <1>1, MessageEventType, AppendGrows DEF CommitDeleteMessage, TypeOK
<1>3. MessageEvent(req[r]).type \notin StatusActions \cup {"report.handle"}
  BY <1>1 DEF MessageEvent, MessageRequest, StatusActions, LifecycleActions
<1>4. Len(audit) \in Nat
  BY DEF TypeOK
<1>5. QED
  BY <1>2, <1>3, <1>4 DEF Quiet, SetsStatus, HandlesReport

\* Every other step leaves the statuses, and writes only quiet records.
Calm == Grows /\ Quiet /\ status' = status

LEMMA StepCases ==
  ASSUME IInv, [Next]_vars
  PROVE  \/ \E r \in Requests : CommitStatus(r)
         \/ \E r \in Requests : CommitHandle(r)
         \/ Calm /\ \/ report' = report
                    \/ \E r \in Requests : CommitReport(r)
<1> USE DEF IInv
<1>1. audit \in Seq(AuditEvent)
  BY DEF TypeOK
<1>2. CASE Accept
  BY <1>1, <1>2, AcceptStep, NoRecordGrows DEF rows, Calm
<1>3. ASSUME NEW r \in Requests, CommitFlags(r)
      PROVE  Calm /\ report' = report
  BY <1>1, <1>3, FlagsGrow DEF CommitFlags, Calm
<1>4. ASSUME NEW r \in Requests, CommitDeleteMessage(r)
      PROVE  Calm /\ report' = report
  BY <1>4, DeleteMessageLog DEF CommitDeleteMessage, Calm
<1>5. ASSUME NEW r \in Requests, CommitReport(r) PROVE Calm
  BY <1>1, <1>5, NoRecordGrows DEF CommitReport, Calm
<1>6. ASSUME NEW r \in Requests,
             Begin(r) \/ CommitMember(r) \/ CommitOutcome(r) \/ Rollback(r)
      PROVE  Calm /\ report' = report
  BY <1>1, <1>6, NoRecordGrows
     DEF Begin, CommitMember, CommitOutcome, Rollback, rows, Calm
<1>7. CASE UNCHANGED vars
  BY <1>1, <1>7, NoRecordGrows DEF vars, rows, Calm
<1>8. QED
  BY <1>2, <1>3, <1>4, <1>5, <1>6, <1>7 DEF Next, Step

LEMMA LogGrows ==
  ASSUME IInv, [Next]_vars PROVE Grows
  BY StepCases, StatusLog, HandleLog DEF IInv, Calm

-----------------------------------------------------------------------------
(* The inductive invariant. *)

LEMMA TypeStep ==
  ASSUME IInv, [Next]_vars PROVE TypeOK'
<1> USE DEF IInv
<1>1. CASE Accept /\ Observe
  <2>1. PICK r \in Requests, q \in Pending : req' = [req EXCEPT ![r] = q]
    BY <1>1, AcceptStep
  <2>2. req' \in [Requests -> Pending \cup {Idle}]
    BY <2>1 DEF TypeOK
  <2>3. UNCHANGED rows /\ UNCHANGED snap
    BY <1>1, AcceptStep
  <2>4. QED
    BY <1>1, <2>2, <2>3, ObserveType DEF TypeOK, rows
<1>2. CASE UNCHANGED vars
  BY <1>2 DEF vars, rows, TypeOK
<1>3. QED
  BY <1>1, <1>2, StatusTypes, FlagTypes, DeleteMessageTypes, HandleTypes, OtherTypes
     DEF Next, Step

\* A record about another thread, or none, leaves an explanation standing.
LEMMA CalmExplained ==
  ASSUME IInv, Grows, TypeOK', NEW t \in Threads, status'[t] = status[t],
         \A i \in Len(audit) + 1 .. Len(audit') : ~SetsStatus(audit'[i], t)
  PROVE  Explains(audit', Len(audit'), status'[t], t)
<1>1. Len(audit) \in Nat /\ Len(audit') \in Nat /\ Len(audit) <= Len(audit')
  BY DEF IInv, TypeOK, Grows
<1>2. Explains(audit, Len(audit), status[t], t)
  BY DEF IInv, StatusExplained
<1>3. Explains(audit', Len(audit), status[t], t)
  BY <1>1, <1>2, ExplainsPrefix DEF Grows
<1>4. QED
  BY <1>1, <1>3, ExplainsQuiet

LEMMA ExplainedStep ==
  ASSUME IInv, [Next]_vars PROVE StatusExplained'
<1>1. TypeOK' /\ Grows /\ Len(audit) \in Nat
  BY TypeStep, LogGrows DEF IInv, TypeOK
<1>2. SUFFICES ASSUME NEW t \in Threads
               PROVE  Explains(audit', Len(audit'), status'[t], t)
  BY DEF StatusExplained
<1>3. ASSUME NEW r \in Requests, CommitStatus(r)
      PROVE  Explains(audit', Len(audit'), status'[t], t)
  <2> DEFINE e == audit'[Len(audit) + 1]
  <2>1. /\ req[r] \in StatusRequest /\ Len(audit') = Len(audit) + 1
        /\ e = StatusEvent(req[r])
        /\ status' = [status EXCEPT ![req[r].thread] = Target(req[r].op)]
    BY <1>3, StatusLog DEF IInv
  <2>2. /\ e.thread = req[r].thread /\ e.to = Target(req[r].op)
        /\ e.type \in StatusActions
    BY <2>1 DEF StatusEvent, StatusRequest
  <2>3. CASE t = req[r].thread
    <3>1. SetsStatus(e, t) /\ status'[t] = e.to
      BY <2>1, <2>2, <2>3 DEF SetsStatus, IInv, TypeOK
    <3>2. QED
      BY <1>1, <2>1, <3>1, ExplainsMove
  <2>4. CASE t # req[r].thread
    <3>1. ~SetsStatus(e, t) /\ status'[t] = status[t]
      BY <2>1, <2>2, <2>4 DEF SetsStatus, IInv, TypeOK
    <3>2. \A i \in Len(audit) + 1 .. Len(audit') : ~SetsStatus(audit'[i], t)
      BY <1>1, <2>1, <3>1
    <3>3. QED
      BY <1>1, <3>1, <3>2, CalmExplained
  <2>5. QED
    BY <2>3, <2>4
<1>4. ASSUME NEW r \in Requests, CommitHandle(r)
      PROVE  Explains(audit', Len(audit'), status'[t], t)
  <2> DEFINE q == req[r]
             e == audit'[Len(audit) + 1]
             cascade == q.op = "delete" /\ q.key[2] = 0
  <2>1. /\ q \in HandleRequest /\ Len(audit') = Len(audit) + 1
        /\ e = HandleEvent(q)
    BY <1>4, HandleLog DEF IInv
  <2>2. q.key \in ReportKeys /\ q.key[1] \in Threads /\ q.op \in HandleOps
    BY <2>1 DEF HandleRequest, ReportKeys
  <2>3. /\ e.type = "report.handle" /\ e.to = Handled(q.op)
        /\ e.thread = IF q.key[2] = 0 THEN q.key[1] ELSE NoThread
    BY <2>1 DEF HandleEvent
  <2>4. SetsStatus(e, t) <=> cascade /\ t = q.key[1]
    BY <2>2, <2>3, GovernanceAssumption
       DEF SetsStatus, StatusActions, LifecycleActions, HandleOps, Handled,
           GovernanceAssumption
  <2>5. status' = IF cascade THEN [status EXCEPT ![q.key[1]] = "deleted"] ELSE status
    BY <1>4 DEF CommitHandle
  <2>6. CASE cascade /\ t = q.key[1]
    <3>1. SetsStatus(e, t) /\ e.to = "deleted" /\ status'[t] = "deleted"
      BY <2>3, <2>4, <2>5, <2>6 DEF Handled, IInv, TypeOK
    <3>2. QED
      BY <1>1, <2>1, <3>1, ExplainsMove
  <2>7. CASE ~(cascade /\ t = q.key[1])
    <3>1. ~SetsStatus(e, t) /\ status'[t] = status[t]
      BY <2>2, <2>4, <2>5, <2>7 DEF IInv, TypeOK
    <3>2. \A i \in Len(audit) + 1 .. Len(audit') : ~SetsStatus(audit'[i], t)
      BY <1>1, <2>1, <3>1
    <3>3. QED
      BY <1>1, <3>1, <3>2, CalmExplained
  <2>8. QED
    BY <2>6, <2>7
<1>5. CASE Calm
  BY <1>1, <1>5, CalmExplained DEF Calm, Quiet
<1>6. QED
  BY <1>3, <1>4, <1>5, StepCases

\* A report whose state and records a step leaves alone stays explained.
LEMMA CalmReport ==
  ASSUME IInv, Grows, TypeOK', NEW k \in ReportKeys,
         \/ report'[k] = report[k]
         \/ report[k] = "none" /\ report'[k] = "pending",
         \A i \in Len(audit) + 1 .. Len(audit') : ~HandlesReport(audit'[i], k)
  PROVE  Accounted(k)'
<1>1. Len(audit) \in Nat /\ Len(audit') \in Nat /\ Len(audit) <= Len(audit')
  BY DEF IInv, TypeOK, Grows
<1>2. CASE report[k] \in {"none", "pending"}
  <2>1. \A i \in 1 .. Len(audit) : ~HandlesReport(audit[i], k)
    BY <1>2 DEF IInv, ReportExplained, Accounted
  <2>2. \A i \in 1 .. Len(audit') : ~HandlesReport(audit'[i], k)
    BY <1>1, <2>1 DEF Grows
  <2>3. QED
    BY <1>2, <2>2 DEF Accounted
<1>3. CASE report[k] \notin {"none", "pending"}
  <2>1. PICK i \in 1 .. Len(audit) :
          /\ HandlesReport(audit[i], k) /\ audit[i].to = report[k]
          /\ \A j \in i + 1 .. Len(audit) : ~HandlesReport(audit[j], k)
    BY <1>3 DEF IInv, ReportExplained, Accounted
  <2>2. /\ i \in 1 .. Len(audit')
        /\ HandlesReport(audit'[i], k) /\ audit'[i].to = report'[k]
    BY <1>1, <1>3, <2>1 DEF Grows
  <2>3. \A j \in i + 1 .. Len(audit') : ~HandlesReport(audit'[j], k)
    BY <1>1, <2>1 DEF Grows
  <2>4. QED
    BY <1>3, <2>2, <2>3 DEF Accounted
<1>4. QED
  BY <1>2, <1>3

LEMMA ReportStep ==
  ASSUME IInv, [Next]_vars PROVE ReportExplained'
<1>1. TypeOK' /\ Grows /\ Len(audit) \in Nat
  BY TypeStep, LogGrows DEF IInv, TypeOK
<1>2. ASSUME NEW k \in ReportKeys,
             \/ report'[k] = report[k]
             \/ report[k] = "none" /\ report'[k] = "pending",
             \A i \in Len(audit) + 1 .. Len(audit') : ~HandlesReport(audit'[i], k)
      PROVE  Accounted(k)'
  BY <1>1, <1>2, CalmReport
<1>3. ASSUME NEW r \in Requests, CommitStatus(r) PROVE ReportExplained'
  <2>1. /\ req[r] \in StatusRequest /\ Len(audit') = Len(audit) + 1
        /\ audit'[Len(audit) + 1] = StatusEvent(req[r]) /\ report' = report
    BY <1>3, StatusLog DEF IInv, CommitStatus
  <2>2. audit'[Len(audit) + 1].type # "report.handle"
    BY <2>1 DEF StatusEvent, StatusRequest, StatusActions, LifecycleActions
  <2>3. \A k \in ReportKeys : \A i \in Len(audit) + 1 .. Len(audit') :
          ~HandlesReport(audit'[i], k)
    BY <1>1, <2>1, <2>2 DEF HandlesReport
  <2>4. QED
    BY <1>2, <2>1, <2>3 DEF ReportExplained
<1>4. ASSUME NEW r \in Requests, CommitHandle(r) PROVE ReportExplained'
  <2> DEFINE q == req[r]
             e == audit'[Len(audit) + 1]
  <2>1. /\ q \in HandleRequest /\ Len(audit') = Len(audit) + 1
        /\ e = HandleEvent(q) /\ report' = [report EXCEPT ![q.key] = Handled(q.op)]
    BY <1>4, HandleLog DEF IInv, CommitHandle
  <2>2. q.key \in ReportKeys /\ Handled(q.op) \in {"ignored", "warned", "deleted"}
    BY <2>1, HandledType DEF HandleRequest
  <2>3. SUFFICES ASSUME NEW k \in ReportKeys PROVE Accounted(k)'
    BY DEF ReportExplained
  <2>4. CASE k = q.key
    <3>1. report'[k] = Handled(q.op)
      BY <2>1, <2>2, <2>4 DEF IInv, TypeOK
    <3>2. HandlesReport(e, k) /\ e.to = report'[k]
      BY <2>1, <2>4, <3>1 DEF HandleEvent, HandlesReport
    <3>3. Len(audit') \in 1 .. Len(audit')
      BY <1>1, <2>1
    <3>4. QED
      BY <1>1, <2>1, <2>2, <3>1, <3>2, <3>3 DEF Accounted
  <2>5. CASE k # q.key
    <3>1. report'[k] = report[k]
      BY <2>1, <2>2, <2>5 DEF IInv, TypeOK
    <3>2. ~HandlesReport(e, k)
      BY <2>1, <2>5 DEF HandleEvent, HandlesReport
    <3>3. \A i \in Len(audit) + 1 .. Len(audit') : ~HandlesReport(audit'[i], k)
      BY <1>1, <2>1, <3>2
    <3>4. QED
      BY <1>2, <3>1, <3>3
  <2>6. QED
    BY <2>4, <2>5
<1>5. CASE Calm /\ report' = report
  BY <1>2, <1>5 DEF Calm, Quiet, ReportExplained
<1>6. ASSUME Calm, NEW r \in Requests, CommitReport(r) PROVE ReportExplained'
  <2>1. \A k \in ReportKeys :
          report'[k] = report[k] \/ (report[k] = "none" /\ report'[k] = "pending")
    BY <1>6 DEF CommitReport, IInv, TypeOK
  <2>2. QED
    BY <1>2, <1>6, <2>1 DEF Calm, Quiet, ReportExplained
<1>7. QED
  BY <1>3, <1>4, <1>5, <1>6, StepCases

\* What a handler remembers stays true of a log that only grows.
LEMMA SoundKept ==
  ASSUME NEW q, NEW old \in Seq(AuditEvent), NEW new \in Seq(AuditEvent),
         Len(new) >= Len(old), \A i \in 1 .. Len(old) : new[i] = old[i],
         q \in StatusRequest \cup HandleRequest => q.seenAt \in Nat,
         Sound(old, q)
  PROVE  Sound(new, q)
<1>1. Len(old) \in Nat /\ Len(new) \in Nat
  OBVIOUS
<1>2. ASSUME q \in StatusRequest
      PROVE  q.seenAt <= Len(new) /\ Explains(new, q.seenAt, q.seen, q.thread)
  <2>1. /\ q.seenAt \in Nat /\ q.seenAt <= Len(old)
        /\ Explains(old, q.seenAt, q.seen, q.thread)
    BY <1>2 DEF Sound
  <2>2. \A i \in 1 .. q.seenAt : new[i] = old[i]
    BY <1>1, <2>1
  <2>3. QED
    BY <1>1, <2>1, <2>2, ExplainsPrefix
<1>3. ASSUME q \in HandleRequest
      PROVE  /\ q.seenAt <= Len(new)
             /\ \A i \in 1 .. q.seenAt : ~HandlesReport(new[i], q.key)
  BY <1>1, <1>3 DEF Sound
<1>4. QED
  BY <1>2, <1>3 DEF Sound

\* A transaction ends its handler and changes no other.
LEMMA CommitEnds ==
  ASSUME TypeOK, Step, ~Accept, NEW r \in Requests
  PROVE  req'[r] \in {req[r], Idle}
  BY DEF Step, Begin, Finish, TypeOK, CommitStatus, CommitFlags, CommitDeleteMessage,
         CommitHandle, CommitReport, CommitMember, CommitOutcome, Rollback

LEMMA InFlightStep ==
  ASSUME IInv, [Next]_vars PROVE InFlightSound'
<1>1. TypeOK' /\ TypeOK /\ Grows /\ InFlightSound
  BY TypeStep, LogGrows DEF IInv
<1>2. SUFFICES ASSUME NEW r \in Requests PROVE Sound(audit', req'[r])
  BY DEF InFlightSound
<1>3. audit \in Seq(AuditEvent) /\ audit' \in Seq(AuditEvent)
  BY <1>1 DEF TypeOK
<1>4. ASSUME req'[r] = req[r] PROVE Sound(audit', req'[r])
  <2>1. Sound(audit, req[r])
    BY <1>1 DEF InFlightSound
  <2>2. req[r] \in StatusRequest \cup HandleRequest => req[r].seenAt \in Nat
    BY DEF StatusRequest, HandleRequest
  <2>3. QED
    BY <1>1, <1>3, <1>4, <2>1, <2>2, SoundKept DEF Grows
<1>5. ASSUME req'[r] = Idle PROVE Sound(audit', req'[r])
  BY <1>5 DEF Sound, Idle, StatusRequest, HandleRequest, StatusActions,
              LifecycleActions, HandleOps
<1>6. CASE Accept
  <2>1. PICK s \in Requests, q \in Pending :
          Sound(audit, q) /\ req' = [req EXCEPT ![s] = q]
    BY <1>6, AcceptStep
  <2>2. audit' = audit
    BY <1>6, AcceptStep DEF rows
  <2>3. CASE r = s
    BY <1>1, <2>1, <2>2, <2>3 DEF TypeOK
  <2>4. CASE r # s
    BY <1>1, <1>4, <2>1, <2>4 DEF TypeOK
  <2>5. QED
    BY <2>3, <2>4
<1>7. CASE Step /\ ~Accept
  BY <1>1, <1>4, <1>5, <1>7, CommitEnds
<1>8. CASE UNCHANGED vars
  BY <1>4, <1>8 DEF vars
<1>9. QED
  BY <1>6, <1>7, <1>8 DEF Next

LEMMA InitIInv == Init => IInv
<1> SUFFICES ASSUME Init PROVE IInv
  OBVIOUS
<1>1. audit = <<>> /\ Len(audit) = 0
  BY DEF Init
<1>2. TypeOK
  BY <1>1, DerivedType, GovernanceAssumption
     DEF Init, TypeOK, Statuses, ReportStatuses, NoSnapshot, Nobody,
         GovernanceAssumption
<1>3. StatusExplained
  BY <1>1 DEF Init, StatusExplained, Explains
<1>4. ReportExplained
  BY <1>1 DEF Init, ReportExplained, Accounted
<1>5. InFlightSound
  BY DEF Init, InFlightSound, Sound, Idle, StatusRequest, HandleRequest,
         StatusActions, LifecycleActions, HandleOps
<1>6. QED
  BY <1>2, <1>3, <1>4, <1>5 DEF IInv

LEMMA IInvStep == IInv /\ [Next]_vars => IInv'
  BY TypeStep, ExplainedStep, ReportStep, InFlightStep DEF IInv

\* The inductive invariant holds of every behaviour of the governance layer.
THEOREM Invariant == Spec => []IInv
  BY InitIInv, IInvStep, PTL DEF Spec

\* Every row, record and remembered request has its type, always.
THEOREM TypeCorrect == Spec => []TypeOK
<1>1. IInv => TypeOK
  BY DEF IInv
<1>2. QED
  BY <1>1, Invariant, PTL

\* The audit log accounts for every thread's status, whichever writers race
\* (the four moderation routes, soft delete, resolve, a report's cascade).
THEOREM StatusesExplained == Spec => []StatusExplained
<1>1. IInv => StatusExplained
  BY DEF IInv
<1>2. QED
  BY <1>1, Invariant, PTL

\* The audit log accounts for the state of every report.
THEOREM ReportsExplained == Spec => []ReportExplained
<1>1. IInv => ReportExplained
  BY DEF IInv
<1>2. QED
  BY <1>1, Invariant, PTL

\* What a running handler read was true of the log at that moment.
THEOREM HandlersSound == Spec => []InFlightSound
<1>1. IInv => InFlightSound
  BY DEF IInv
<1>2. QED
  BY <1>1, Invariant, PTL

-----------------------------------------------------------------------------
(* What the log records. *)

\* No action but a status handler's transaction appends a status record, and
\* none but a report handler's a report record.
LEMMA NewRecord ==
  ASSUME IInv, [Next]_vars, NEW i \in 1 .. Len(audit'), i \notin 1 .. Len(audit)
  PROVE  \/ /\ \E r \in Requests : /\ req[r] \in StatusRequest /\ Sound(audit, req[r])
                                  /\ audit'[i] = StatusEvent(req[r])
            /\ i = Len(audit) + 1
         \/ /\ \E r \in Requests : /\ CommitHandle(r) /\ Sound(audit, req[r])
                                  /\ req[r] \in HandleRequest
                                  /\ audit'[i] = HandleEvent(req[r])
            /\ i = Len(audit) + 1
         \/ /\ audit'[i].type \notin StatusActions \cup {"report.handle"}
            /\ i \in Len(audit) + 1 .. Len(audit')
<1>1. Len(audit) \in Nat /\ Len(audit') \in Nat
  BY TypeStep DEF IInv, TypeOK
<1>2. i \in Len(audit) + 1 .. Len(audit')
  BY <1>1
<1>3. \A r \in Requests : Sound(audit, req[r])
  BY DEF IInv, InFlightSound
<1>4. CASE \E r \in Requests : CommitStatus(r)
  BY <1>1, <1>2, <1>3, <1>4, StatusLog DEF IInv
<1>5. CASE \E r \in Requests : CommitHandle(r)
  BY <1>1, <1>2, <1>3, <1>5, HandleLog DEF IInv
<1>6. CASE Calm
  BY <1>2, <1>6 DEF Calm, Quiet
<1>7. QED
  BY <1>4, <1>5, <1>6, StepCases

\* No handler ever records an illegal transition, or one by someone without
\* the authority for it.
THEOREM TransitionsLegal == Spec => []RecordedTransitionsLegal
<1>1. Init => RecordedTransitionsLegal
  BY DEF Init, RecordedTransitionsLegal
<1>2. IInv /\ RecordedTransitionsLegal /\ [Next]_vars => RecordedTransitionsLegal'
  <2> SUFFICES ASSUME IInv, RecordedTransitionsLegal, [Next]_vars,
                      NEW i \in 1 .. Len(audit'), audit'[i].type \in StatusActions
               PROVE  /\ LegalTransition(audit'[i].type, audit'[i].from)
                      /\ audit'[i].to = Target(audit'[i].type)
                      /\ \/ Governs(audit'[i].actor)
                         \/ /\ audit'[i].type = "resolve"
                            /\ audit'[i].actor = Creator[audit'[i].thread]
    BY DEF RecordedTransitionsLegal
  <2>1. CASE i \in 1 .. Len(audit)
    BY <2>1, LogGrows DEF Grows, RecordedTransitionsLegal
  <2>2. ASSUME NEW r \in Requests, req[r] \in StatusRequest, Sound(audit, req[r]),
               audit'[i] = StatusEvent(req[r])
        PROVE  /\ LegalTransition(audit'[i].type, audit'[i].from)
               /\ audit'[i].to = Target(audit'[i].type)
               /\ \/ Governs(audit'[i].actor)
                  \/ /\ audit'[i].type = "resolve"
                     /\ audit'[i].actor = Creator[audit'[i].thread]
    BY <2>2 DEF Sound, StatusEvent
  <2>3. ASSUME NEW r \in Requests, audit'[i] = HandleEvent(req[r]) PROVE FALSE
    BY <2>3 DEF HandleEvent, StatusActions, LifecycleActions
  <2>4. QED
    BY <2>1, <2>2, <2>3, NewRecord
<1>3. QED
  BY <1>1, <1>2, Invariant, PTL DEF Spec

\* A recorded "from" can be wrong only through a race.
THEOREM ChainsUnlessRaced == Spec => []ChainUnlessRaced
<1>1. Init => ChainUnlessRaced
  BY DEF Init, ChainUnlessRaced
<1>2. IInv /\ ChainUnlessRaced /\ [Next]_vars => ChainUnlessRaced'
  <2> SUFFICES ASSUME IInv, ChainUnlessRaced, [Next]_vars,
                      NEW k \in 1 .. Len(audit'), audit'[k].type \in StatusActions,
                      \A j \in audit'[k].seenAt + 1 .. k - 1 :
                        ~SetsStatus(audit'[j], audit'[k].thread)
               PROVE  Explains(audit', k - 1, audit'[k].from, audit'[k].thread)
    BY DEF ChainUnlessRaced, Raced
  <2>1. Grows /\ Len(audit) \in Nat /\ k - 1 \in Nat
    BY LogGrows DEF IInv, TypeOK
  <2>2. CASE k \in 1 .. Len(audit)
    <3>1. audit'[k] = audit[k] /\ audit[k] \in AuditEvent
      BY <2>1, <2>2 DEF Grows, IInv, TypeOK
    <3>2. audit[k].seenAt \in Nat
      BY <3>1 DEF AuditEvent
    <3>3. \A j \in audit[k].seenAt + 1 .. k - 1 : audit'[j] = audit[j]
      BY <2>1, <2>2, <3>2 DEF Grows
    <3>4. Explains(audit, k - 1, audit[k].from, audit[k].thread)
      BY <2>2, <3>1, <3>3 DEF ChainUnlessRaced, Raced
    <3>5. \A i \in 1 .. k - 1 : audit'[i] = audit[i]
      BY <2>1, <2>2 DEF Grows
    <3>6. QED
      BY <2>1, <3>1, <3>4, <3>5, ExplainsPrefix
  <2>3. ASSUME NEW r \in Requests, req[r] \in StatusRequest, Sound(audit, req[r]),
               audit'[k] = StatusEvent(req[r]), k = Len(audit) + 1
        PROVE  Explains(audit', k - 1, audit'[k].from, audit'[k].thread)
    <3> DEFINE q == req[r]
    <3>1. /\ q.seenAt \in Nat /\ q.seenAt <= Len(audit)
          /\ Explains(audit, q.seenAt, q.seen, q.thread)
      BY <2>3 DEF Sound, StatusRequest
    <3>2. /\ audit'[k].seenAt = q.seenAt /\ audit'[k].from = q.seen
          /\ audit'[k].thread = q.thread
      BY <2>3 DEF StatusEvent
    <3> HIDE DEF q
    <3>3. \A i \in 1 .. q.seenAt : audit'[i] = audit[i]
      BY <2>1, <3>1 DEF Grows
    <3>4. Explains(audit', q.seenAt, q.seen, q.thread)
      BY <3>1, <3>3, ExplainsPrefix
    <3>5. q.seenAt <= k - 1 /\ \A j \in q.seenAt + 1 .. k - 1 : ~SetsStatus(audit'[j], q.thread)
      BY <2>1, <2>3, <3>1, <3>2
    <3>6. QED
      BY <2>1, <3>1, <3>2, <3>4, <3>5, ExplainsQuiet
  <2>4. ASSUME NEW r \in Requests, audit'[k] = HandleEvent(req[r]) PROVE FALSE
    BY <2>4 DEF HandleEvent, StatusActions, LifecycleActions
  <2>5. QED
    BY <2>2, <2>3, <2>4, NewRecord
<1>3. QED
  BY <1>1, <1>2, Invariant, PTL DEF Spec

\* Two records handle one report only if the second handler read it before the
\* first one committed.
THEOREM RehandledByRaceOnly == Spec => []RehandledOnlyByRace
<1>1. Init => RehandledOnlyByRace
  BY DEF Init, RehandledOnlyByRace
<1>2. IInv /\ RehandledOnlyByRace /\ [Next]_vars => RehandledOnlyByRace'
  <2> SUFFICES ASSUME IInv, RehandledOnlyByRace, [Next]_vars,
                      NEW i \in 1 .. Len(audit'), NEW k \in 1 .. Len(audit'),
                      NEW n \in ReportKeys, i < k,
                      HandlesReport(audit'[i], n), HandlesReport(audit'[k], n)
               PROVE  audit'[k].seenAt < i
    BY DEF RehandledOnlyByRace
  <2>1. Grows /\ Len(audit) \in Nat
    BY LogGrows DEF IInv, TypeOK
  <2>2. CASE k \in 1 .. Len(audit)
    <3>1. i \in 1 .. Len(audit)
      BY <2>1, <2>2
    <3>2. audit'[i] = audit[i] /\ audit'[k] = audit[k]
      BY <2>1, <2>2, <3>1 DEF Grows
    <3>3. QED
      BY <2>2, <3>1, <3>2 DEF RehandledOnlyByRace
  <2>3. ASSUME NEW r \in Requests, req[r] \in HandleRequest, Sound(audit, req[r]),
               audit'[k] = HandleEvent(req[r]), k = Len(audit) + 1
        PROVE  audit'[k].seenAt < i
    <3>1. /\ req[r].seenAt \in Nat
          /\ \A j \in 1 .. req[r].seenAt : ~HandlesReport(audit[j], req[r].key)
      BY <2>3 DEF Sound, HandleRequest
    <3>2. audit'[k].seenAt = req[r].seenAt /\ req[r].key = n
      BY <2>3 DEF HandleEvent, HandlesReport
    <3>3. audit'[i] = audit[i]
      BY <2>1, <2>3 DEF Grows
    <3>4. i \notin 1 .. req[r].seenAt
      BY <3>1, <3>2, <3>3
    <3>5. QED
      BY <2>1, <3>1, <3>2, <3>4
  <2>4. ASSUME NEW r \in Requests, req[r] \in StatusRequest,
               audit'[k] = StatusEvent(req[r])
        PROVE  FALSE
    BY <2>4 DEF StatusEvent, StatusRequest, HandlesReport, StatusActions, LifecycleActions
  <2>5. QED
    BY <2>2, <2>3, <2>4, NewRecord DEF HandlesReport
<1>3. QED
  BY <1>1, <1>2, Invariant, PTL DEF Spec

\* The log names one status for a thread at most.
LEMMA ExplainsUnique ==
  ASSUME NEW log, NEW n \in Nat, NEW s1, NEW s2, NEW t,
         Explains(log, n, s1, t), Explains(log, n, s2, t)
  PROVE  s1 = s2
<1>1. ASSUME NEW i \in 1 .. n, NEW j \in 1 .. n,
             SetsStatus(log[i], t), \A m \in i + 1 .. n : ~SetsStatus(log[m], t),
             SetsStatus(log[j], t), \A m \in j + 1 .. n : ~SetsStatus(log[m], t)
      PROVE  i = j
  BY <1>1
<1>2. QED
  BY <1>1 DEF Explains

\* A report's cascade never deletes a thread that is already deleted.
THEOREM CascadesLive == Spec => []CascadeOnLiveThread
<1>1. Init => CascadeOnLiveThread
  BY DEF Init, CascadeOnLiveThread
<1>2. IInv /\ CascadeOnLiveThread /\ [Next]_vars => CascadeOnLiveThread'
  <2> SUFFICES ASSUME IInv, CascadeOnLiveThread, [Next]_vars,
                      NEW k \in 1 .. Len(audit'), NEW t \in Threads,
                      audit'[k].type = "report.handle", SetsStatus(audit'[k], t),
                      Explains(audit', k - 1, "deleted", t)
               PROVE  FALSE
    BY DEF CascadeOnLiveThread
  <2>1. Grows /\ Len(audit) \in Nat /\ k - 1 \in Nat
    BY LogGrows DEF IInv, TypeOK
  <2>2. CASE k \in 1 .. Len(audit)
    <3>1. \A i \in 1 .. k - 1 : audit[i] = audit'[i]
      BY <2>1, <2>2 DEF Grows
    <3>2. Explains(audit, k - 1, "deleted", t)
      BY <2>1, <3>1, ExplainsPrefix
    <3>3. QED
      BY <2>1, <2>2, <3>2 DEF Grows, CascadeOnLiveThread
  <2>3. ASSUME NEW r \in Requests, CommitHandle(r), req[r] \in HandleRequest,
               audit'[k] = HandleEvent(req[r]), k = Len(audit) + 1
        PROVE  FALSE
    <3> DEFINE q == req[r]
    <3>1. q.op \in HandleOps /\ q.op = "delete" /\ q.key[2] = 0 /\ q.key[1] = t
      BY <2>3, GovernanceAssumption
         DEF HandleEvent, HandleRequest, SetsStatus, StatusActions, LifecycleActions,
             HandleOps, Handled, GovernanceAssumption
    <3>2. LegalTransition("softDelete", status[t])
      BY <2>3, <3>1 DEF CommitHandle, CascadeAllowed
    <3>3. status[t] # "deleted"
      BY <3>2 DEF LegalTransition, Target
    <3>4. \A i \in 1 .. k - 1 : audit[i] = audit'[i]
      BY <2>1, <2>3 DEF Grows
    <3>5. Explains(audit, Len(audit), "deleted", t)
      BY <2>1, <2>3, <3>4, ExplainsPrefix
    <3>6. Explains(audit, Len(audit), status[t], t)
      BY DEF IInv, StatusExplained
    <3>7. QED
      BY <2>1, <3>3, <3>5, <3>6, ExplainsUnique
  <2>4. ASSUME NEW r \in Requests, req[r] \in StatusRequest,
               audit'[k] = StatusEvent(req[r])
        PROVE  FALSE
    BY <2>4 DEF StatusEvent, StatusRequest, StatusActions, LifecycleActions
  <2>5. QED
    BY <2>2, <2>3, <2>4, NewRecord
<1>3. QED
  BY <1>1, <1>2, Invariant, PTL DEF Spec

-----------------------------------------------------------------------------
(* Finalization. *)

\* A raced action of thread t is among the records after the i-th.
RacedSince(t, i) ==
  \E j \in i + 1 .. Len(audit) : audit[j].thread = t /\ Raced(audit, j)

\* Once resolved a thread is resolved or deleted, races aside.
StaysFinal ==
  \A t \in Threads : \A i \in 1 .. Len(audit) :
    Resolves(audit[i], t) => status[t] \in {"resolved", "deleted"} \/ RacedSince(t, i)

LEMMA SeenAtType ==
  ASSUME IInv, NEW j \in 1 .. Len(audit) PROVE audit[j].seenAt \in Nat
<1>1. audit[j] \in AuditEvent
  BY DEF IInv, TypeOK
<1>2. QED
  BY <1>1 DEF AuditEvent

\* What was raced stays raced: the log only grows.
LEMMA RacedKept ==
  ASSUME IInv, Grows, NEW t, NEW i \in Nat, RacedSince(t, i)
  PROVE  RacedSince(t, i)'
<1>1. Len(audit) \in Nat
  BY DEF IInv, TypeOK
<1>2. PICK j \in i + 1 .. Len(audit) : audit[j].thread = t /\ Raced(audit, j)
  BY DEF RacedSince
<1>3. j \in 1 .. Len(audit) /\ audit[j].seenAt \in Nat
  BY <1>1, <1>2, SeenAtType
<1>4. audit'[j] = audit[j] /\ \A m \in audit[j].seenAt + 1 .. j - 1 : audit'[m] = audit[m]
  BY <1>3 DEF Grows
<1>5. Raced(audit', j)
  BY <1>2, <1>4 DEF Raced
<1>6. j \in i + 1 .. Len(audit')
  BY <1>2, <1>3 DEF Grows, IInv, TypeOK
<1>7. QED
  BY <1>2, <1>4, <1>5, <1>6 DEF RacedSince

\* A status handler that was not raced finds the thread as it read it.
LEMMA RacedOrCurrent ==
  ASSUME IInv, NEW r \in Requests, CommitStatus(r)
  PROVE  \/ req[r].seen = status[req[r].thread]
         \/ Raced(audit', Len(audit) + 1) /\ audit'[Len(audit) + 1].thread = req[r].thread
<1> DEFINE q == req[r]
           k == Len(audit) + 1
<1>1. /\ q \in StatusRequest /\ Grows /\ audit'[k] = StatusEvent(q)
      /\ Len(audit) \in Nat /\ q.thread \in Threads /\ q.op \in StatusActions
  BY StatusLog DEF IInv, TypeOK, StatusRequest
<1>2. /\ q.seenAt \in Nat /\ q.seenAt <= Len(audit)
      /\ Explains(audit, q.seenAt, q.seen, q.thread)
  BY <1>1 DEF IInv, InFlightSound, Sound, StatusRequest
<1>3. /\ audit'[k].type = q.op /\ audit'[k].seenAt = q.seenAt
      /\ audit'[k].thread = q.thread
  BY <1>1 DEF StatusEvent
<1> HIDE DEF q
<1>4. CASE \E j \in q.seenAt + 1 .. Len(audit) : SetsStatus(audit[j], q.thread)
  <2>1. PICK j \in q.seenAt + 1 .. Len(audit) : SetsStatus(audit[j], q.thread)
    BY <1>4
  <2>2. audit'[j] = audit[j] /\ j \in q.seenAt + 1 .. k - 1
    BY <1>1, <1>2, <2>1 DEF Grows
  <2>3. QED
    BY <1>1, <1>3, <2>1, <2>2 DEF Raced, q
<1>5. CASE \A j \in q.seenAt + 1 .. Len(audit) : ~SetsStatus(audit[j], q.thread)
  <2>1. Explains(audit, Len(audit), q.seen, q.thread)
    BY <1>1, <1>2, <1>5, ExplainsQuiet
  <2>2. Explains(audit, Len(audit), status[q.thread], q.thread)
    BY <1>1 DEF IInv, StatusExplained
  <2>3. QED
    BY <1>1, <2>1, <2>2, ExplainsUnique DEF q
<1>6. QED
  BY <1>4, <1>5

LEMMA OutOfFinal ==
  \A a \in StatusActions : \A s \in {"resolved", "deleted"} :
    LegalTransition(a, s) => Target(a) = "deleted"
  BY DEF StatusActions, LifecycleActions, LegalTransition, Sources, Target, Statuses

LEMMA StaysFinalStep ==
  ASSUME IInv, StaysFinal, [Next]_vars
  PROVE  StaysFinal'
<1> SUFFICES ASSUME NEW t \in Threads, NEW i \in 1 .. Len(audit'), Resolves(audit'[i], t)
             PROVE  status'[t] \in {"resolved", "deleted"} \/ RacedSince(t, i)'
  BY DEF StaysFinal
<1>1. Grows /\ Len(audit) \in Nat /\ Len(audit') \in Nat
  BY LogGrows, TypeStep DEF IInv, TypeOK
<1>2. ASSUME i \in 1 .. Len(audit)
      PROVE  status[t] \in {"resolved", "deleted"} \/ RacedSince(t, i)'
  <2>1. Resolves(audit[i], t)
    BY <1>1, <1>2 DEF Grows
  <2>2. QED
    BY <1>1, <1>2, <2>1, RacedKept DEF StaysFinal
<1>3. ASSUME NEW r \in Requests, CommitStatus(r)
      PROVE  status'[t] \in {"resolved", "deleted"} \/ RacedSince(t, i)'
  <2> DEFINE q == req[r]
  <2>1. /\ q \in StatusRequest /\ q.op \in StatusActions
        /\ Len(audit') = Len(audit) + 1 /\ audit'[Len(audit) + 1] = StatusEvent(q)
        /\ status' = [status EXCEPT ![q.thread] = Target(q.op)]
    BY <1>3, StatusLog DEF IInv, StatusRequest
  <2>2. LegalTransition(q.op, q.seen)
    BY <2>1 DEF IInv, InFlightSound, Sound
  <2>3. CASE i = Len(audit) + 1
    <3>1. q.op = "resolve" /\ q.thread = t
      BY <2>1, <2>3 DEF Resolves, StatusEvent
    <3>2. status'[t] = "resolved"
      BY <2>1, <3>1 DEF IInv, TypeOK, Target
    <3>3. QED
      BY <3>2
  <2>4. CASE i \in 1 .. Len(audit) /\ q.thread # t
    <3>1. status'[t] = status[t]
      BY <2>1, <2>4 DEF IInv, TypeOK
    <3>2. QED
      BY <1>2, <2>4, <3>1
  <2>5. CASE i \in 1 .. Len(audit) /\ q.thread = t
    <3>1. CASE Raced(audit', Len(audit) + 1) /\ audit'[Len(audit) + 1].thread = t
      <4>1. Len(audit) + 1 \in i + 1 .. Len(audit')
        BY <1>1, <2>1, <2>5
      <4>2. QED
        BY <3>1, <4>1 DEF RacedSince
    <3>2. CASE q.seen = status[t] /\ status[t] \in {"resolved", "deleted"}
      <4>1. Target(q.op) = "deleted"
        BY <2>1, <2>2, <3>2, OutOfFinal
      <4>2. QED
        BY <2>1, <2>5, <4>1 DEF IInv, TypeOK
    <3>3. QED
      BY <1>2, <1>3, <2>5, <3>1, <3>2, RacedOrCurrent
  <2>6. QED
    BY <1>1, <2>1, <2>3, <2>4, <2>5
<1>4. ASSUME NEW r \in Requests, CommitHandle(r)
      PROVE  status'[t] \in {"resolved", "deleted"} \/ RacedSince(t, i)'
  <2>1. /\ req[r].key[1] \in Threads /\ Len(audit') = Len(audit) + 1
        /\ audit'[Len(audit) + 1] = HandleEvent(req[r])
    BY <1>4, HandleLog DEF IInv, HandleRequest, ReportKeys
  <2>2. i # Len(audit) + 1
    BY <2>1 DEF Resolves, HandleEvent
  <2>3. status'[t] = status[t] \/ status'[t] = "deleted"
    BY <1>4, <2>1 DEF CommitHandle, IInv, TypeOK
  <2>4. QED
    BY <1>1, <1>2, <2>1, <2>2, <2>3
<1>5. CASE Calm
  <2>1. i \in 1 .. Len(audit)
    BY <1>1, <1>5 DEF Calm, Quiet, Resolves, StatusActions
  <2>2. QED
    BY <1>2, <1>5, <2>1 DEF Calm
<1>6. QED
  BY <1>3, <1>4, <1>5, StepCases

\* A thread is resolved twice only through a race: some status action on it
\* that another record had overtaken was committed after the first time, the
\* second resolve or one that brought the thread back.
THEOREM FinalizedOnceButForRaces == Spec => []FinalizedOnceUnlessRaced
<1>1. Init => StaysFinal /\ FinalizedOnceUnlessRaced
  BY DEF Init, StaysFinal, FinalizedOnceUnlessRaced
<1>2. IInv /\ StaysFinal /\ FinalizedOnceUnlessRaced /\ [Next]_vars
        => StaysFinal' /\ FinalizedOnceUnlessRaced'
  <2> SUFFICES ASSUME IInv, StaysFinal, FinalizedOnceUnlessRaced, [Next]_vars,
                      NEW t \in Threads, NEW i \in 1 .. Len(audit'),
                      NEW k \in 1 .. Len(audit'), i < k,
                      Resolves(audit'[i], t), Resolves(audit'[k], t)
               PROVE  \E j \in i + 1 .. k : audit'[j].thread = t /\ Raced(audit', j)
    BY StaysFinalStep DEF FinalizedOnceUnlessRaced
  <2>1. Grows /\ Len(audit) \in Nat /\ Len(audit') \in Nat
    BY LogGrows, TypeStep DEF IInv, TypeOK
  <2>2. (i \in 1 .. Len(audit) /\ Resolves(audit[i], t)) \/ Len(audit) < i
    BY <2>1 DEF Grows
  <2>3. CASE k \in 1 .. Len(audit)
    <3>1. Resolves(audit[i], t) /\ Resolves(audit[k], t) /\ i \in 1 .. Len(audit)
      BY <2>1, <2>3 DEF Grows
    <3>2. PICK j \in i + 1 .. k : audit[j].thread = t /\ Raced(audit, j)
      BY <2>3, <3>1 DEF FinalizedOnceUnlessRaced
    <3>3. /\ j \in 1 .. Len(audit) /\ audit[j].seenAt \in Nat /\ audit'[j] = audit[j]
      BY <2>1, <2>3, <3>2, SeenAtType DEF Grows
    <3>4. \A m \in audit[j].seenAt + 1 .. j - 1 : audit'[m] = audit[m]
      BY <2>1, <3>3 DEF Grows
    <3>5. QED
      BY <3>2, <3>3, <3>4 DEF Raced
  <2>4. ASSUME NEW r \in Requests, CommitStatus(r), k = Len(audit) + 1
        PROVE  \E j \in i + 1 .. k : audit'[j].thread = t /\ Raced(audit', j)
    <3> DEFINE q == req[r]
    <3>1. q \in StatusRequest /\ audit'[k] = StatusEvent(q)
      BY <2>4, StatusLog DEF IInv
    <3>2. q.op = "resolve" /\ q.thread = t
      BY <3>1 DEF Resolves, StatusEvent
    <3>3. LegalTransition("resolve", q.seen)
      BY <3>1, <3>2 DEF IInv, InFlightSound, Sound
    <3>4. q.seen = "open"
      BY <3>3 DEF LegalTransition, Sources
    <3>5. CASE q.seen = status[t]
      <4>1. i \in 1 .. Len(audit) /\ RacedSince(t, i)
        BY <2>1, <2>2, <2>4, <3>4, <3>5 DEF StaysFinal
      <4>2. RacedSince(t, i)'
        BY <2>1, <4>1, RacedKept
      <4>3. Len(audit') = k
        BY <2>4, StatusLog DEF IInv
      <4>4. QED
        BY <4>2, <4>3 DEF RacedSince
    <3>6. CASE Raced(audit', k) /\ audit'[k].thread = t
      BY <2>1, <3>6
    <3>7. QED
      BY <2>4, <3>2, <3>5, <3>6, RacedOrCurrent
  <2>5. k \in 1 .. Len(audit) \/ \E r \in Requests : CommitStatus(r) /\ k = Len(audit) + 1
    <3>1. ASSUME NEW r \in Requests, CommitHandle(r) PROVE k \in 1 .. Len(audit)
      <4>1. Len(audit') = Len(audit) + 1 /\ audit'[Len(audit) + 1] = HandleEvent(req[r])
        BY <3>1, HandleLog DEF IInv
      <4>2. audit'[Len(audit) + 1].type # "resolve"
        BY <4>1 DEF HandleEvent
      <4>3. QED
        BY <2>1, <4>1, <4>2 DEF Resolves
    <3>2. ASSUME NEW r \in Requests, CommitStatus(r)
          PROVE  k \in 1 .. Len(audit) \/ k = Len(audit) + 1
      BY <2>1, <3>2, StatusLog DEF IInv
    <3>3. CASE Calm
      BY <2>1, <3>3 DEF Calm, Quiet, Resolves, StatusActions
    <3>4. QED
      BY <3>1, <3>2, <3>3, StepCases
  <2>6. QED
    BY <2>3, <2>4, <2>5
<1>3. QED
  BY <1>1, <1>2, Invariant, PTL DEF Spec

-----------------------------------------------------------------------------
(* The derived columns. *)

\* The messages and their columns change together, by a tombstone, or not.
LEMMA MessagesStep ==
  ASSUME IInv, [Next]_vars
  PROVE  \/ UNCHANGED <<live, derived>>
         \/ \E t \in Threads : \E m : Tombstone(t, m)
<1>1. CASE Accept
  BY <1>1, AcceptStep DEF rows
<1>2. ASSUME NEW r \in Requests, CommitDeleteMessage(r)
      PROVE  \E t \in Threads : \E m : Tombstone(t, m)
  BY <1>2 DEF CommitDeleteMessage, MessageRequest
<1>3. ASSUME NEW r \in Requests, CommitHandle(r)
      PROVE  \/ UNCHANGED <<live, derived>>
             \/ \E t \in Threads : \E m : Tombstone(t, m)
  <2>1. req[r].key[1] \in Threads
    BY <1>3 DEF CommitHandle, HandleRequest, ReportKeys
  <2>2. QED
    BY <1>3, <2>1 DEF CommitHandle
<1>4. ASSUME NEW r \in Requests,
             \/ Begin(r) \/ CommitStatus(r) \/ CommitFlags(r) \/ CommitReport(r)
             \/ CommitMember(r) \/ CommitOutcome(r) \/ Rollback(r)
      PROVE  UNCHANGED <<live, derived>>
  BY <1>4 DEF Begin, rows, CommitStatus, CommitFlags, CommitReport, CommitMember,
              CommitOutcome, Rollback
<1>5. CASE UNCHANGED vars
  BY <1>5 DEF vars, rows
<1>6. QED
  BY <1>1, <1>2, <1>3, <1>4, <1>5 DEF Next, Step

\* messageCount and lastMessageAt always describe the visible messages: every
\* deletion, of a message already deleted too, repairs them as it commits.
THEOREM ColumnsRepaired == Spec => []DerivedRepaired
<1>1. Init => DerivedRepaired
  BY DEF Init, DerivedRepaired
<1>2. IInv /\ DerivedRepaired /\ [Next]_vars => DerivedRepaired'
  <2> SUFFICES ASSUME IInv, DerivedRepaired, [Next]_vars, NEW t \in Threads
               PROVE  derived'[t] = Derived(live'[t])
    BY DEF DerivedRepaired
  <2>1. CASE UNCHANGED <<live, derived>>
    BY <2>1 DEF DerivedRepaired
  <2>2. ASSUME NEW u \in Threads, NEW m, Tombstone(u, m)
        PROVE  derived'[t] = Derived(live'[t])
    BY <2>2 DEF Tombstone, DerivedRepaired, IInv, TypeOK
  <2>3. QED
    BY <2>1, <2>2, MessagesStep
<1>3. QED
  BY <1>1, <1>2, Invariant, PTL DEF Spec

-----------------------------------------------------------------------------
(* The outcomes. *)

LEMMA OnlyResolveResolves ==
  \A op \in StatusActions : Target(op) = "resolved" <=> op = "resolve"
  BY DEF StatusActions, LifecycleActions, Target

\* A thread is never resolved without an outcome: the two are written in one
\* transaction, and no outcome is ever taken back.
THEOREM ResolutionsKept == Spec => []ResolutionsHaveOutcome
<1>1. Init => ResolutionsHaveOutcome
  BY DEF Init, ResolutionsHaveOutcome
<1>2. IInv /\ ResolutionsHaveOutcome /\ [Next]_vars => ResolutionsHaveOutcome'
  <2> SUFFICES ASSUME IInv, ResolutionsHaveOutcome, [Next]_vars, NEW t \in Threads,
                      status'[t] = "resolved"
               PROVE  t \in decided'
    BY DEF ResolutionsHaveOutcome
  <2>1. ASSUME status'[t] = status[t], decided \subseteq decided' PROVE t \in decided'
    BY <2>1 DEF ResolutionsHaveOutcome
  <2>2. decided \subseteq decided'
    BY AcceptStep
       DEF Next, Step, Begin, CommitStatus, WithOutcome, CommitFlags,
           CommitDeleteMessage, CommitHandle, CommitReport, CommitMember,
           CommitOutcome, Rollback, rows, vars
  <2>3. ASSUME NEW r \in Requests, CommitStatus(r) PROVE t \in decided'
    <3> DEFINE q == req[r]
    <3>1. /\ q \in StatusRequest /\ q.op \in StatusActions
          /\ status' = [status EXCEPT ![q.thread] = Target(q.op)]
          /\ decided' = WithOutcome(q)
      BY <2>3, StatusLog DEF IInv, CommitStatus, StatusRequest
    <3> HIDE DEF q
    <3>2. CASE q.thread = t
      <4>1. Target(q.op) = "resolved"
        BY <3>1, <3>2 DEF IInv, TypeOK
      <4>2. QED
        BY <3>1, <3>2, <4>1, OnlyResolveResolves DEF WithOutcome
    <3>3. CASE q.thread # t
      BY <2>1, <2>2, <3>1, <3>3 DEF IInv, TypeOK
    <3>4. QED
      BY <3>2, <3>3
  <2>4. ASSUME NEW r \in Requests, CommitHandle(r) PROVE t \in decided'
    <3>1. req[r].key[1] \in Threads
      BY <2>4 DEF CommitHandle, HandleRequest, ReportKeys
    <3>2. status'[t] = status[t]
      BY <2>4, <3>1 DEF CommitHandle, IInv, TypeOK
    <3>3. QED
      BY <2>1, <2>2, <3>2
  <2>5. CASE Calm
    BY <2>1, <2>2, <2>5 DEF Calm
  <2>6. QED
    BY <2>3, <2>4, <2>5, StepCases
<1>3. QED
  BY <1>1, <1>2, Invariant, PTL DEF Spec

-----------------------------------------------------------------------------
(* The notification facts. *)

\* What a fact may say that comes from record e.
Tells(f, e) ==
  /\ f.to # e.actor
  /\ IF e.type = "report.handle"
     THEN f.to = e.report[3] /\ f.thread = e.report[1]
     ELSE e.type \in StatusActions \cup {"deleteMessage"} /\ f.thread = e.thread

\* A transaction that notifies appends one record, and its facts tell of it.
Notifies(new) ==
  /\ Grows /\ Len(audit') = Len(audit) + 1
  /\ facts' = facts \cup new
  /\ \A f \in new : f.event = Len(audit) + 1 /\ Tells(f, audit'[Len(audit) + 1])
  /\ \A f, g \in new : f.to = g.to => f = g

LEMMA FanOutTells ==
  ASSUME NEW q, NEW seen, NEW n, NEW reason, NEW e,
         e.actor = q.actor, e.thread = q.thread,
         e.type \in StatusActions \cup {"deleteMessage"}
  PROVE  /\ \A f \in FanOut(q, seen, n, reason) : f.event = n /\ Tells(f, e)
         /\ \A f, g \in FanOut(q, seen, n, reason) : f.to = g.to => f = g
<1>1. e.type # "report.handle"
  BY DEF StatusActions, LifecycleActions
<1>2. QED
  BY <1>1 DEF FanOut, Tells

LEMMA StatusNotifies ==
  ASSUME TypeOK, NEW r \in Requests, CommitStatus(r)
  PROVE  Notifies(FanOut(req[r], snap[r].sees, Len(audit) + 1, NoticeReason(req[r].op)))
<1> DEFINE q == req[r]
           e == StatusEvent(q)
           n == Len(audit) + 1
           new == FanOut(q, snap[r].sees, n, NoticeReason(q.op))
<1>1. /\ q \in StatusRequest /\ Grows /\ Len(audit') = n /\ audit'[n] = e
  BY StatusLog
<1>2. facts' = facts \cup new
  BY DEF CommitStatus
<1>3. e.actor = q.actor /\ e.thread = q.thread /\ e.type \in StatusActions
  BY <1>1 DEF StatusEvent, StatusRequest
<1> HIDE DEF q, e
<1>4. /\ \A f \in new : f.event = n /\ Tells(f, e)
      /\ \A f, g \in new : f.to = g.to => f = g
  BY <1>3, FanOutTells
<1> HIDE DEF new
<1>5. Notifies(new)
  BY <1>1, <1>2, <1>4 DEF Notifies
<1>6. QED
  BY <1>5 DEF new, q

LEMMA DeleteMessageNotifies ==
  ASSUME TypeOK, NEW r \in Requests, CommitDeleteMessage(r)
  PROVE  /\ Notifies(FanOut(req[r], snap[r].sees, Len(audit) + 1,
                            NoticeReason(req[r].op)))
         /\ audit'[Len(audit) + 1] = MessageEvent(req[r])
<1> DEFINE q == req[r]
           e == MessageEvent(q)
           n == Len(audit) + 1
           new == FanOut(q, snap[r].sees, n, NoticeReason(q.op))
<1>1. q \in MessageRequest
  BY DEF CommitDeleteMessage
<1>2. Grows /\ Len(audit') = n /\ audit'[n] = e
  BY <1>1, MessageEventType, AppendGrows DEF CommitDeleteMessage, TypeOK
<1>3. facts' = facts \cup new
  BY DEF CommitDeleteMessage
<1>4. e.actor = q.actor /\ e.thread = q.thread /\ e.type = "deleteMessage"
  BY <1>1 DEF MessageEvent, MessageRequest
<1> HIDE DEF q, e
<1>5. /\ \A f \in new : f.event = n /\ Tells(f, e)
      /\ \A f, g \in new : f.to = g.to => f = g
  BY <1>4, FanOutTells
<1> HIDE DEF new
<1>6. Notifies(new)
  BY <1>2, <1>3, <1>5 DEF Notifies
<1>7. QED
  BY <1>2, <1>6 DEF new, q, e

LEMMA HandleNotifies ==
  ASSUME TypeOK, NEW r \in Requests, CommitHandle(r)
  PROVE  Notifies(ReporterNotice(req[r], Len(audit) + 1))
<1> DEFINE q == req[r]
           e == HandleEvent(q)
           n == Len(audit) + 1
           new == ReporterNotice(q, n)
<1>1. Grows /\ Len(audit') = n /\ audit'[n] = e
  BY HandleLog
<1>2. facts' = facts \cup new
  BY DEF CommitHandle
<1>3. e.type = "report.handle" /\ e.actor = q.actor /\ e.report = q.key
  BY DEF HandleEvent
<1> HIDE DEF q, e
<1>4. /\ \A f \in new : f.event = n /\ Tells(f, e)
      /\ \A f, g \in new : f.to = g.to => f = g
  BY <1>3 DEF ReporterNotice, Tells
<1> HIDE DEF new
<1>5. Notifies(new)
  BY <1>1, <1>2, <1>4 DEF Notifies
<1>6. QED
  BY <1>5 DEF new, q

LEMMA FactsStep ==
  ASSUME IInv, [Next]_vars
  PROVE  facts' = facts \/ \E new : Notifies(new)
<1> USE DEF IInv
<1>1. CASE Accept
  BY <1>1, AcceptStep DEF rows
<1>2. ASSUME NEW r \in Requests,
             CommitStatus(r) \/ CommitDeleteMessage(r) \/ CommitHandle(r)
      PROVE  \E new : Notifies(new)
  BY <1>2, StatusNotifies, DeleteMessageNotifies, HandleNotifies
<1>3. ASSUME NEW r \in Requests,
             \/ Begin(r) \/ CommitFlags(r) \/ CommitReport(r) \/ CommitMember(r)
             \/ CommitOutcome(r) \/ Rollback(r)
      PROVE  facts' = facts
  BY <1>3 DEF Begin, CommitFlags, CommitReport, CommitMember, CommitOutcome, Rollback,
              rows
<1>4. CASE UNCHANGED vars
  BY <1>4 DEF vars, rows
<1>5. QED
  BY <1>1, <1>2, <1>3, <1>4 DEF Next, Step

\* Every notification fact comes from a record of the log about its thread, or
\* its report, and never goes to the one who acted; recipient and event
\* identify it, which a record appended twice or a stale log would break.
THEOREM FactsAreSound == Spec => []FactsSound
<1> DEFINE Recorded == \A f \in facts : /\ f.event \in 1 .. Len(audit)
                                        /\ Tells(f, audit[f.event])
           Once == \A f, g \in facts : f.to = g.to /\ f.event = g.event => f = g
<1>1. FactsSound <=> Recorded /\ Once
  BY DEF FactsSound, Tells
<1>2. Init => Recorded /\ Once
  BY DEF Init
<1>3. IInv /\ Recorded /\ Once /\ [Next]_vars => Recorded' /\ Once'
  <2> SUFFICES ASSUME IInv, Recorded, Once, [Next]_vars PROVE Recorded' /\ Once'
    OBVIOUS
  <2>1. /\ Grows /\ Len(audit) \in Nat /\ Len(audit') \in Nat
        /\ Len(audit) <= Len(audit')
    BY TypeStep, LogGrows DEF IInv, TypeOK, Grows
  <2>2. ASSUME NEW f \in facts
        PROVE  f.event \in 1 .. Len(audit') /\ Tells(f, audit'[f.event])
    <3>1. f.event \in 1 .. Len(audit) /\ Tells(f, audit[f.event])
      OBVIOUS
    <3>2. audit'[f.event] = audit[f.event]
      BY <2>1, <3>1 DEF Grows
    <3>3. QED
      BY <2>1, <3>1, <3>2
  <2>3. CASE facts' = facts
    BY <2>2, <2>3
  <2>4. ASSUME NEW new, Notifies(new) PROVE Recorded' /\ Once'
    <3>1. \A f \in facts' : f \in facts \/ f \in new
      BY <2>4 DEF Notifies
    <3>2. ASSUME NEW f \in new
          PROVE  f.event \in 1 .. Len(audit') /\ Tells(f, audit'[f.event])
      BY <2>1, <2>4, <3>2 DEF Notifies
    <3>3. Recorded'
      BY <2>2, <3>1, <3>2
    <3>4. \A f \in facts : \A g \in new : f.event # g.event
      BY <2>1, <2>4 DEF Notifies
    <3>5. Once'
      BY <2>4, <3>1, <3>4 DEF Notifies
    <3>6. QED
      BY <3>3, <3>5
  <2>5. QED
    BY <2>3, <2>4, FactsStep
<1>4. Spec => [](Recorded /\ Once)
  <2> HIDE DEF Recorded, Once
  <2>1. QED
    BY <1>2, <1>3, Invariant, PTL DEF Spec
<1>5. QED
  <2> HIDE DEF Recorded, Once
  <2>1. QED
    BY <1>1, <1>4, PTL

\* What the running transactions see, set against who came and went.
Watched ==
  \A r \in Requests : snap[r].begun =>
    /\ FansOut(req[r])
    /\ around[r].stayed \subseteq snap[r].sees
    /\ snap[r].sees \subseteq around[r].met

\* A transaction keeps its snapshot while its handler runs.
LEMMA SnapshotStep ==
  ASSUME IInv, Watched, Step, NEW r \in Requests, snap'[r].begun, ~Begin(r)
  PROVE  snap[r].begun /\ snap'[r] = snap[r] /\ req'[r] = req[r]
<1> USE DEF IInv
<1>1. ASSUME NEW t, snap' = Restarted(t)
      PROVE  snap'[r] = snap[r] /\ ~(FansOut(req[r]) /\ req[r].thread = t)
  BY <1>1 DEF Restarted, NoSnapshot
<1>2. ASSUME snap'[r] = snap[r] PROVE FansOut(req[r])
  BY <1>2 DEF Watched
<1>3. ASSUME NEW q, Idle = q PROVE ~FansOut(q)
  BY <1>3 DEF Idle, FansOut, StatusActions, LifecycleActions
<1>4. ASSUME NEW s \in Requests, Finish(s), s # r PROVE req'[r] = req[r]
  BY <1>4 DEF Finish, TypeOK
<1>5. CASE Accept
  <2>1. PICK s \in Requests, q \in Pending : req[s] = Idle /\ req' = [req EXCEPT ![s] = q]
    BY <1>5, AcceptStep
  <2>2. snap'[r] = snap[r]
    BY <1>5, AcceptStep
  <2>3. s # r
    BY <1>2, <1>3, <2>1, <2>2
  <2>4. QED
    BY <2>1, <2>2, <2>3 DEF TypeOK
<1>6. ASSUME NEW s \in Requests, Begin(s)
      PROVE  snap'[r] = snap[r] /\ req'[r] = req[r]
  BY <1>6 DEF Begin, TypeOK
<1>7. ASSUME NEW s \in Requests, CommitStatus(s) \/ CommitDeleteMessage(s)
      PROVE  snap'[r] = snap[r] /\ req'[r] = req[r]
  <2>1. snap' = Restarted(req[s].thread) /\ Finish(s)
    BY <1>7 DEF CommitStatus, CommitDeleteMessage
  <2>2. FansOut(req[s])
    BY <1>7 DEF CommitStatus, CommitDeleteMessage, StatusRequest, MessageRequest, FansOut
  <2>3. QED
    BY <1>1, <1>4, <2>1, <2>2
<1>8. ASSUME NEW s \in Requests,
             \/ CommitFlags(s) \/ CommitHandle(s) \/ CommitReport(s)
             \/ CommitMember(s) \/ CommitOutcome(s)
      PROVE  snap'[r] = snap[r] /\ req'[r] = req[r]
  <2>1. Finish(s) /\ (snap' = snap \/ \E t : snap' = Restarted(t))
    BY <1>8 DEF CommitFlags, CommitHandle, CommitReport, CommitMember, CommitOutcome
  <2>2. ~FansOut(req[s])
    BY <1>8 DEF CommitFlags, CommitHandle, CommitReport, CommitMember, CommitOutcome,
                FlagRequest, HandleRequest, ReportRequest, MemberRequest, OutcomeRequest,
                FlagOps, HandleOps, MemberOps, FansOut, StatusActions, LifecycleActions
  <2>3. snap'[r] = snap[r]
    BY <1>1, <2>1
  <2>4. QED
    BY <1>2, <1>4, <2>1, <2>2, <2>3
<1>9. ASSUME NEW s \in Requests, Rollback(s)
      PROVE  snap'[r] = snap[r] /\ req'[r] = req[r]
  <2>1. s # r
    BY <1>9 DEF Rollback, NoSnapshot, TypeOK
  <2>2. QED
    BY <1>4, <1>9, <2>1 DEF Rollback, TypeOK
<1>10. snap'[r] = snap[r] /\ req'[r] = req[r]
  BY <1>5, <1>6, <1>7, <1>8, <1>9 DEF Step
<1>11. QED
  BY <1>10

LEMMA WatchedStep ==
  ASSUME IInv, Watched, [Next]_vars PROVE Watched'
<1> SUFFICES ASSUME NEW r \in Requests, snap'[r].begun
             PROVE  /\ FansOut(req'[r])
                    /\ around'[r].stayed \subseteq snap'[r].sees
                    /\ snap'[r].sees \subseteq around'[r].met
  BY DEF Watched
<1>1. CASE UNCHANGED vars
  BY <1>1 DEF vars, Watched
<1>2. CASE Next
  <2> DEFINE here == Active(member', req'[r].thread)
  <2>1. FansOut(req'[r]) /\ req'[r] = req[r] =>
          around'[r] = [stayed |-> around[r].stayed \cap here,
                        met    |-> around[r].met \cup here]
    BY <1>2 DEF Next, Observe
  <2>2. CASE Begin(r)
    <3>1. /\ FansOut(req[r]) /\ req'[r] = req[r]
          /\ snap'[r].sees = here
      BY <2>2 DEF Begin, rows, IInv, TypeOK
    <3> HIDE DEF here
    <3>2. QED
      BY <2>1, <3>1
  <2>3. CASE ~Begin(r)
    <3>1. snap[r].begun /\ snap'[r] = snap[r] /\ req'[r] = req[r]
      BY <1>2, <2>3, SnapshotStep DEF Next
    <3> HIDE DEF here
    <3>2. QED
      BY <2>1, <3>1 DEF Watched
  <2>4. QED
    BY <2>2, <2>3
<1>3. QED
  BY <1>1, <1>2

\* What transactions see lies between who stayed in the thread since their
\* handlers read and who was there at all.
LEMMA WatchedInvariant == Spec => []Watched
<1>1. Init => Watched
  BY DEF Init, Watched, NoSnapshot
<1>2. IInv /\ Watched /\ [Next]_vars => Watched'
  BY WatchedStep
<1>3. QED
  BY <1>1, <1>2, Invariant, PTL DEF Spec

\* A handler that fans out and ends with a record has told exactly those its
\* transaction saw, the actor aside.
LEMMA TellsSeen ==
  ASSUME IInv, FactsSound, Next, NEW r \in Requests, FansOut(req[r]), req'[r] = Idle,
         Len(audit') > Len(audit)
  PROVE  /\ snap[r].begun
         /\ {f.to : f \in {g \in facts' : g.event = Len(audit')}}
              = snap[r].sees \ {req[r].actor}
<1> USE DEF IInv
<1>1. req[r] # Idle
  BY DEF Idle, FansOut, StatusActions, LifecycleActions
<1>2. ASSUME NEW s \in Requests, Finish(s) PROVE s = r
  BY <1>1, <1>2 DEF Finish, TypeOK
<1>3. Len(audit) \in Nat
  BY DEF TypeOK
<1>4. audit' # audit
  BY <1>3
<1>5. CommitStatus(r) \/ CommitDeleteMessage(r)
  <2>1. ASSUME NEW s \in Requests, CommitFlags(s) \/ CommitHandle(s) PROVE FALSE
    <3>1. s = r
      BY <1>2, <2>1 DEF CommitFlags, CommitHandle
    <3>2. QED
      BY <2>1, <3>1 DEF CommitFlags, CommitHandle, FlagRequest, HandleRequest, FlagOps,
                        HandleOps, FansOut, StatusActions, LifecycleActions
  <2>2. ASSUME NEW s \in Requests,
               \/ Begin(s) \/ CommitReport(s) \/ CommitMember(s) \/ CommitOutcome(s)
               \/ Rollback(s)
        PROVE  audit' = audit
    BY <2>2 DEF Begin, CommitReport, CommitMember, CommitOutcome, Rollback, rows
  <2>3. ~Accept
    BY <1>4, AcceptStep DEF rows
  <2>4. PICK s \in Requests : CommitStatus(s) \/ CommitDeleteMessage(s)
    BY <1>4, <2>1, <2>2, <2>3 DEF Next, Step
  <2>5. s = r
    BY <1>2, <2>4 DEF CommitStatus, CommitDeleteMessage
  <2>6. QED
    BY <2>4, <2>5
<1> DEFINE n   == Len(audit) + 1
           new == FanOut(req[r], snap[r].sees, n, NoticeReason(req[r].op))
<1>6. Len(audit') = n /\ facts' = facts \cup new
  BY <1>5, StatusNotifies, DeleteMessageNotifies DEF Notifies
<1>7. \A f \in facts : f.event # n
  BY <1>3 DEF FactsSound
<1> DEFINE told == snap[r].sees \ {req[r].actor}
           fact(p) == [to |-> p, thread |-> req[r].thread, event |-> n,
                       reason |-> NoticeReason(req[r].op)]
<1>8. /\ \A f \in new : f.event = n /\ f.to \in told
      /\ \A p \in told : \E f \in new : f.to = p
  <2>1. new = {fact(p) : p \in told}
    BY DEF FanOut
  <2>2. \A p \in told : fact(p).event = n /\ fact(p).to = p
    OBVIOUS
  <2> HIDE DEF new, told, n, fact
  <2>3. QED
    BY <2>1, <2>2
<1>9. snap[r].begun
  BY <1>5 DEF CommitStatus, CommitDeleteMessage
<1> HIDE DEF new, told, fact, n
<1>10. \A f \in facts' : f.event = n <=> f \in new
  BY <1>6, <1>7, <1>8
<1>11. {g \in facts' : g.event = Len(audit')} = new
  BY <1>6, <1>10
<1>12. {f.to : f \in new} = told
  BY <1>8
<1>13. QED
  BY <1>9, <1>11, <1>12 DEF told

\* A status action or a message deletion tells everyone who has been in the
\* thread since its handler read the rows, and nobody who was not there since,
\* however members come and go while the transaction runs, or is begun again.
THEOREM WatchersAreNotified == Spec => WatchersNotified
<1> DEFINE Told ==
      \A r \in Requests :
        FansOut(req[r]) /\ req'[r] = Idle /\ Len(audit') > Len(audit) =>
          LET told == {f.to : f \in {g \in facts' : g.event = Len(audit')}} IN
            /\ around[r].stayed \ {req[r].actor} \subseteq told
            /\ told \subseteq around[r].met \ {req[r].actor}
<1>1. IInv /\ Watched /\ FactsSound /\ [Next]_vars => [Told]_vars
  <2> SUFFICES ASSUME IInv, Watched, FactsSound, Next, NEW r \in Requests,
                      FansOut(req[r]), req'[r] = Idle, Len(audit') > Len(audit)
               PROVE  LET told == {f.to : f \in {g \in facts' : g.event = Len(audit')}} IN
                        /\ around[r].stayed \ {req[r].actor} \subseteq told
                        /\ told \subseteq around[r].met \ {req[r].actor}
    OBVIOUS
  <2> DEFINE told == {f.to : f \in {g \in facts' : g.event = Len(audit')}}
  <2>1. snap[r].begun /\ told = snap[r].sees \ {req[r].actor}
    BY TellsSeen
  <2>2. around[r].stayed \subseteq snap[r].sees /\ snap[r].sees \subseteq around[r].met
    BY <2>1 DEF Watched
  <2> HIDE DEF told
  <2>3. /\ around[r].stayed \ {req[r].actor} \subseteq told
        /\ told \subseteq around[r].met \ {req[r].actor}
    BY <2>1, <2>2
  <2>4. QED
    BY <2>3 DEF told
<1>2. QED
  BY <1>1, Invariant, WatchedInvariant, FactsAreSound, PTL DEF Spec, WatchersNotified

LEMMA FlagLogged ==
  ASSUME IInv, NEW r \in Requests, CommitFlags(r), NEW f \in Flags,
         (f \in raised'[req[r].thread]) # (f \in raised[req[r].thread]),
         (f \in req[r].seen) = (f \in raised[req[r].thread])
  PROVE  \E i \in Len(audit) + 1 .. Len(audit') : audit'[i] = FlagEvent(f, req[r])
<1> DEFINE q == req[r]
           Differs(g) == (g \in q.on /\ g \notin q.seen) \/ (g \in q.off /\ g \in q.seen)
           e1 == FlagEvent("pinned", q)
           e2 == FlagEvent("featured", q)
<1>1. TypeOK /\ audit \in Seq(AuditEvent)
  BY DEF IInv, TypeOK
<1>2. q \in FlagRequest /\ q.thread \in Threads
  BY DEF CommitFlags, FlagRequest
<1>3. raised'[q.thread] = (raised[q.thread] \cup q.on) \ q.off
  BY <1>1, <1>2 DEF CommitFlags, TypeOK
<1>4. Differs(f)
  BY <1>3
<1>5. audit' = AppendIf(Differs("featured"), AppendIf(Differs("pinned"), audit, e1), e2)
  BY DEF CommitFlags
<1>6. e1 \in AuditEvent /\ e2 \in AuditEvent
  BY <1>2, FlagEventType DEF Flags
<1> HIDE DEF q, e1, e2, Differs
<1>7. CASE f = "pinned"
  <2>1. audit' \in {Append(audit, e1), Append(Append(audit, e1), e2)}
    BY <1>4, <1>5, <1>7 DEF AppendIf
  <2>2. Len(audit) + 1 \in Len(audit) + 1 .. Len(audit') /\ audit'[Len(audit) + 1] = e1
    BY <1>1, <1>6, <2>1
  <2>3. QED
    BY <1>7, <2>2 DEF e1, q
<1>8. CASE f = "featured"
  <2>1. audit' \in {Append(audit, e2), Append(Append(audit, e1), e2)}
    BY <1>4, <1>5, <1>8 DEF AppendIf
  <2>2. Len(audit') \in Len(audit) + 1 .. Len(audit') /\ audit'[Len(audit')] = e2
    BY <1>1, <1>6, <2>1
  <2>3. QED
    BY <1>8, <2>2 DEF e2, q
<1>9. QED
  BY <1>7, <1>8 DEF Flags

\* Only the commit of a flag handler changes the flags of a thread.
LEMMA FlagsChange ==
  ASSUME IInv, [Next]_vars, raised' # raised
  PROVE  \E r \in Requests : CommitFlags(r)
  BY AcceptStep
     DEF Next, Step, Begin, CommitStatus, CommitDeleteMessage, CommitHandle,
         CommitReport, CommitMember, CommitOutcome, Rollback, rows, vars

\* A flag that the handler read as it still is when the handler commits never
\* flips without its record.
THEOREM FlagsFlipUnlessRaced == Spec => FlagsUnlessRaced
<1>1. ASSUME IInv, [Next]_vars, NEW r \in Requests, NEW f \in Flags,
             req[r].op \in FlagOps, req'[r] = Idle,
             (f \in raised'[req[r].thread]) # (f \in raised[req[r].thread]),
             (f \in req[r].seen) = (f \in raised[req[r].thread])
      PROVE  \E i \in Len(audit) + 1 .. Len(audit') : audit'[i] = FlagEvent(f, req[r])
  <2>1. PICK s \in Requests : CommitFlags(s)
    BY <1>1, FlagsChange
  <2>2. req'[r] # req[r]
    BY <1>1 DEF Idle, FlagOps
  <2>3. s = r
    BY <1>1, <2>1, <2>2 DEF CommitFlags, Finish, IInv, TypeOK
  <2>4. QED
    BY <1>1, <2>1, <2>3, FlagLogged
<1>2. IInv /\ [Next]_vars =>
        [\A r \in Requests : \A f \in Flags :
           LET q == req[r] IN
             /\ q.op \in FlagOps /\ req'[r] = Idle
             /\ (f \in raised'[q.thread]) # (f \in raised[q.thread])
             /\ (f \in q.seen) = (f \in raised[q.thread])
             => \E i \in Len(audit) + 1 .. Len(audit') :
                  audit'[i] = FlagEvent(f, q)]_vars
  BY <1>1
<1>3. QED
  BY <1>2, Invariant, PTL DEF Spec, FlagsUnlessRaced

-----------------------------------------------------------------------------
(* One handler at a time. *)

\* No two handlers run at once.
Alone == \A r, s \in Requests : r = s

\* What handler q remembers is so now, and not only when it was read.
UpToDate(q) ==
  /\ q \in StatusRequest => q.seen = status[q.thread]
  /\ q \in FlagRequest => q.seen = raised[q.thread] /\ q.on \cap q.off = {}
  /\ q \in HandleRequest => report[q.key] = "pending"

NothingStale == \A r \in Requests : UpToDate(req[r])

LEMMA OtherUpToDate ==
  ASSUME NEW q, q.op \notin StatusActions \cup FlagOps \cup HandleOps
  PROVE  UpToDate(q)
  BY DEF UpToDate, StatusRequest, FlagRequest, HandleRequest

LEMMA AcceptUpToDate ==
  ASSUME NEW r \in Requests, IInv, Accept, req'[r] # req[r]
  PROVE  UpToDate(req'[r])
<1> USE DEF IInv, Remember, StatusActions, LifecycleActions, FlagOps, HandleOps
<1>1. ASSUME NEW s \in Requests, NEW q, Remember(s, q) PROVE s = r /\ req'[r] = q
  BY <1>1 DEF TypeOK
<1>2. ASSUME NEW p \in Principals, NEW t \in Threads, NEW a \in StatusActions,
             NEW q, q = [op |-> a, actor |-> p, thread |-> t, seen |-> status[t],
                         seenAt |-> Len(audit)]
      PROVE  UpToDate(q)
  BY <1>2 DEF UpToDate, StatusRequest, FlagRequest, HandleRequest
<1>3. ASSUME NEW s \in Requests, NEW p \in Principals, NEW t \in Threads,
             \/ \E a \in LifecycleActions : AcceptLifecycle(s, p, t, a)
             \/ AcceptSoftDelete(s, p, t)
             \/ AcceptResolve(s, p, t)
      PROVE  UpToDate(req'[r])
  <2>1. PICK a \in StatusActions :
          Remember(s, [op |-> a, actor |-> p, thread |-> t, seen |-> status[t],
                       seenAt |-> Len(audit)])
    BY <1>3 DEF AcceptLifecycle, AcceptSoftDelete, AcceptResolve
  <2>2. QED
    BY <1>1, <1>2, <2>1
<1>4. ASSUME NEW p \in Principals, NEW t \in Threads, NEW op \in FlagOps,
             NEW on, NEW off, on \cap off = {},
             NEW q, q = [op |-> op, actor |-> p, thread |-> t, on |-> on, off |-> off,
                         seen |-> raised[t]]
      PROVE  UpToDate(q)
  BY <1>4 DEF UpToDate, StatusRequest, FlagRequest, HandleRequest
<1>5. ASSUME NEW s \in Requests, NEW p \in Principals, NEW t \in Threads,
             \/ \E f \in Flags : AcceptFlag(s, p, t, f)
             \/ \E on, off \in SUBSET Flags : AcceptPatch(s, p, t, on, off)
      PROVE  UpToDate(req'[r])
  <2>1. ASSUME NEW f \in Flags, AcceptFlag(s, p, t, f) PROVE UpToDate(req'[r])
    <3> DEFINE on  == IF f \in raised[t] THEN {} ELSE {f}
               off == IF f \in raised[t] THEN {f} ELSE {}
               q   == [op |-> "flag", actor |-> p, thread |-> t, on |-> on, off |-> off,
                       seen |-> raised[t]]
    <3>1. on \cap off = {} /\ Remember(s, q)
      BY <2>1 DEF AcceptFlag
    <3> HIDE DEF on, off
    <3>2. UpToDate(q)
      BY <1>4, <3>1
    <3>3. req'[r] = q
      BY <1>1, <3>1
    <3>4. QED
      BY <3>2, <3>3
  <2>2. ASSUME NEW on \in SUBSET Flags, NEW off \in SUBSET Flags,
               AcceptPatch(s, p, t, on, off)
        PROVE  UpToDate(req'[r])
    <3> DEFINE q == [op |-> "patch", actor |-> p, thread |-> t, on |-> on, off |-> off,
                     seen |-> raised[t]]
    <3>1. on \cap off = {} /\ Remember(s, q)
      BY <2>2 DEF AcceptPatch
    <3>2. UpToDate(q)
      BY <1>4, <3>1
    <3>3. req'[r] = q
      BY <1>1, <3>1
    <3>4. QED
      BY <3>2, <3>3
  <2>3. QED
    BY <1>5, <2>1, <2>2
<1>6. ASSUME NEW s \in Requests, NEW p \in Principals, NEW k \in ReportKeys,
             NEW op \in HandleOps, AcceptHandle(s, p, k, op)
      PROVE  UpToDate(req'[r])
  <2> DEFINE q == [op |-> op, actor |-> p, key |-> k, seenAt |-> Len(audit)]
  <2>1. UpToDate(q)
    BY <1>6 DEF AcceptHandle, UpToDate, StatusRequest, FlagRequest
  <2>2. req'[r] = q
    BY <1>1, <1>6 DEF AcceptHandle
  <2>3. QED
    BY <2>1, <2>2
<1>7. ASSUME NEW s \in Requests,
             \/ \E p \in Principals, t \in Threads :
                  \/ \E m \in Messages : AcceptDeleteMessage(s, p, t, m)
                  \/ \E op \in MemberOps, who \in Principals :
                       AcceptMember(s, p, t, op, who)
                  \/ AcceptOutcome(s, p, t)
             \/ \E k \in ReportKeys : AcceptReport(s, k)
      PROVE  UpToDate(req'[r])
  <2>1. ASSUME NEW q, Remember(s, q), q.op \notin StatusActions \cup FlagOps \cup HandleOps
        PROVE  UpToDate(req'[r])
    <3>1. req'[r] = q /\ UpToDate(q)
      BY <1>1, <2>1, OtherUpToDate
    <3>2. QED
      BY <3>1
  <2>2. ASSUME NEW p \in Principals, NEW t \in Threads, NEW m \in Messages,
               AcceptDeleteMessage(s, p, t, m)
        PROVE  UpToDate(req'[r])
    <3> DEFINE q == [op |-> "deleteMessage", actor |-> p, thread |-> t, message |-> m]
    <3>1. Remember(s, q) /\ q.op = "deleteMessage"
      BY <2>2 DEF AcceptDeleteMessage
    <3> HIDE DEF q
    <3>2. QED
      BY <2>1, <3>1
  <2>3. ASSUME NEW p \in Principals, NEW t \in Threads, NEW op \in MemberOps,
               NEW who \in Principals, AcceptMember(s, p, t, op, who)
        PROVE  UpToDate(req'[r])
    <3> DEFINE q == [op |-> op, actor |-> p, thread |-> t, who |-> who]
    <3>1. Remember(s, q) /\ q.op = op
      BY <2>3 DEF AcceptMember
    <3> HIDE DEF q
    <3>2. QED
      BY <2>1, <3>1 DEF MemberOps
  <2>4. ASSUME NEW p \in Principals, NEW t \in Threads, AcceptOutcome(s, p, t)
        PROVE  UpToDate(req'[r])
    <3> DEFINE q == [op |-> "outcome", actor |-> p, thread |-> t]
    <3>1. Remember(s, q) /\ q.op = "outcome"
      BY <2>4 DEF AcceptOutcome
    <3> HIDE DEF q
    <3>2. QED
      BY <2>1, <3>1
  <2>5. ASSUME NEW k \in ReportKeys, AcceptReport(s, k) PROVE UpToDate(req'[r])
    <3> DEFINE q == [op |-> "report", key |-> k]
    <3>1. Remember(s, q) /\ q.op = "report"
      BY <2>5 DEF AcceptReport
    <3> HIDE DEF q
    <3>2. QED
      BY <2>1, <3>1
  <2>6. QED
    BY <1>7, <2>2, <2>3, <2>4, <2>5
<1>8. QED
  BY <1>3, <1>5, <1>6, <1>7 DEF Accept

LEMMA IdleUpToDate == UpToDate(Idle)
  BY OtherUpToDate DEF Idle, StatusActions, LifecycleActions, FlagOps, HandleOps

\* Every commit ends its handler, and with it the only one there is.
LEMMA AloneStep ==
  ASSUME Alone, IInv, NothingStale, [Next]_vars
  PROVE  NothingStale'
<1> SUFFICES ASSUME NEW r \in Requests PROVE UpToDate(req[r])'
  BY DEF NothingStale
<1>1. ASSUME UNCHANGED <<status, raised, report>>, UpToDate(req'[r])
      PROVE  UpToDate(req[r])'
  BY <1>1 DEF UpToDate
<1>2. CASE Accept
  <2>1. UpToDate(req'[r])
    BY <1>2, AcceptUpToDate DEF NothingStale
  <2>2. QED
    BY <1>1, <1>2, <2>1, AcceptStep DEF rows
<1>3. ASSUME Next, ~Accept, \A s \in Requests : ~Begin(s) PROVE req'[r] = Idle
  <2>1. PICK s \in Requests : Finish(s)
    BY <1>3
       DEF Next, Step, CommitStatus, CommitFlags, CommitDeleteMessage, CommitHandle,
           CommitReport, CommitMember, CommitOutcome, Rollback
  <2>2. QED
    BY <2>1 DEF Alone, Finish, IInv, TypeOK
<1>4. CASE UNCHANGED vars \/ \E s \in Requests : Begin(s)
  BY <1>1, <1>4 DEF vars, rows, Begin, NothingStale
<1>5. req'[r] = Idle => UpToDate(req[r])'
  BY DEF UpToDate, Idle, StatusRequest, FlagRequest, HandleRequest, StatusActions,
         LifecycleActions, FlagOps, HandleOps
<1>6. QED
  BY <1>2, <1>3, <1>4, <1>5

LEMMA AloneInvariant == ASSUME Alone PROVE Spec => []NothingStale
<1>1. Init => NothingStale
  BY IdleUpToDate DEF Init, NothingStale
<1>2. IInv /\ NothingStale /\ [Next]_vars => NothingStale'
  BY AloneStep
<1>3. QED
  BY <1>1, <1>2, Invariant, PTL DEF Spec

\* A status that changes in a step is moved from where it is by a legal action.
LEMMA AloneStatus ==
  ASSUME IInv, NothingStale, [Next]_vars, NEW t \in Threads, status'[t] # status[t]
  PROVE  LET e == audit'[Len(audit')] IN
         \E a \in StatusActions :
           /\ LegalTransition(a, status[t]) /\ status'[t] = Target(a)
           /\ e.type = "report.handle" \/ (e.type = a /\ e.from = status[t])
<1> USE DEF IInv
<1>1. ASSUME NEW r \in Requests, CommitStatus(r)
      PROVE  LET e == audit'[Len(audit')] IN
             \E a \in StatusActions :
               /\ LegalTransition(a, status[t]) /\ status'[t] = Target(a)
               /\ e.type = "report.handle" \/ (e.type = a /\ e.from = status[t])
  <2> DEFINE q == req[r]
  <2>1. /\ q \in StatusRequest /\ Len(audit') = Len(audit) + 1
        /\ audit'[Len(audit) + 1] = StatusEvent(q)
        /\ status' = [status EXCEPT ![q.thread] = Target(q.op)]
    BY <1>1, StatusLog
  <2>2. q.thread = t /\ status'[t] = Target(q.op) /\ q.op \in StatusActions
    BY <2>1 DEF TypeOK, StatusRequest
  <2>3. LegalTransition(q.op, q.seen)
    BY <2>1 DEF InFlightSound, Sound
  <2>4. q.seen = status[t]
    BY <2>1, <2>2 DEF NothingStale, UpToDate
  <2>5. StatusEvent(q).type = q.op /\ StatusEvent(q).from = q.seen
    BY DEF StatusEvent
  <2> HIDE DEF q
  <2>6. QED
    BY <2>1, <2>2, <2>3, <2>4, <2>5
<1>2. ASSUME NEW r \in Requests, CommitHandle(r)
      PROVE  /\ LegalTransition("softDelete", status[t])
             /\ status'[t] = "deleted"
             /\ audit'[Len(audit')].type = "report.handle"
  <2>1. req[r].op = "delete" /\ req[r].key[2] = 0 /\ req[r].key[1] = t
        /\ status'[t] = "deleted"
    BY <1>2 DEF CommitHandle, TypeOK
  <2>2. LegalTransition("softDelete", status[t])
    BY <1>2, <2>1 DEF CommitHandle, CascadeAllowed
  <2>3. Len(audit') = Len(audit) + 1 /\ audit'[Len(audit) + 1] = HandleEvent(req[r])
    BY <1>2, HandleLog
  <2>4. HandleEvent(req[r]).type = "report.handle"
    BY DEF HandleEvent
  <2>5. QED
    BY <2>1, <2>2, <2>3, <2>4
<1>3. Target("softDelete") = "deleted" /\ "softDelete" \in StatusActions
  BY DEF Target, StatusActions
<1>4. CASE Calm
  BY <1>4 DEF Calm
<1>5. QED
  BY <1>1, <1>2, <1>3, <1>4, StepCases

\* With one handler at a time every change of a status is a legal transition
\* from the status the thread has, and is recorded with it: illegal moves come
\* only from handlers that overlap.
THEOREM SerialStatusSteps == ASSUME Alone PROVE Spec => StatusStepsLegal
<1>1. IInv /\ NothingStale /\ [Next]_vars =>
        [\A t \in Threads : status'[t] # status[t] =>
           LET e == audit'[Len(audit')] IN
             \E a \in StatusActions :
               /\ LegalTransition(a, status[t]) /\ status'[t] = Target(a)
               /\ e.type = "report.handle" \/ (e.type = a /\ e.from = status[t])]_vars
  BY AloneStatus
<1>2. QED
  BY <1>1, Invariant, AloneInvariant, PTL DEF Spec, StatusStepsLegal

\* With one handler at a time deleted is terminal.
THEOREM SerialDeletion == ASSUME Alone PROVE Spec => DeletedIsTerminal
<1>1. \A a \in StatusActions : ~LegalTransition(a, "deleted")
  BY DEF StatusActions, LifecycleActions, LegalTransition, Sources, Statuses
<1>2. IInv /\ NothingStale /\ [Next]_vars =>
        [\A t \in Threads : status[t] = "deleted" => status'[t] = "deleted"]_vars
  <2> SUFFICES ASSUME IInv, NothingStale, [Next]_vars, NEW t \in Threads,
                      status[t] = "deleted", status'[t] # status[t]
               PROVE  FALSE
    OBVIOUS
  <2>1. \E a \in StatusActions : LegalTransition(a, status[t])
    BY AloneStatus
  <2>2. QED
    BY <1>1, <2>1
<1>3. QED
  BY <1>2, Invariant, AloneInvariant, PTL DEF Spec, DeletedIsTerminal

\* With one handler at a time a flag never flips without its record, whether by
\* its own endpoint or by a PATCH that compares with what it read.
THEOREM SerialFlags == ASSUME Alone PROVE Spec => FlagFlipsRecorded
<1>1. ASSUME IInv, NothingStale, [Next]_vars, NEW t \in Threads, NEW f \in Flags,
             (f \in raised'[t]) # (f \in raised[t])
      PROVE  \E i \in Len(audit) + 1 .. Len(audit') :
               /\ audit'[i].thread = t
               /\ audit'[i].type = CASE f = "pinned" /\ f \in raised'[t]      -> "pin"
                                     [] f = "pinned" /\ f \notin raised'[t]   -> "unpin"
                                     [] f = "featured" /\ f \in raised'[t]    -> "feature"
                                     [] f = "featured" /\ f \notin raised'[t] -> "unfeature"
  <2>1. PICK r \in Requests : CommitFlags(r)
    BY <1>1, FlagsChange
  <2>2. /\ req[r] \in FlagRequest /\ req[r].thread = t
        /\ raised'[t] = (raised[t] \cup req[r].on) \ req[r].off
    BY <1>1, <2>1 DEF CommitFlags, FlagRequest, IInv, TypeOK
  <2>3. req[r].seen = raised[t] /\ req[r].on \cap req[r].off = {}
    BY <1>1, <2>2 DEF NothingStale, UpToDate
  <2>4. PICK i \in Len(audit) + 1 .. Len(audit') : audit'[i] = FlagEvent(f, req[r])
    BY <1>1, <2>1, <2>2, <2>3, FlagLogged
  <2>5. f \in req[r].on <=> f \in raised'[t]
    BY <1>1, <2>2, <2>3
  <2>6. audit'[i].thread = t
    BY <2>2, <2>4 DEF FlagEvent
  <2>7. CASE f = "pinned"
    BY <2>4, <2>5, <2>6, <2>7 DEF FlagEvent
  <2>8. CASE f = "featured"
    BY <2>4, <2>5, <2>6, <2>8 DEF FlagEvent
  <2>9. QED
    BY <2>7, <2>8 DEF Flags
<1>2. IInv /\ NothingStale /\ [Next]_vars =>
        [\A t \in Threads : \A f \in Flags :
           (f \in raised'[t]) # (f \in raised[t]) =>
             \E i \in Len(audit) + 1 .. Len(audit') :
               /\ audit'[i].thread = t
               /\ audit'[i].type = CASE f = "pinned" /\ f \in raised'[t]      -> "pin"
                                     [] f = "pinned" /\ f \notin raised'[t]   -> "unpin"
                                     [] f = "featured" /\ f \in raised'[t]    -> "feature"
                                     [] f = "featured" /\ f \notin raised'[t] -> "unfeature"
        ]_vars
  BY <1>1
<1>3. QED
  BY <1>2, Invariant, AloneInvariant, PTL DEF Spec, FlagFlipsRecorded

\* With one handler at a time a report is handled at most once.
THEOREM SerialHandling == ASSUME Alone PROVE Spec => []HandledOnce
<1>1. Init => HandledOnce
  BY DEF Init, HandledOnce
<1>2. IInv /\ NothingStale /\ HandledOnce /\ [Next]_vars => HandledOnce'
  <2> SUFFICES ASSUME IInv, NothingStale, HandledOnce, [Next]_vars,
                      NEW i \in 1 .. Len(audit'), NEW k \in 1 .. Len(audit'),
                      NEW n \in ReportKeys, i < k,
                      HandlesReport(audit'[i], n), HandlesReport(audit'[k], n)
               PROVE  FALSE
    <3>1. \A i, k \in 1 .. Len(audit') : i < k \/ k < i \/ i = k
      BY TypeStep DEF TypeOK
    <3>2. QED
      BY <3>1 DEF HandledOnce
  <2>1. Grows /\ Len(audit) \in Nat
    BY LogGrows DEF IInv, TypeOK
  <2>2. CASE k \in 1 .. Len(audit)
    <3>1. i \in 1 .. Len(audit)
      BY <2>1, <2>2
    <3>2. audit'[i] = audit[i] /\ audit'[k] = audit[k]
      BY <2>1, <2>2, <3>1 DEF Grows
    <3>3. i = k
      BY <2>2, <3>1, <3>2 DEF HandledOnce
    <3>4. QED
      BY <3>3
  <2>3. ASSUME NEW r \in Requests, req[r] \in HandleRequest,
               audit'[k] = HandleEvent(req[r]), k = Len(audit) + 1
        PROVE  FALSE
    <3>1. req[r].key = n
      BY <2>3 DEF HandleEvent, HandlesReport
    <3>2. report[n] = "pending"
      BY <2>3, <3>1 DEF NothingStale, UpToDate
    <3>3. Accounted(n)
      BY DEF IInv, ReportExplained
    <3>4. \A j \in 1 .. Len(audit) : ~HandlesReport(audit[j], n)
      BY <3>2, <3>3 DEF Accounted
    <3>5. i \in 1 .. Len(audit) /\ audit'[i] = audit[i]
      BY <2>1, <2>3 DEF Grows
    <3>6. QED
      BY <3>4, <3>5
  <2>4. ASSUME NEW r \in Requests, req[r] \in StatusRequest,
               audit'[k] = StatusEvent(req[r])
        PROVE  FALSE
    BY <2>4 DEF StatusEvent, StatusRequest, HandlesReport, StatusActions, LifecycleActions
  <2>5. QED
    BY <2>2, <2>3, <2>4, NewRecord DEF HandlesReport
<1>3. QED
  BY <1>1, <1>2, Invariant, AloneInvariant, PTL DEF Spec

-----------------------------------------------------------------------------
(* Refinement. *)

\* The governance layer implements the ledger: whatever requests race, a status
\* moves with exactly one record that names it, and the log is append-only.
THEOREM ImplementsLedger == Spec => LedgerSpec
<1>1. Init => Ledger!LedgerInit
  BY DEF Init, Ledger!LedgerInit
<1>2. IInv /\ [Next]_vars => [Ledger!LedgerNext]_Ledger!LedgerVars
  <2> SUFFICES ASSUME IInv, [Next]_vars
               PROVE  Ledger!LedgerNext
    OBVIOUS
  <2>1. Grows /\ Len(audit) \in Nat /\ Ledger!Extends(audit', audit)
    BY LogGrows DEF IInv, TypeOK, Grows, Ledger!Extends
  <2>2. ASSUME NEW r \in Requests, CommitStatus(r) PROVE Ledger!LedgerNext
    <3> DEFINE q == req[r]
               e == audit'[Len(audit) + 1]
    <3>1. /\ q \in StatusRequest /\ Len(audit') = Len(audit) + 1
          /\ e = StatusEvent(q)
          /\ status' = [status EXCEPT ![q.thread] = Target(q.op)]
      BY <2>2, StatusLog DEF IInv
    <3>2. q.thread \in Threads /\ SetsStatus(e, q.thread) /\ e.to = Target(q.op)
      BY <3>1 DEF StatusRequest, StatusEvent, SetsStatus
    <3>3. Ledger!Govern(q.thread)
      BY <2>1, <3>1, <3>2 DEF Ledger!Govern
    <3>4. QED
      BY <3>2, <3>3 DEF Ledger!LedgerNext
  <2>3. ASSUME NEW r \in Requests, CommitHandle(r) PROVE Ledger!LedgerNext
    <3> DEFINE q == req[r]
               e == audit'[Len(audit) + 1]
    <3>1. /\ q \in HandleRequest /\ Len(audit') = Len(audit) + 1
          /\ e = HandleEvent(q)
          /\ status' = IF q.op = "delete" /\ q.key[2] = 0
                       THEN [status EXCEPT ![q.key[1]] = "deleted"] ELSE status
      BY <2>3, HandleLog DEF IInv, CommitHandle
    <3>2. q.key[1] \in Threads /\ q.op \in HandleOps
      BY <3>1 DEF HandleRequest, ReportKeys
    <3>3. CASE q.op = "delete" /\ q.key[2] = 0
      <4>1. e.to = "deleted" /\ SetsStatus(e, q.key[1])
        BY <3>1, <3>3 DEF HandleEvent, SetsStatus, Handled
      <4>2. Ledger!Govern(q.key[1])
        BY <2>1, <3>1, <3>3, <4>1 DEF Ledger!Govern
      <4>3. QED
        BY <3>2, <4>2 DEF Ledger!LedgerNext
    <3>4. CASE ~(q.op = "delete" /\ q.key[2] = 0)
      <4>1. \A t \in Threads : ~SetsStatus(e, t)
        BY <3>1, <3>2, <3>4, GovernanceAssumption
           DEF HandleEvent, SetsStatus, StatusActions, LifecycleActions, HandleOps,
               Handled, GovernanceAssumption
      <4>2. Ledger!Note
        BY <2>1, <3>1, <3>4, <4>1 DEF Ledger!Note
      <4>3. QED
        BY <4>2 DEF Ledger!LedgerNext
    <3>5. QED
      BY <3>3, <3>4
  <2>4. CASE Calm
    BY <2>1, <2>4 DEF Calm, Quiet, Ledger!Note, Ledger!LedgerNext
  <2>5. QED
    BY <2>2, <2>3, <2>4, StepCases
<1>3. QED
  BY <1>1, <1>2, Invariant, PTL DEF Spec, LedgerSpec, Ledger!LedgerSpec

=============================================================================
