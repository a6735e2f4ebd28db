------------------------------ MODULE Principals ------------------------------
(***************************************************************************)
(* How a request with a verified token finds or creates its principal      *)
(* (resolvePrincipal, lib/forum-principal.ts; its caller in                *)
(* middleware/auth.ts).  The transaction reads what others have committed  *)
(* meanwhile; an insert waits for a conflicting one, so that insert and    *)
(* commit are one step here, and so are the touch of lastSeenAt (a lock on *)
(* the row), the test of the status it returns, and the commit.            *)
(* Principals are never deleted.                                           *)
(***************************************************************************)
EXTENDS Naturals, FiniteSets

CONSTANTS
  Requests,   \* requests
  Subjects,   \* subjects of tokens
  Agents,     \* agent ids
  OddAgents,  \* the agent ids that do not match AGENT_ID_PATTERN
  Tokens,     \* the tokens in use: [sub: Subjects, agent: Agents]
  None        \* no principal, no token

ASSUME PrincipalsAssumption ==
  /\ OddAgents \subseteq Agents
  /\ Tokens \subseteq [sub: Subjects, agent: Agents]
  /\ None \notin [agent: Agents, status: {"active", "disabled"}] /\ None \notin Tokens

VARIABLES
  principal,  \* the row of every subject
  pc,         \* where a request is
  token       \* the token of a request

principalVars == <<principal, pc, token>>

Known(s) == principal[s] # None
Holder(a) == {s \in Subjects : Known(s) /\ principal[s].agent = a}

Step(r, from, to) == pc[r] = from /\ pc' = [pc EXCEPT ![r] = to]

Arrives(r, t) ==
  /\ Step(r, "idle", "find")
  /\ token' = [token EXCEPT ![r] = t]
  /\ UNCHANGED principal

\* findUnique by the subject.  A 409 of this module leaves the service as 401.
Find(r) ==
  LET t == token[r] IN
  /\ pc[r] = "find"
  /\ \/ /\ Known(t.sub) /\ principal[t.sub].agent = t.agent
        /\ Step(r, "find", "touch")
     \/ /\ Known(t.sub) /\ principal[t.sub].agent # t.agent
        /\ Step(r, "find", "401")
     \/ /\ ~Known(t.sub)
        /\ Step(r, "find", IF t.agent \in OddAgents THEN "create" ELSE "check")
  /\ UNCHANGED <<principal, token>>

\* Mutant: the row as it was read tells the status.
TouchStale(r) ==
  /\ Step(r, "touch", "in")
  /\ UNCHANGED <<principal, token>>

Touch(r) ==
  /\ Step(r, "touch", IF principal[token[r].sub].status = "active" THEN "in" ELSE "403")
  /\ UNCHANGED <<principal, token>>

\* Is the agent id another principal's?
CheckAgent(r) ==
  /\ Step(r, "check", IF Holder(token[r].agent) # {} THEN "401" ELSE "create")
  /\ UNCHANGED <<principal, token>>

\* The subject and the agent id are unique.
Create(r) ==
  LET t == token[r] IN
  /\ pc[r] = "create"
  /\ \/ /\ Known(t.sub) \/ Holder(t.agent) # {}
        /\ Step(r, "create", "clash")
        /\ UNCHANGED principal
     \/ /\ ~Known(t.sub) /\ Holder(t.agent) = {}
        /\ Step(r, "create", "in")
        /\ principal' = [principal EXCEPT ![t.sub] = [agent |-> t.agent, status |-> "active"]]
  /\ UNCHANGED token

\* Mutants: start again whatever the reason; give up at once.
ClashForever(r) == Step(r, "clash", "find") /\ UNCHANGED <<principal, token>>
ClashFails(r)   == Step(r, "clash", "500")  /\ UNCHANGED <<principal, token>>

\* P2002: start again if it was the subject's row that got in between.
Clash(r) ==
  /\ Step(r, "clash", IF Known(token[r].sub) THEN "find" ELSE "500")
  /\ UNCHANGED <<principal, token>>

Resolving == {"find", "touch", "check", "create", "clash"}

\* The database fails; a transaction that was open is rolled back.
Breaks(r) ==
  /\ \E p \in Resolving : Step(r, p, "error")
  /\ UNCHANGED <<principal, token>>

disablePrincipal(s) ==
  /\ Known(s)
  /\ principal' = [principal EXCEPT ![s].status = "disabled"]
  /\ UNCHANGED <<pc, token>>

PrincipalsInit ==
  /\ principal = [s \in Subjects |-> None]
  /\ pc = [r \in Requests |-> "idle"]
  /\ token = [r \in Requests |-> None]

ResolveStep(r) == Find(r) \/ Touch(r) \/ CheckAgent(r) \/ Create(r) \/ Clash(r)

-----------------------------------------------------------------------------
(* Properties. *)

RefusedCodes == {"401", "403", "500", "error"}

\* The requests that were let in, whatever they do now.
LetIn == {r \in Requests : pc[r] \notin {"idle"} \cup Resolving \cup RefusedCodes}

\* However requests race, the table of principals is the identity registry:
\* every step of resolvePrincipal is one of its steps, or none.
Registry == INSTANCE Identity WITH
  bound    <- {<<s, principal[s].agent>> : s \in {u \in Subjects : Known(u)}},
  disabled <- {s \in Subjects : Known(s) /\ principal[s].status = "disabled"},
  granted  <- {<<r, token[r].sub, token[r].agent>> : r \in LetIn}
IdentitySpec == Registry!Spec

\* The subject or the agent id of token t is bound to another one.
Conflict(t) ==
  \/ Known(t.sub) /\ principal[t.sub].agent # t.agent
  \/ Holder(t.agent) \ {t.sub} # {}

\* Who is turned away has lost: a 401 or 500 names a conflict, a 403 a subject
\* that is disabled.  A first request that loses the race to create its own
\* principal either is let in after its retry, or (the race lost before its
\* look-up of the agent id) is told of a conflict with itself: only then, and
\* never when nobody else created that principal meanwhile.
RefusalsJustified ==
  \A r \in {q \in Requests : pc[q] \in RefusedCodes} :
    LET t == token[r] IN
    /\ pc[r] = "401" => Conflict(t) \/ \E q \in LetIn : token[q] = t
    /\ pc[r] = "500" => Conflict(t)
    /\ pc[r] = "403" => Known(t.sub) /\ principal[t.sub].status = "disabled"

\* "Concurrent-safe, idempotent, fail-closed on identity conflicts": expected
\* of the code is that only a real conflict is refused as one.
OnlyRealConflicts ==
  \A r \in Requests : pc[r] = "401" => Conflict(token[r])
=============================================================================
