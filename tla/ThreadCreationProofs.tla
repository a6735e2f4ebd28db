------------------------- MODULE ThreadCreationProofs -------------------------
(***************************************************************************)
(* Theorems about the resolution of principals and the creation of threads *)
(* that compete, for any requests, tokens and bodies.                      *)
(*                                                                         *)
(* The argument.  A request that is about to touch a row found its own     *)
(* there (TouchesItsOwn), and a row keeps its agent id for ever, so when   *)
(* the request is let in the registry of Identity has the pair.  A row is  *)
(* inserted only where neither half of the pair is taken.  So the holder   *)
(* of an agent id is the same whenever it is looked up, and while entries  *)
(* are added each one has its row or is still to be added (Progress).      *)
(***************************************************************************)
EXTENDS ThreadCreation, SequenceTheorems, TLAPS

Principal == [agent: Agents, status: {"active", "disabled"}]

\* Whatever happens after a request was let in leaves principals and tokens as
\* they are, and nobody is let in or taken out.
After == {"in", "entries", "add", "creator", "addCreator",
          "201", "400", "409", "broken"}

Places == {"idle"} \cup Resolving \cup RefusedCodes \cup After

Types ==
  /\ principal \in [Subjects -> Principal \cup {None}]
  /\ pc \in [Requests -> Places]
  /\ token \in [Requests -> Tokens \cup {None}]
  /\ \A r \in Requests : pc[r] # "idle" => token[r] \in Tokens

\* What a request found when it looked its subject up is still so.
TouchesItsOwn ==
  \A r \in Requests : pc[r] = "touch" =>
    Known(token[r].sub) /\ principal[token[r].sub].agent = token[r].agent

\* No two rows have one agent id.
OneHolder ==
  \A s, u \in Subjects :
    Known(s) /\ Known(u) /\ principal[s].agent = principal[u].agent => s = u

Inv == Types /\ TouchesItsOwn /\ OneHolder

-----------------------------------------------------------------------------

LEMMA InitInv == Init => Inv
  BY PrincipalsAssumption
     DEF Init, PrincipalsInit, Inv, Types, Places, TouchesItsOwn, OneHolder, Known

AfterStep(r) ==
  /\ UNCHANGED <<principal, token>>
  /\ pc[r] \in After
  /\ \E to \in After : pc' = [pc EXCEPT ![r] = to]

LEMMA CreateStepAfter ==
  ASSUME NEW r \in Requests, CreateStep(r) \/ CreationBreaks(r)
  PROVE  AfterStep(r)
<1>1. ASSUME NEW j \in Jobs, Insert(r, j) PROVE AfterStep(r)
  BY <1>1 DEF Insert, Step, AfterStep, After
<1>2. ASSUME NEW j \in Jobs, InsertClash(r, j) PROVE AfterStep(r)
  BY <1>2 DEF InsertClash, Step, AfterStep, After
<1>3. CASE Entries(r)
  BY <1>3 DEF Entries, Step, AfterStep, After
<1>4. CASE AddEntry(r)
  BY <1>4 DEF AddEntry, AddRow, AfterStep, After
<1>5. CASE Creator(r)
  BY <1>5 DEF Creator, Step, AfterStep, After
<1>6. CASE AddCreator(r)
  BY <1>6 DEF AddCreator, AddRow, AfterStep, After
<1>7. CASE CreationBreaks(r)
  BY <1>7 DEF CreationBreaks, Creating, Step, AfterStep, After
<1>8. QED
  BY <1>1, <1>2, <1>3, <1>4, <1>5, <1>6, <1>7 DEF CreateStep

\* The steps that change what the registry is made of.
Moves ==
  \/ \E r \in Requests :
       \/ \E t \in Tokens : Arrives(r, t)
       \/ ResolveStep(r) \/ Breaks(r) \/ AfterStep(r)
  \/ \E s \in Subjects : disablePrincipal(s)
  \/ UNCHANGED principalVars

LEMMA NextMoves == [Next]_vars => Moves
<1>1. ASSUME NEW r \in Requests, NEW s \in Subjects, Join(r, s)
      PROVE  UNCHANGED principalVars
  BY <1>1 DEF Join
<1>2. UNCHANGED vars => UNCHANGED principalVars
  BY DEF vars
<1>3. QED
  BY <1>1, <1>2, CreateStepAfter DEF Next, Begin, Resolve, Moves

-----------------------------------------------------------------------------
(* The invariant is inductive. *)

LEMMA CreateInv ==
  ASSUME Inv, NEW r \in Requests, Create(r)
  PROVE  Inv'
<1> USE DEF Inv, Types, Places, Resolving, RefusedCodes, After
<1>1. token[r] \in [sub: Subjects, agent: Agents] /\ UNCHANGED token
  BY PrincipalsAssumption DEF Create, Step
<1> DEFINE t == token[r]
<1>2. CASE Step(r, "create", "clash") /\ UNCHANGED principal
  BY <1>1, <1>2 DEF Step, TouchesItsOwn, OneHolder, Known
<1>3. CASE /\ ~Known(t.sub) /\ Holder(t.agent) = {}
           /\ Step(r, "create", "in")
           /\ principal' = [principal EXCEPT ![t.sub] = [agent |-> t.agent, status |-> "active"]]
  <2>1. Types'
    BY <1>1, <1>3 DEF Step, Principal
  <2>2. TouchesItsOwn'
    <3> SUFFICES ASSUME NEW q \in Requests, pc'[q] = "touch"
                 PROVE  Known(token[q].sub)' /\ principal'[token[q].sub].agent = token[q].agent
      BY <1>1 DEF TouchesItsOwn
    <3>1. pc[q] = "touch" /\ q # r
      BY <1>3 DEF Step
    <3>2. Known(token[q].sub) /\ principal[token[q].sub].agent = token[q].agent
      BY <3>1 DEF TouchesItsOwn
    <3>3. token[q].sub # t.sub
      BY <1>3, <3>2
    <3>4. principal'[token[q].sub] = principal[token[q].sub]
      BY <1>1, <1>3, <3>3, <3>1, PrincipalsAssumption
    <3>5. QED
      BY <1>1, <3>2, <3>4 DEF Known
  <2>3. OneHolder'
    <3>1. [agent |-> t.agent, status |-> "active"] # None
      BY <1>1, PrincipalsAssumption
    <3>2. \A s \in Subjects : Known(s) => principal[s].agent # t.agent
      BY <1>3 DEF Holder
    <3>3. QED
      BY <1>1, <1>3, <3>1, <3>2 DEF OneHolder, Known
  <2>4. QED
    BY <2>1, <2>2, <2>3
<1>4. QED
  BY <1>2, <1>3 DEF Create

\* What disabling a principal does to its row.
LEMMA DisableEffect ==
  ASSUME Types, NEW s \in Subjects, disablePrincipal(s)
  PROVE  /\ principal[s] \in Principal
         /\ principal' = [principal EXCEPT ![s] =
                            [agent |-> principal[s].agent, status |-> "disabled"]]
         /\ [agent |-> principal[s].agent, status |-> "disabled"] \in Principal
<1>1. principal[s] \in Principal
  BY DEF disablePrincipal, Known, Types
<1>2. [principal[s] EXCEPT !.status = "disabled"]
        = [agent |-> principal[s].agent, status |-> "disabled"]
  BY <1>1 DEF Principal
<1>3. principal' = [principal EXCEPT ![s] = [principal[s] EXCEPT !.status = "disabled"]]
  BY DEF disablePrincipal
<1>4. QED
  BY <1>1, <1>2, <1>3 DEF Principal

LEMMA StepInv == Inv /\ [Next]_vars => Inv'
<1> SUFFICES ASSUME Inv, Moves PROVE Inv'
  BY NextMoves
<1> USE DEF Inv, Types, Places, Resolving, RefusedCodes, After
<1>1. ASSUME NEW r \in Requests, NEW t \in Tokens, Arrives(r, t) PROVE Inv'
  BY <1>1 DEF Arrives, Step, TouchesItsOwn, OneHolder, Known
<1>2. ASSUME NEW r \in Requests, Find(r) PROVE Inv'
  BY <1>2 DEF Find, Step, TouchesItsOwn, OneHolder, Known
<1>3. ASSUME NEW r \in Requests, Touch(r) PROVE Inv'
  BY <1>3 DEF Touch, Step, TouchesItsOwn, OneHolder, Known
<1>4. ASSUME NEW r \in Requests, CheckAgent(r) PROVE Inv'
  BY <1>4 DEF CheckAgent, Step, TouchesItsOwn, OneHolder, Known
<1>5. ASSUME NEW r \in Requests, Clash(r) PROVE Inv'
  BY <1>5 DEF Clash, Step, TouchesItsOwn, OneHolder, Known
<1>6. ASSUME NEW r \in Requests, Breaks(r) PROVE Inv'
  BY <1>6 DEF Breaks, Resolving, Step, TouchesItsOwn, OneHolder, Known
<1>7. ASSUME NEW r \in Requests, AfterStep(r) PROVE Inv'
  BY <1>7 DEF AfterStep, After, TouchesItsOwn, OneHolder, Known
<1>8. ASSUME NEW s \in Subjects, disablePrincipal(s) PROVE Inv'
  <2>1. /\ principal[s] \in Principal
        /\ principal' = [principal EXCEPT ![s] = [agent |-> principal[s].agent, status |-> "disabled"]]
        /\ [agent |-> principal[s].agent, status |-> "disabled"] \in Principal
    BY <1>8, DisableEffect
  <2>4. \A u \in Subjects : /\ principal'[u] # None <=> principal[u] # None
                            /\ principal[u] # None => principal'[u].agent = principal[u].agent
    BY <1>8, <2>1, PrincipalsAssumption DEF disablePrincipal, Known, Principal
  <2>5. Types'
    BY <1>8, <2>1 DEF disablePrincipal
  <2>6. TouchesItsOwn'
    <3> SUFFICES ASSUME NEW q \in Requests, pc[q] = "touch"
                 PROVE  Known(token[q].sub)' /\ principal'[token[q].sub].agent = token[q].agent
      BY <1>8 DEF TouchesItsOwn, disablePrincipal
    <3>1. token[q].sub \in Subjects
      BY PrincipalsAssumption
    <3>2. principal[token[q].sub] # None /\ principal[token[q].sub].agent = token[q].agent
      BY DEF TouchesItsOwn, Known
    <3>3. UNCHANGED token
      BY <1>8 DEF disablePrincipal
    <3>4. QED
      BY <2>4, <3>1, <3>2, <3>3 DEF Known
  <2>7. OneHolder'
    <3> SUFFICES ASSUME NEW u \in Subjects, NEW v \in Subjects,
                        principal'[u] # None, principal'[v] # None,
                        principal'[u].agent = principal'[v].agent
                 PROVE  u = v
      BY DEF OneHolder, Known
    <3>1. principal[u] # None /\ principal[v] # None
      BY <2>4
    <3>2. principal[u].agent = principal[v].agent
      BY <2>4, <3>1
    <3>3. QED
      BY <3>1, <3>2 DEF OneHolder, Known
  <2>8. QED
    BY <2>5, <2>6, <2>7
<1>9. CASE UNCHANGED principalVars
  BY <1>9 DEF principalVars, TouchesItsOwn, OneHolder, Known
<1>10. QED
  BY <1>1, <1>2, <1>3, <1>4, <1>5, <1>6, <1>7, <1>8, <1>9, CreateInv
     DEF Moves, ResolveStep

-----------------------------------------------------------------------------
(* The refinement. *)

LEMMA InitRefines == Init => Registry!Init
  BY DEF Init, PrincipalsInit, Registry!Init, Known, LetIn

\* A step that touches no principal and lets nobody in is none of the registry's.
LEMMA QuietStep ==
  ASSUME principal' = principal, LetIn' = LetIn,
         \A r \in LetIn : token'[r] = token[r]
  PROVE  UNCHANGED Registry!vars
<1>1. \A s \in Subjects : Known(s)' <=> Known(s)
  BY DEF Known
<1>2. {<<r, token[r].sub, token[r].agent>> : r \in LetIn}'
        = {<<r, token[r].sub, token[r].agent>> : r \in LetIn}
  OBVIOUS
<1>3. {<<s, principal[s].agent>> : s \in {u \in Subjects : Known(u)}}'
        = {<<s, principal[s].agent>> : s \in {u \in Subjects : Known(u)}}
  BY DEF Known
<1>4. {s \in Subjects : Known(s) /\ principal[s].status = "disabled"}'
        = {s \in Subjects : Known(s) /\ principal[s].status = "disabled"}
  BY DEF Known
<1>5. QED
  BY <1>2, <1>3, <1>4 DEF Registry!vars

\* The step that lets request r in.
LEMMA LetInStep ==
  ASSUME Inv, NEW r \in Requests, NEW from \in Resolving, Step(r, from, "in"),
         UNCHANGED token
  PROVE  {<<q, token[q].sub, token[q].agent>> : q \in LetIn}'
           = {<<q, token[q].sub, token[q].agent>> : q \in LetIn}
               \cup {<<r, token[r].sub, token[r].agent>>}
<1>1. LetIn' = LetIn \cup {r}
  BY DEF Inv, Types, Places, After, Step, LetIn, Resolving, RefusedCodes
<1>2. QED
  BY <1>1

LEMMA CreateRefines ==
  ASSUME Inv, NEW r \in Requests, Create(r)
  PROVE  [Registry!Next]_(Registry!vars)
<1> DEFINE t == token[r]
<1>1. t \in [sub: Subjects, agent: Agents] /\ UNCHANGED token
  BY PrincipalsAssumption DEF Inv, Types, Create, Step
<1>2. CASE Step(r, "create", "clash") /\ UNCHANGED principal
  <2>1. LetIn' = LetIn
    BY <1>2 DEF Inv, Types, Step, LetIn, Resolving, RefusedCodes
  <2>2. QED
    BY <1>1, <1>2, <2>1, QuietStep
<1>3. CASE /\ ~Known(t.sub) /\ Holder(t.agent) = {}
           /\ Step(r, "create", "in")
           /\ principal' = [principal EXCEPT ![t.sub] = [agent |-> t.agent, status |-> "active"]]
  <2> DEFINE Pairs == {<<s, principal[s].agent>> : s \in {u \in Subjects : Known(u)}}
             Off   == {s \in Subjects : Known(s) /\ principal[s].status = "disabled"}
  <2>1. ~Registry!Taken(t.sub, t.agent)
    BY <1>3 DEF Registry!Taken, Holder
  <2>2. [agent |-> t.agent, status |-> "active"] # None
    BY <1>1, PrincipalsAssumption
  <2>3. \A s \in Subjects \ {t.sub} : principal'[s] = principal[s]
    BY <1>1, <1>3 DEF Inv, Types
  <2>4. principal'[t.sub] = [agent |-> t.agent, status |-> "active"]
    BY <1>1, <1>3 DEF Inv, Types
  <2>5. {u \in Subjects : Known(u)}' = {u \in Subjects : Known(u)} \cup {t.sub}
    BY <1>1, <2>2, <2>3, <2>4 DEF Known
  <2>6. Pairs' = Pairs \cup {<<t.sub, t.agent>>}
    BY <1>3, <2>3, <2>4, <2>5
  <2>7. Off' = Off
    BY <1>3, <2>3, <2>4 DEF Known
  <2>8. Registry!Bind(r, t.sub, t.agent)
    BY <1>1, <1>3, <2>1, <2>6, <2>7, LetInStep DEF Registry!Bind, Resolving
  <2>9. t.sub \in Subjects /\ t.agent \in Agents
    BY <1>1
  <2>10. PICK s \in Subjects, a \in Agents : s = t.sub /\ a = t.agent
    BY <2>9
  <2>11. Registry!Bind(r, s, a)
    BY <2>8, <2>10 DEF Registry!Bind, Registry!Taken
  <2>12. QED
    BY <2>11 DEF Registry!Next
<1>4. QED
  BY <1>2, <1>3 DEF Create

LEMMA TouchRefines ==
  ASSUME Inv, NEW r \in Requests, Touch(r)
  PROVE  [Registry!Next]_(Registry!vars)
<1> DEFINE t == token[r]
<1>1. /\ t \in [sub: Subjects, agent: Agents] /\ UNCHANGED <<principal, token>>
      /\ Known(t.sub) /\ principal[t.sub].agent = t.agent
  BY PrincipalsAssumption DEF Inv, Types, TouchesItsOwn, Touch, Step
<1>2. CASE principal[t.sub].status = "active"
  <2>1. Step(r, "touch", "in")
    BY <1>2 DEF Touch
  <2>2. <<t.sub, t.agent>> \in {<<s, principal[s].agent>> : s \in {u \in Subjects : Known(u)}}
    BY <1>1
  <2>3. t.sub \notin {s \in Subjects : Known(s) /\ principal[s].status = "disabled"}
    BY <1>2
  <2>4. Registry!Grant(r, t.sub, t.agent)
    BY <1>1, <2>1, <2>2, <2>3, LetInStep DEF Registry!Grant, Resolving, Known
  <2>5. t.sub \in Subjects /\ t.agent \in Agents
    BY <1>1
  <2>6. PICK s \in Subjects, a \in Agents : s = t.sub /\ a = t.agent
    BY <2>5
  <2>7. Registry!Grant(r, s, a)
    BY <2>4, <2>6 DEF Registry!Grant, Registry!Taken
  <2>8. QED
    BY <2>7 DEF Registry!Next
<1>3. CASE principal[t.sub].status # "active"
  <2>1. LetIn' = LetIn
    BY <1>3 DEF Inv, Types, Touch, Step, LetIn, Resolving, RefusedCodes
  <2>2. QED
    BY <1>1, <2>1, QuietStep
<1>4. QED
  BY <1>2, <1>3

LEMMA DisableRefines ==
  ASSUME Inv, NEW s \in Subjects, disablePrincipal(s)
  PROVE  [Registry!Next]_(Registry!vars)
<1>1. principal[s] \in Principal /\ UNCHANGED <<pc, token>> /\ Known(s)
  BY DisableEffect DEF Inv, disablePrincipal
<1>2. /\ principal'[s] = [agent |-> principal[s].agent, status |-> "disabled"]
      /\ \A u \in Subjects \ {s} : principal'[u] = principal[u]
  BY DisableEffect DEF Inv, Types
<1>3. principal'[s] # None
  BY <1>1, <1>2, PrincipalsAssumption DEF Principal
<1>4. {u \in Subjects : Known(u)}' = {u \in Subjects : Known(u)}
  BY <1>1, <1>2, <1>3 DEF Known
<1>5. {<<u, principal[u].agent>> : u \in {v \in Subjects : Known(v)}}'
        = {<<u, principal[u].agent>> : u \in {v \in Subjects : Known(v)}}
  BY <1>2, <1>4
<1>6. {u \in Subjects : Known(u) /\ principal[u].status = "disabled"}'
        = {u \in Subjects : Known(u) /\ principal[u].status = "disabled"} \cup {s}
  BY <1>1, <1>2, <1>3 DEF Known
<1>7. {<<q, token[q].sub, token[q].agent>> : q \in LetIn}'
        = {<<q, token[q].sub, token[q].agent>> : q \in LetIn}
  BY <1>1 DEF LetIn
<1>8. principal[s].agent \in Agents
        /\ <<s, principal[s].agent>> \in {<<u, principal[u].agent>> : u \in {v \in Subjects : Known(v)}}
  BY <1>1 DEF Principal
<1>9. Registry!Disable(s)
  BY <1>5, <1>6, <1>7, <1>8 DEF Registry!Disable
<1>10. QED
  BY <1>9 DEF Registry!Next

LEMMA StepRefines == Inv /\ [Next]_vars => [Registry!Next]_(Registry!vars)
<1> SUFFICES ASSUME Inv, Moves PROVE [Registry!Next]_(Registry!vars)
  BY NextMoves
<1> USE DEF Inv, Types, LetIn, Resolving, RefusedCodes
<1>1. ASSUME NEW r \in Requests, NEW t \in Tokens, Arrives(r, t)
      PROVE  UNCHANGED Registry!vars
  BY <1>1, QuietStep DEF Arrives, Step
<1>2. ASSUME NEW r \in Requests, Find(r) \/ CheckAgent(r) \/ Clash(r) \/ Breaks(r)
      PROVE  UNCHANGED Registry!vars
  BY <1>2, QuietStep DEF Find, CheckAgent, Clash, Breaks, Step
<1>3. ASSUME NEW r \in Requests, AfterStep(r) PROVE UNCHANGED Registry!vars
  BY <1>3, QuietStep DEF AfterStep, After
<1>4. CASE UNCHANGED principalVars
  BY <1>4, QuietStep DEF principalVars
<1>5. QED
  BY <1>1, <1>2, <1>3, <1>4, CreateRefines, TouchRefines, DisableRefines
     DEF Moves, ResolveStep

-----------------------------------------------------------------------------
(* What is true of principals stays true, so a refusal stays justified.     *)

LEMMA Monotone ==
  ASSUME Inv, Moves
  PROVE  /\ \A s \in Subjects : Known(s) =>
              /\ Known(s)' /\ principal'[s].agent = principal[s].agent
              /\ principal[s].status = "disabled" => principal'[s].status = "disabled"
         /\ \A r \in Requests : pc[r] # "idle" => token'[r] = token[r]
         /\ LetIn \subseteq LetIn'
<1> DEFINE Kept == \A s \in Subjects : Known(s) =>
              /\ Known(s)' /\ principal'[s].agent = principal[s].agent
              /\ principal[s].status = "disabled" => principal'[s].status = "disabled"
           Same == \A r \in Requests : pc[r] # "idle" => token'[r] = token[r]
           Stay == LetIn \subseteq LetIn'
<1> USE DEF Inv, Types, LetIn, Resolving, RefusedCodes
<1>1. principal' = principal => Kept
  BY DEF Known
<1>2. ASSUME NEW r \in Requests, NEW t \in Tokens, Arrives(r, t) PROVE Kept /\ Same /\ Stay
  BY <1>1, <1>2 DEF Arrives, Step
<1>3. ASSUME NEW r \in Requests, Find(r) \/ Touch(r) \/ CheckAgent(r) \/ Clash(r) \/ Breaks(r)
      PROVE  Kept /\ Same /\ Stay
  BY <1>1, <1>3 DEF Find, Touch, CheckAgent, Clash, Breaks, Step
<1>4. ASSUME NEW r \in Requests, Create(r) PROVE Kept /\ Same /\ Stay
  <2>1. Same /\ Stay
    BY <1>4 DEF Create, Step
  <2>2. token[r] \in [sub: Subjects, agent: Agents]
    BY <1>4, PrincipalsAssumption DEF Create, Step
  <2>3. Kept
    BY <1>4, <2>2 DEF Create, Known
  <2>4. QED
    BY <2>1, <2>3
<1>5. ASSUME NEW r \in Requests, AfterStep(r) PROVE Kept /\ Same /\ Stay
  BY <1>1, <1>5 DEF AfterStep, After
<1>6. ASSUME NEW s \in Subjects, disablePrincipal(s) PROVE Kept /\ Same /\ Stay
  <2>1. Same /\ Stay
    BY <1>6 DEF disablePrincipal
  <2>2. /\ principal' = [principal EXCEPT ![s] =
                           [agent |-> principal[s].agent, status |-> "disabled"]]
        /\ principal'[s] \in Principal
    BY <1>6, DisableEffect
  <2>3. principal'[s] # None
    BY <2>2, PrincipalsAssumption DEF Principal
  <2>4. Kept
    BY <2>2, <2>3 DEF Known
  <2>5. QED
    BY <2>1, <2>4
<1>7. CASE UNCHANGED principalVars
  BY <1>1, <1>7 DEF principalVars
<1>8. QED
  BY <1>2, <1>3, <1>4, <1>5, <1>6, <1>7 DEF Moves, ResolveStep

\* Every principal was created by a request that was let in under it.
RowsHaveCreators ==
  \A s \in Subjects : Known(s) =>
    \E q \in LetIn : token[q].sub = s /\ token[q].agent = principal[s].agent

\* An insert that was refused met a row.
ClashesMetARow ==
  \A r \in Requests : pc[r] = "clash" =>
    Known(token[r].sub) \/ Holder(token[r].agent) # {}

Refusals == RowsHaveCreators /\ ClashesMetARow /\ RefusalsJustified

LEMMA InitRefusals == Init => Refusals
  BY DEF Init, PrincipalsInit, Refusals, RowsHaveCreators, ClashesMetARow,
         RefusalsJustified, RefusedCodes, Known

LEMMA ConflictStays ==
  ASSUME Inv, Moves, NEW t \in Tokens, Conflict(t)
  PROVE  Conflict(t)'
<1>1. t.sub \in Subjects
  BY PrincipalsAssumption
<1>2. \A s \in Subjects : Known(s) => Known(s)' /\ principal'[s].agent = principal[s].agent
  BY Monotone
<1>3. QED
  BY <1>1, <1>2 DEF Conflict, Holder

LEMMA CreatorsStay ==
  ASSUME Inv, Moves, RowsHaveCreators
  PROVE  RowsHaveCreators'
<1> SUFFICES ASSUME NEW s \in Subjects, Known(s)'
             PROVE  \E q \in LetIn' : token'[q].sub = s /\ token'[q].agent = principal'[s].agent
  BY DEF RowsHaveCreators
<1>1. CASE Known(s)
  <2>1. PICK q \in LetIn : token[q].sub = s /\ token[q].agent = principal[s].agent
    BY <1>1 DEF RowsHaveCreators
  <2>2. q \in Requests /\ pc[q] # "idle"
    BY DEF LetIn
  <2>3. q \in LetIn' /\ token'[q] = token[q] /\ principal'[s].agent = principal[s].agent
    BY <1>1, <2>2, Monotone
  <2>4. QED
    BY <2>1, <2>3
<1>2. CASE ~Known(s)
  <2>1. principal' # principal
    BY <1>2 DEF Known
  <2>2. PICK r \in Requests : Create(r) /\ principal'[s] # principal[s]
    <3>1. \A u \in Subjects : disablePrincipal(u) => principal'[s] = principal[s]
      BY <1>2 DEF disablePrincipal, Inv, Types, Known
    <3>2. \A r \in Requests : (~Create(r) /\ ResolveStep(r)) \/ Breaks(r) \/ AfterStep(r)
                                => principal' = principal
      BY DEF ResolveStep, Find, Touch, CheckAgent, Clash, Breaks, AfterStep
    <3>3. \A r \in Requests, t \in Tokens : Arrives(r, t) => principal' = principal
      BY DEF Arrives
    <3>4. principal'[s] # principal[s]
      BY <1>2 DEF Known
    <3>5. QED
      BY <2>1, <3>1, <3>2, <3>3, <3>4 DEF Moves, principalVars
  <2>3. /\ Step(r, "create", "in") /\ UNCHANGED token
        /\ principal' = [principal EXCEPT ![token[r].sub] =
                           [agent |-> token[r].agent, status |-> "active"]]
    BY <2>2 DEF Create
  <2>4. s = token[r].sub /\ principal'[s].agent = token[r].agent
    BY <2>2, <2>3 DEF Inv, Types
  <2>5. r \in LetIn'
    BY <2>3 DEF Step, LetIn, Resolving, RefusedCodes, Inv, Types
  <2>6. QED
    BY <2>3, <2>4, <2>5
<1>3. QED
  BY <1>1, <1>2

\* Who is at a place now, and was not before, came there by a step of its own.
LEMMA Arrivals ==
  ASSUME Inv, Moves, NEW r \in Requests, pc'[r] # pc[r],
         pc'[r] \in {"401", "403", "500", "clash"}
  PROVE  /\ Find(r) \/ Touch(r) \/ CheckAgent(r) \/ Create(r) \/ Clash(r)
         /\ token[r] \in Tokens /\ UNCHANGED token
<1> USE DEF Inv, Types
<1>1. ASSUME NEW q \in Requests, NEW t \in Tokens, Arrives(q, t) PROVE FALSE
  BY <1>1 DEF Arrives, Step
<1>2. ASSUME NEW q \in Requests, Breaks(q) PROVE FALSE
  BY <1>2 DEF Breaks, Step
<1>3. ASSUME NEW q \in Requests, AfterStep(q) PROVE FALSE
  BY <1>3 DEF AfterStep, After
<1>4. ASSUME NEW s \in Subjects, disablePrincipal(s) PROVE FALSE
  BY <1>4 DEF disablePrincipal
<1>5. ASSUME UNCHANGED principalVars PROVE FALSE
  BY <1>5 DEF principalVars
<1>6. ASSUME NEW q \in Requests, ResolveStep(q)
      PROVE  r = q /\ token[r] \in Tokens /\ UNCHANGED token
  BY <1>6 DEF ResolveStep, Find, Touch, CheckAgent, Create, Clash, Step
<1>7. PICK q \in Requests : ResolveStep(q)
  BY <1>1, <1>2, <1>3, <1>4, <1>5 DEF Moves
<1>8. QED
  BY <1>6, <1>7 DEF ResolveStep

LEMMA ClashesStay ==
  ASSUME Inv, Moves, ClashesMetARow
  PROVE  ClashesMetARow'
<1> SUFFICES ASSUME NEW r \in Requests, pc'[r] = "clash"
             PROVE  Known(token[r].sub)' \/ (Holder(token[r].agent) # {})'
  BY DEF ClashesMetARow
<1>1. \A s \in Subjects : Known(s) => Known(s)' /\ principal'[s].agent = principal[s].agent
  BY Monotone
<1>2. pc[r] # "idle" /\ UNCHANGED token /\ token[r] \in Tokens
        => token[r].sub \in Subjects
  BY PrincipalsAssumption
<1>3. CASE pc[r] = "clash"
  <2>1. token'[r] = token[r] /\ token[r].sub \in Subjects
    BY <1>3, Monotone, PrincipalsAssumption DEF Inv, Types
  <2>2. Known(token[r].sub) \/ Holder(token[r].agent) # {}
    BY <1>3 DEF ClashesMetARow
  <2>3. QED
    BY <1>1, <2>1, <2>2 DEF Holder, Known
<1>4. CASE pc[r] # "clash"
  <2>1. Create(r) /\ UNCHANGED token
    BY <1>4, Arrivals DEF Find, Touch, CheckAgent, Clash, Step, Inv, Types
  <2>2. UNCHANGED principal /\ (Known(token[r].sub) \/ Holder(token[r].agent) # {})
    BY <2>1 DEF Create, Step, Inv, Types
  <2>3. QED
    BY <2>1, <2>2 DEF Holder, Known
<1>5. QED
  BY <1>3, <1>4

\* A request that is turned away in this step, with the row it met.
LEMMA NewRefusal ==
  ASSUME Inv, Moves, RowsHaveCreators, ClashesMetARow, NEW r \in Requests,
         pc'[r] # pc[r], pc'[r] \in {"401", "403", "500"}
  PROVE  /\ UNCHANGED <<principal, token>> /\ token[r] \in Tokens
         /\ pc'[r] = "401" => Conflict(token[r]) \/ \E q \in LetIn : token[q] = token[r]
         /\ pc'[r] = "500" => Conflict(token[r])
         /\ pc'[r] = "403" =>
              Known(token[r].sub) /\ principal[token[r].sub].status = "disabled"
<1> DEFINE t == token[r]
<1>1. /\ Find(r) \/ Touch(r) \/ CheckAgent(r) \/ Create(r) \/ Clash(r)
      /\ t \in Tokens /\ UNCHANGED token
      /\ t \in [sub: Subjects, agent: Agents]
  BY Arrivals, PrincipalsAssumption
<1> USE DEF Inv, Types
<1>2. ASSUME NEW s \in Subjects, Known(s), principal[s].agent = t.agent
      PROVE  Conflict(t) \/ \E q \in LetIn : token[q] = t
  <2>1. CASE s # t.sub
    BY <1>2, <2>1 DEF Conflict, Holder
  <2>2. CASE s = t.sub
    <3>1. PICK q \in LetIn : token[q].sub = s /\ token[q].agent = principal[s].agent
      BY <1>2 DEF RowsHaveCreators
    <3>2. token[q] \in [sub: Subjects, agent: Agents]
      BY PrincipalsAssumption DEF LetIn
    <3>3. token[q] = t
      BY <1>1, <1>2, <2>2, <3>1, <3>2
    <3>4. QED
      BY <3>3
  <2>3. QED
    BY <2>1, <2>2
<1>3. CASE Find(r)
  <2>1. /\ Known(t.sub) /\ principal[t.sub].agent # t.agent
        /\ pc'[r] = "401" /\ UNCHANGED principal
    BY <1>3 DEF Find, Step
  <2>2. QED
    BY <1>1, <2>1 DEF Conflict
<1>4. CASE Touch(r)
  <2>1. /\ pc[r] = "touch" /\ pc'[r] = "403" /\ UNCHANGED principal
        /\ principal[t.sub].status # "active"
    BY <1>4 DEF Touch, Step
  <2>2. Known(t.sub) /\ t.sub \in Subjects
    BY <1>1, <2>1 DEF TouchesItsOwn
  <2>3. principal[t.sub] \in Principal
    BY <2>2 DEF Known
  <2>4. principal[t.sub].status = "disabled"
    BY <2>1, <2>3 DEF Principal
  <2>5. QED
    BY <1>1, <2>1, <2>2, <2>4
<1>5. CASE CheckAgent(r)
  <2>1. pc'[r] = "401" /\ UNCHANGED principal /\ Holder(t.agent) # {}
    BY <1>5 DEF CheckAgent, Step
  <2>2. PICK s \in Subjects : Known(s) /\ principal[s].agent = t.agent
    BY <2>1 DEF Holder
  <2>3. QED
    BY <1>1, <1>2, <2>1, <2>2
<1>6. CASE Create(r)
  BY <1>6 DEF Create, Step
<1>7. CASE Clash(r)
  <2>1. pc[r] = "clash" /\ pc'[r] = "500" /\ UNCHANGED principal /\ ~Known(t.sub)
    BY <1>7 DEF Clash, Step
  <2>2. Holder(t.agent) # {} /\ t.sub \notin Holder(t.agent)
    BY <2>1 DEF ClashesMetARow, Holder
  <2>3. QED
    BY <1>1, <2>1, <2>2 DEF Conflict
<1>8. QED
  BY <1>1, <1>3, <1>4, <1>5, <1>6, <1>7

LEMMA StepRefusals ==
  ASSUME Inv, Moves, Refusals
  PROVE  Refusals'
<1>1. RowsHaveCreators /\ ClashesMetARow /\ RefusalsJustified
  BY DEF Refusals
<1>2. RowsHaveCreators' /\ ClashesMetARow'
  BY <1>1, CreatorsStay, ClashesStay
<1>3. ASSUME NEW r \in Requests, pc'[r] \in RefusedCodes
      PROVE  /\ pc'[r] = "401" => Conflict(token[r])' \/ \E q \in LetIn' : token'[q] = token'[r]
             /\ pc'[r] = "500" => Conflict(token[r])'
             /\ pc'[r] = "403" =>
                  Known(token[r].sub)' /\ principal'[token'[r].sub].status = "disabled"
  <2>1. \A q \in LetIn : q \in LetIn' /\ token'[q] = token[q]
    BY Monotone DEF LetIn
  <2>2. CASE pc'[r] = pc[r]
    <3>1. token'[r] = token[r] /\ token[r] \in Tokens /\ token[r].sub \in Subjects
      BY <1>3, <2>2, Monotone, PrincipalsAssumption DEF RefusedCodes, Inv, Types
    <3>2. Conflict(token[r]) => Conflict(token[r])'
      <4>1. \A t \in Tokens : Conflict(t) => Conflict(t)'
        BY ConflictStays
      <4>2. QED
        BY <3>1, <4>1 DEF Conflict, Holder, Known
    <3>3. Known(token[r].sub) /\ principal[token[r].sub].status = "disabled"
            => Known(token[r].sub)' /\ principal'[token'[r].sub].status = "disabled"
      BY <3>1, Monotone DEF Known
    <3>4. QED
      BY <1>1, <1>3, <2>1, <2>2, <3>1, <3>2, <3>3 DEF RefusalsJustified
  <2>3. CASE pc'[r] # pc[r] /\ pc'[r] = "error"
    BY <2>3
  <2>4. CASE pc'[r] # pc[r] /\ pc'[r] \in {"401", "403", "500"}
    BY <1>1, <2>1, <2>4, NewRefusal DEF Conflict, Holder, Known
  <2>5. QED
    BY <1>3, <2>2, <2>3, <2>4 DEF RefusedCodes
<1>4. RefusalsJustified'
  BY <1>3 DEF RefusalsJustified
<1>5. QED
  BY <1>2, <1>4 DEF Refusals

-----------------------------------------------------------------------------
(* A creation that reports success is complete. *)

\* Agent a is somebody, who is among the subjects of S.
Placed(a, S) == Holder(a) # {} /\ Holder(a) \subseteq S

CreationTypes ==
  /\ job \in [Requests -> Jobs \cup {None}]
  /\ members \in [Requests -> SUBSET Subjects]
  /\ todo \in [Requests -> Seq(Subjects)]

\* How far request r has come: while entries are being added, each one of the
\* body has its row or is still to be added.
Progress(r) ==
  /\ pc[r] \in {"entries", "add", "creator", "addCreator", "201"} => job[r] \in Jobs
  /\ pc[r] = "entries" => job[r].list # <<>>
  /\ pc[r] = "add" =>
       /\ todo[r] # <<>>
       /\ \A a \in Range(job[r].list) : Placed(a, members[r] \cup Range(todo[r]))
  /\ pc[r] \in {"creator", "addCreator", "201"} =>
       \A a \in Range(job[r].list) : Placed(a, members[r])
  /\ pc[r] = "201" => token[r].sub \in members[r]

CreationInv == CreationTypes /\ \A r \in Requests : Progress(r)

LEMMA InitCreation == Init => CreationInv
  BY DEF Init, PrincipalsInit, CreationInv, CreationTypes, Progress

\* An agent id that has a holder keeps it, and no other.
LEMMA HoldersStay ==
  ASSUME Inv, Inv', Moves, NEW a, Holder(a) # {}
  PROVE  Holder(a)' = Holder(a)
<1>1. PICK s \in Subjects : Known(s) /\ principal[s].agent = a
  BY DEF Holder
<1>2. Known(s)' /\ principal'[s].agent = a
  BY <1>1, Monotone
<1>3. \A u \in Subjects : Known(u) /\ principal[u].agent = a => u = s
  BY <1>1 DEF Inv, OneHolder
<1>4. \A u \in Subjects : Known(u)' /\ principal'[u].agent = a => u = s
  BY <1>2 DEF Inv, OneHolder
<1>5. QED
  BY <1>1, <1>2, <1>3, <1>4 DEF Holder

\* The steps of others, and of a request that has not got there, keep it.
LEMMA ProgressKept ==
  ASSUME Inv, Inv', Moves, NEW r \in Requests, Progress(r),
         pc'[r] = pc[r], job'[r] = job[r], todo'[r] = todo[r],
         members[r] \subseteq members'[r]
  PROVE  Progress(r)'
<1>1. /\ pc[r] = "201" => token'[r] = token[r]
      /\ \A a : Holder(a) # {} => Holder(a)' = Holder(a)
  BY Monotone, HoldersStay
<1>2. pc[r] = "add" =>
        \A a \in Range(job[r].list) :
          Holder(a)' # {} /\ Holder(a)' \subseteq members'[r] \cup Range(todo[r])
  <2>1. pc[r] = "add" =>
          \A a \in Range(job[r].list) : Placed(a, members[r] \cup Range(todo[r]))
    BY DEF Progress
  <2>2. QED
    BY <1>1, <2>1 DEF Placed
<1>3. pc[r] \in {"creator", "addCreator", "201"} =>
        \A a \in Range(job[r].list) : Holder(a)' # {} /\ Holder(a)' \subseteq members'[r]
  <2>1. pc[r] \in {"creator", "addCreator", "201"} =>
          \A a \in Range(job[r].list) : Placed(a, members[r])
    BY DEF Progress
  <2>2. QED
    BY <1>1, <2>1 DEF Placed
<1>4. QED
  BY <1>1, <1>2, <1>3 DEF Progress, Placed

\* Only request q moves.
Only(q) ==
  \A r \in Requests \ {q} :
    pc'[r] = pc[r] /\ job'[r] = job[r] /\ todo'[r] = todo[r] /\ members'[r] = members[r]

\* A request on its way in, or turned away, owes nothing.
Early == Places \ {"entries", "add", "creator", "addCreator", "201"}

LEMMA EarlyProgress ==
  ASSUME NEW r \in Requests, pc'[r] \in Early PROVE Progress(r)'
  BY DEF Early, Progress

LEMMA InsertProgress ==
  ASSUME Inv, CreationInv, NEW q \in Requests, NEW j \in Jobs, Insert(q, j)
  PROVE  CreationTypes' /\ Only(q) /\ Progress(q)'
<1> USE DEF CreationInv, CreationTypes, Inv, Types
<1>1. /\ pc' = [pc EXCEPT ![q] = IF j.list = <<>> THEN "creator" ELSE "entries"]
      /\ job' = [job EXCEPT ![q] = j] /\ UNCHANGED <<members, todo>>
  BY DEF Insert, Step
<1>2. CreationTypes' /\ Only(q)
  BY <1>1 DEF Only
<1>3. job'[q] = j /\ pc'[q] = IF j.list = <<>> THEN "creator" ELSE "entries"
  BY <1>1
<1>4. j.list = <<>> => Range(j.list) = {}
  BY DEF Range
<1>5. Progress(q)'
  BY <1>3, <1>4 DEF Progress
<1>6. QED
  BY <1>2, <1>5

LEMMA EntriesProgress ==
  ASSUME Inv, CreationInv, NEW q \in Requests, Entries(q)
  PROVE  CreationTypes' /\ Only(q) /\ Progress(q)'
<1> DEFINE list == job[q].list
           good == \A a \in Range(list) : a \in Agents \ OddAgents /\ Holder(a) # {}
           found == [i \in DOMAIN list |-> CHOOSE s \in Subjects : s \in Holder(list[i])]
<1>1. /\ Step(q, "entries", IF good THEN "add" ELSE "400")
      /\ todo' = [todo EXCEPT ![q] = IF good THEN found ELSE <<>>]
      /\ UNCHANGED <<principal, job, members>>
  BY DEF Entries
<1>2. list \in Seq(Agents \cup {BadEntry}) /\ list # <<>>
  BY <1>1, CreationAssumption DEF CreationInv, Progress, Step, CreationAssumption
<1>3. ASSUME good, NEW i \in DOMAIN list
      PROVE  found[i] \in Subjects /\ Holder(list[i]) = {found[i]}
  <2>1. Holder(list[i]) # {} /\ Holder(list[i]) \subseteq Subjects
    BY <1>3 DEF Range, Holder
  <2>2. found[i] \in Subjects /\ found[i] \in Holder(list[i])
    BY <1>3, <2>1
  <2>3. QED
    BY <2>2 DEF Holder, Inv, OneHolder
<1>4. good => found \in Seq(Subjects) /\ found # <<>>
  <2>1. DOMAIN list = 1 .. Len(list) /\ Len(list) \in Nat /\ Len(list) # 0
    BY <1>2
  <2>2. ASSUME good PROVE found \in [1 .. Len(list) -> Subjects]
    BY <1>3, <2>1, <2>2
  <2> HIDE DEF list, found, good
  <2>3. ASSUME good PROVE found \in Seq(Subjects) /\ Len(found) = Len(list)
    BY <2>1, <2>2, <2>3, SeqDef
  <2>4. QED
    BY <2>1, <2>3
<1>5. ASSUME good, NEW a \in Range(list) PROVE Placed(a, Range(found))
  <2>1. PICK i \in DOMAIN list : a = list[i]
    BY <1>5 DEF Range
  <2>2. Holder(a) = {found[i]} /\ found[i] \in Range(found)
    BY <1>3, <1>5, <2>1 DEF Range
  <2>3. QED
    BY <2>2 DEF Placed
<1> HIDE DEF good, found
<1>6. CreationTypes' /\ Only(q)
  BY <1>1, <1>4 DEF CreationInv, CreationTypes, Inv, Types, Only, Step
<1>7. CASE ~good
  <2>1. pc'[q] = "400"
    BY <1>1, <1>7 DEF Step, Inv, Types
  <2>2. QED
    BY <1>6, <2>1 DEF Progress
<1>8. CASE good
  <2>1. pc'[q] = "add" /\ todo'[q] = found /\ job'[q] = job[q] /\ job[q] \in Jobs
    BY <1>1, <1>8 DEF Step, Inv, Types, CreationInv, CreationTypes, Progress
  <2>2. \A a \in Range(list) : Placed(a, members[q] \cup Range(found))
    BY <1>5, <1>8 DEF Placed
  <2>3. Progress(q)'
    BY <1>1, <1>4, <1>8, <2>1, <2>2 DEF Progress, Placed, Holder, Known
  <2>4. QED
    BY <1>6, <2>3
<1>9. QED
  BY <1>7, <1>8

LEMMA TailRange ==
  ASSUME NEW s \in Seq(Subjects), s # <<>>
  PROVE  /\ Tail(s) \in Seq(Subjects) /\ Head(s) \in Subjects
         /\ Range(s) = {Head(s)} \cup Range(Tail(s))
         /\ Len(s) > 1 <=> Tail(s) # <<>>
<1>1. Tail(s) \in Seq(Subjects) /\ Head(s) = s[1] /\ Len(Tail(s)) = Len(s) - 1
      /\ Len(s) \in Nat \ {0} /\ Head(s) \in Subjects
  OBVIOUS
<1>2. \A i \in 1 .. Len(s) - 1 : Tail(s)[i] = s[i + 1]
  OBVIOUS
<1>3. ASSUME NEW x PROVE x \in Range(s) <=> x = s[1] \/ x \in Range(Tail(s))
  <2>1. DOMAIN s = 1 .. Len(s) /\ DOMAIN Tail(s) = 1 .. Len(s) - 1
    BY <1>1
  <2>2. x \in Range(s) <=> \E i \in 1 .. Len(s) : x = s[i]
    BY <2>1 DEF Range
  <2>3. x \in Range(Tail(s)) <=> \E i \in 1 .. Len(s) - 1 : x = s[i + 1]
    BY <1>2, <2>1 DEF Range
  <2>4. ASSUME NEW i \in 1 .. Len(s), x = s[i]
        PROVE  x = s[1] \/ x \in Range(Tail(s))
    <3>1. i = 1 \/ (i - 1 \in 1 .. Len(s) - 1 /\ (i - 1) + 1 = i)
      BY <1>1
    <3>2. QED
      BY <2>3, <2>4, <3>1
  <2>5. ASSUME NEW i \in 1 .. Len(s) - 1, x = s[i + 1]
        PROVE  x \in Range(s)
    <3>1. i + 1 \in 1 .. Len(s)
      BY <1>1
    <3>2. QED
      BY <2>2, <2>5, <3>1
  <2>6. x = s[1] => x \in Range(s)
    BY <1>1, <2>2
  <2>7. QED
    BY <2>2, <2>3, <2>4, <2>5, <2>6
<1>4. Range(s) = {Head(s)} \cup Range(Tail(s))
  BY <1>1, <1>3
<1>5. Len(s) > 1 <=> Tail(s) # <<>>
  <2>1. \A q \in Seq(Subjects) : Len(q) = 0 <=> q = <<>>
    BY EmptySeq
  <2>2. Len(Tail(s)) = 0 <=> Tail(s) = <<>>
    BY <1>1, <2>1
  <2>3. QED
    BY <1>1, <2>2
<1>6. QED
  BY <1>1, <1>4, <1>5

LEMMA AddEntryProgress ==
  ASSUME Inv, CreationInv, NEW q \in Requests, AddEntry(q)
  PROVE  CreationTypes' /\ Only(q) /\ Progress(q)'
<1> DEFINE s == todo[q]
           next == IF Len(s) > 1 THEN "add" ELSE "creator"
<1>1. /\ pc[q] = "add" /\ UNCHANGED <<principal, job>> /\ job[q] \in Jobs
      /\ s \in Seq(Subjects) /\ s # <<>>
      /\ \A a \in Range(job[q].list) : Placed(a, members[q] \cup Range(s))
  BY DEF AddEntry, CreationInv, CreationTypes, Progress
<1>2. /\ Tail(s) \in Seq(Subjects) /\ Head(s) \in Subjects
      /\ Range(s) = {Head(s)} \cup Range(Tail(s))
      /\ Len(s) > 1 <=> Tail(s) # <<>>
  BY <1>1, TailRange
<1>3. AddRow(q, Head(s), next)
      /\ todo' = [todo EXCEPT ![q] = IF pc'[q] = "broken" THEN <<>> ELSE Tail(s)]
  BY DEF AddEntry
<1>4. CASE pc' = [pc EXCEPT ![q] = "broken"] /\ UNCHANGED members
  <2>1. CreationTypes' /\ Only(q)
    BY <1>1, <1>2, <1>3, <1>4 DEF CreationInv, CreationTypes, Only, Inv, Types
  <2>2. Progress(q)'
    BY <1>4 DEF Progress, Inv, Types
  <2>3. QED
    BY <2>1, <2>2
<1>5. CASE pc' = [pc EXCEPT ![q] = next] /\ members' = [members EXCEPT ![q] = @ \cup {Head(s)}]
  <2>1. pc'[q] = next /\ next \in {"add", "creator"}
    BY <1>5 DEF Inv, Types
  <2>2. todo'[q] = Tail(s) /\ members'[q] = members[q] \cup {Head(s)} /\ job'[q] = job[q]
    BY <1>1, <1>3, <1>5, <2>1 DEF CreationInv, CreationTypes
  <2>3. CreationTypes' /\ Only(q)
    BY <1>1, <1>2, <1>3, <1>5 DEF CreationInv, CreationTypes, Only, Inv, Types
  <2>4. members[q] \cup Range(s) = members'[q] \cup Range(Tail(s))
    BY <1>2, <2>2
  <2>5. next = "add" <=> Tail(s) # <<>>
    BY <1>2
  <2>6. Tail(s) = <<>> => Range(Tail(s)) = {}
    BY DEF Range
  <2> HIDE DEF s, next
  <2>7. \A a : Holder(a)' = Holder(a)
    BY <1>1 DEF Holder, Known
  <2>8. \A a \in Range(job[q].list) :
          Holder(a)' # {} /\ Holder(a)' \subseteq members'[q] \cup Range(Tail(s))
    BY <1>1, <2>4, <2>7 DEF Placed
  <2>9. Progress(q)'
    BY <1>1, <2>1, <2>2, <2>5, <2>6, <2>8 DEF Progress, Placed
  <2>10. QED
    BY <2>3, <2>9
<1>6. QED
  BY <1>3, <1>4, <1>5 DEF AddRow

LEMMA CreatorProgress ==
  ASSUME Inv, CreationInv, NEW q \in Requests, Creator(q) \/ AddCreator(q)
  PROVE  CreationTypes' /\ Only(q) /\ Progress(q)'
<1>1. /\ pc[q] \in {"creator", "addCreator"}
      /\ UNCHANGED <<principal, token, job, todo>> /\ job[q] \in Jobs
      /\ \A a \in Range(job[q].list) : Placed(a, members[q])
      /\ token[q].sub \in Subjects
  BY PrincipalsAssumption
     DEF Creator, AddCreator, Step, creationVars, CreationInv, Progress, Inv, Types
<1>2. \A a : Holder(a)' = Holder(a)
  BY <1>1 DEF Holder, Known
<1>3. /\ \E to \in {"addCreator", "201", "broken"} :
           /\ pc' = [pc EXCEPT ![q] = to]
           /\ to = "201" => token[q].sub \in members'[q]
      /\ \/ members' = members
         \/ members' = [members EXCEPT ![q] = @ \cup {token[q].sub}]
  BY <1>1 DEF Creator, AddCreator, Step, AddRow, creationVars, CreationInv, CreationTypes
<1>4. CreationTypes' /\ Only(q)
  BY <1>1, <1>3 DEF CreationInv, CreationTypes, Only, Inv, Types
<1>5. members[q] \subseteq members'[q]
  BY <1>3 DEF CreationInv, CreationTypes
<1>6. pc'[q] \in {"addCreator", "201", "broken"}
        /\ (pc'[q] = "201" => token[q].sub \in members'[q])
  BY <1>3 DEF Inv, Types
<1>7. \A a \in Range(job[q].list) : Holder(a)' # {} /\ Holder(a)' \subseteq members'[q]
  BY <1>1, <1>2, <1>5 DEF Placed
<1>8. Progress(q)'
  BY <1>1, <1>6, <1>7 DEF Progress, Placed
<1>9. QED
  BY <1>4, <1>8

\* The steps that leave what is created alone, and where they lead.
LEMMA QuietProgress ==
  ASSUME Inv, CreationInv, UNCHANGED creationVars, NEW q \in Requests,
         NEW to \in Early, pc' = [pc EXCEPT ![q] = to]
  PROVE  CreationTypes' /\ Only(q) /\ Progress(q)'
<1>1. CreationTypes' /\ Only(q)
  BY DEF creationVars, CreationInv, CreationTypes, Only, Inv, Types
<1>2. pc'[q] \in Early
  BY DEF Inv, Types
<1>3. QED
  BY <1>1, <1>2, EarlyProgress

LEMMA OwnStep ==
  ASSUME Inv, CreationInv, NEW q \in Requests,
         \/ \E t \in Tokens : Begin(q, t)
         \/ Resolve(q) \/ CreateStep(q) \/ CreationBreaks(q)
         \/ Breaks(q) /\ UNCHANGED creationVars
  PROVE  CreationTypes' /\ Only(q) /\ Progress(q)'
<1> DEFINE Goal == CreationTypes' /\ Only(q) /\ Progress(q)'
           Quietly == UNCHANGED creationVars
                        /\ \E to \in Early : pc' = [pc EXCEPT ![q] = to]
<1>1. ASSUME NEW t \in Tokens, Begin(q, t) PROVE Quietly
  BY <1>1 DEF Begin, Arrives, Step, Early, Places, Resolving
<1>2. CASE Resolve(q)
  <2>1. UNCHANGED creationVars /\ ResolveStep(q)
    BY <1>2 DEF Resolve
  <2>2. \E to \in Resolving \cup RefusedCodes \cup {"in"} : pc' = [pc EXCEPT ![q] = to]
    BY <2>1 DEF ResolveStep, Find, Touch, CheckAgent, Create, Clash, Step, Resolving,
                RefusedCodes
  <2>3. Quietly
    BY <2>1, <2>2 DEF Early, Places, After, Resolving, RefusedCodes
  <2>4. QED
    BY <2>3, QuietProgress
<1>3. CASE Breaks(q) /\ UNCHANGED creationVars
  <2>1. Quietly
    BY <1>3 DEF Breaks, Step, Early, Places, RefusedCodes
  <2>2. QED
    BY <2>1, QuietProgress
<1>4. ASSUME NEW j \in Jobs, InsertClash(q, j) PROVE Quietly
  BY <1>4 DEF InsertClash, Step, Early, Places, After
<1>5. CASE CreationBreaks(q)
  <2>1. pc' = [pc EXCEPT ![q] = "broken"] /\ todo' = [todo EXCEPT ![q] = <<>>]
        /\ UNCHANGED <<job, members>>
    BY <1>5 DEF CreationBreaks, Step
  <2>2. CreationTypes' /\ Only(q)
    BY <2>1 DEF CreationInv, CreationTypes, Only, Inv, Types
  <2>3. pc'[q] \in Early
    BY <2>1 DEF Early, Places, After, Inv, Types
  <2>4. QED
    BY <2>2, <2>3, EarlyProgress
<1>6. CASE CreateStep(q)
  BY <1>4, <1>6, QuietProgress, InsertProgress, EntriesProgress, AddEntryProgress,
     CreatorProgress DEF CreateStep
<1>7. QED
  BY <1>1, <1>2, <1>3, <1>5, <1>6, QuietProgress

LEMMA CreationStep == Inv /\ CreationInv /\ [Next]_vars => CreationInv'
<1> SUFFICES ASSUME Inv, CreationInv, [Next]_vars PROVE CreationInv'
  OBVIOUS
<1>1. Inv' /\ Moves
  BY StepInv, NextMoves
<1>2. ASSUME NEW q \in Requests, CreationTypes' /\ Only(q) /\ Progress(q)'
      PROVE  CreationInv'
  <2>1. ASSUME NEW r \in Requests PROVE Progress(r)'
    BY <1>1, <1>2, ProgressKept DEF Only, CreationInv
  <2>2. QED
    BY <1>2, <2>1 DEF CreationInv
<1>3. ASSUME UNCHANGED <<pc, job, todo>>, CreationTypes',
             \A r \in Requests : members[r] \subseteq members'[r]
      PROVE  CreationInv'
  <2>1. ASSUME NEW r \in Requests PROVE Progress(r)'
    BY <1>1, <1>3, ProgressKept DEF CreationInv
  <2>2. QED
    BY <1>3, <2>1 DEF CreationInv
<1>4. ASSUME NEW q \in Requests, NEW s \in Subjects, Join(q, s) PROVE CreationInv'
  <2>1. CreationTypes' /\ \A r \in Requests : members[r] \subseteq members'[r]
    BY <1>4 DEF Join, CreationInv, CreationTypes
  <2>2. QED
    BY <1>3, <1>4, <2>1 DEF Join, principalVars
<1>5. ASSUME NEW s \in Subjects, disablePrincipal(s), UNCHANGED creationVars
      PROVE  CreationInv'
  BY <1>3, <1>5 DEF disablePrincipal, creationVars, CreationInv, CreationTypes
<1>6. CASE UNCHANGED vars
  BY <1>3, <1>6 DEF vars, principalVars, creationVars, CreationInv, CreationTypes
<1>7. ASSUME NEW q \in Requests,
             \/ \E t \in Tokens : Begin(q, t)
             \/ Resolve(q) \/ CreateStep(q) \/ CreationBreaks(q)
             \/ Breaks(q) /\ UNCHANGED creationVars
      PROVE  CreationInv'
  BY <1>2, <1>7, OwnStep
<1>8. QED
  BY <1>4, <1>5, <1>6, <1>7 DEF Next

-----------------------------------------------------------------------------

\* The invariant of the argument.
THEOREM Invariant == Spec => []Inv
  BY InitInv, StepInv, PTL DEF Spec

\* Whoever is turned away has lost to somebody: a conflict of its token with a
\* bound pair, a disabled subject, or (a 401 only) another request with the very
\* same subject and agent id that was let in.
THEOREM RefusalsAreJustified == Spec => []RefusalsJustified
<1>1. Inv /\ Refusals /\ [Next]_vars => Refusals'
  BY NextMoves, StepRefusals
<1>2. Refusals => RefusalsJustified
  BY DEF Refusals
<1>3. QED
  BY InitRefusals, <1>1, <1>2, Invariant, PTL DEF Spec

\* The resolution of principals implements the registry of Identity: for any
\* number of racing requests a subject and an agent id are bound to each other
\* for ever, and nobody is let in under another pair, or once disabled.
THEOREM ImplementsRegistry == Spec => IdentitySpec
<1>1. Spec => Registry!Init /\ [][Registry!Next]_(Registry!vars)
  BY InitRefines, StepRefines, Invariant, PTL DEF Spec
<1>2. QED
  BY <1>1 DEF IdentitySpec, Registry!Spec
THEOREM CreationInvariant == Spec => []CreationInv
  BY InitCreation, CreationStep, Invariant, PTL DEF Spec

\* Every row, request and list has its type, always.
THEOREM CreationTyped == Spec => []TypeOK
<1>1. Inv /\ CreationInv => TypeOK
  BY DEF Inv, Types, Principal, Places, After, Creating, CreationInv, CreationTypes, TypeOK
<1>2. QED
  BY <1>1, Invariant, CreationInvariant, PTL

\* A creation that reports success is complete: its thread is there, and the
\* creator and everyone its body names have their rows, although the rows are
\* written one by one without a transaction while others join and principals
\* are created and disabled.
THEOREM CreationsAreComplete == Spec => []CreatedComplete
<1>1. CreationInv => CreatedComplete
  <2> SUFFICES ASSUME CreationInv, NEW r \in Requests, pc[r] = "201"
               PROVE  /\ HasThread(r) /\ token[r].sub \in members[r]
                      /\ \A a \in Range(job[r].list) :
                           Holder(a) \subseteq members[r] /\ Holder(a) # {}
    BY DEF CreatedComplete
  <2>1. job[r] \in Jobs /\ Progress(r)
    BY DEF CreationInv, Progress
  <2>2. HasThread(r)
    BY <2>1, CreationAssumption DEF CreationAssumption, HasThread
  <2>3. QED
    BY <2>1, <2>2 DEF Progress, Placed
<1>2. QED
  BY <1>1, CreationInvariant, PTL
=============================================================================
