---------------------------- MODULE ThreadCreation ----------------------------
(***************************************************************************)
(* POST /api/threads with its participants (routes/threads.ts,             *)
(* data-access/threads.ts, data-access/watch.ts), from the resolution of   *)
(* the caller on.  Creation is a sequence of statements without a          *)
(* transaction: the thread, the participants of the body one by one, the   *)
(* creator.  Others see the thread from the first on and may join it.      *)
(*                                                                         *)
(* A workflow instance has at most one thread: a partial unique index.     *)
(* (PATCH, which may change a context, is in SideRows.)                    *)
(***************************************************************************)
EXTENDS Principals, Sequences, Functions

CONSTANTS
  Jobs,      \* bodies: [wf, list], wf = the workflow instance of the context or None,
             \* list = the agent ids of the participants
  BadEntry   \* in a list: an entry with an unknown role or status

ASSUME CreationAssumption ==
  /\ BadEntry \notin Agents
  /\ None \notin Jobs
  /\ \A j \in Jobs : j.list \in Seq(Agents \cup {BadEntry})

VARIABLES
  job,      \* the body of a request, once its thread is there
  members,  \* the participant rows of the thread a request created, as subjects
  todo      \* the participants still to be added, as subjects

creationVars == <<job, members, todo>>
vars == <<principalVars, creationVars>>

HasThread(r) == job[r] # None

\* The partial unique index on the workflow instances of the threads.
Indexed(wf) == wf # None /\ \E q \in Requests : HasThread(q) /\ job[q].wf = wf

-----------------------------------------------------------------------------
(* POST /api/threads. *)

Begin(r, t) == Arrives(r, t) /\ UNCHANGED creationVars

Resolve(r) == ResolveStep(r) /\ UNCHANGED creationVars

\* The body matters from here on.
Insert(r, j) ==
  /\ Step(r, "in", IF j.list = <<>> THEN "creator" ELSE "entries")
  /\ ~Indexed(j.wf)
  /\ job' = [job EXCEPT ![r] = j]
  /\ UNCHANGED <<principal, token, members, todo>>

\* WORKFLOW_CONTEXT_THREAD_EXISTS
InsertClash(r, j) ==
  /\ Step(r, "in", "409")
  /\ Indexed(j.wf)
  /\ UNCHANGED <<principal, token, creationVars>>

\* Roles and states are checked, then all agent ids looked up at once.
Entries(r) ==
  LET list == job[r].list
      good == \A a \in Range(list) : a \in Agents \ OddAgents /\ Holder(a) # {} IN
  /\ Step(r, "entries", IF good THEN "add" ELSE "400")
  /\ todo' = [todo EXCEPT ![r] =
       IF good THEN [i \in DOMAIN list |-> CHOOSE s \in Subjects : s \in Holder(list[i])]
               ELSE <<>>]
  /\ UNCHANGED <<principal, token, job, members>>

\* The row of a participant is unique: a second one is an error (500).
AddRow(r, s, next) ==
  \/ /\ s \in members[r]
     /\ pc' = [pc EXCEPT ![r] = "broken"]
     /\ UNCHANGED members
  \/ /\ s \notin members[r]
     /\ pc' = [pc EXCEPT ![r] = next]
     /\ members' = [members EXCEPT ![r] = @ \cup {s}]

AddEntry(r) ==
  /\ pc[r] = "add"
  /\ AddRow(r, Head(todo[r]), IF Len(todo[r]) > 1 THEN "add" ELSE "creator")
  /\ todo' = [todo EXCEPT ![r] = IF pc'[r] = "broken" THEN <<>> ELSE Tail(@)]
  /\ UNCHANGED <<principal, token, job>>

\* Mutant: the creator is added only to a thread that has no other participant.
CreatorIfAlone(r) ==
  /\ Step(r, "creator", IF members[r] # {} THEN "201" ELSE "addCreator")
  /\ UNCHANGED <<principal, token, creationVars>>

\* findParticipant
Creator(r) ==
  /\ Step(r, "creator", IF token[r].sub \in members[r] THEN "201" ELSE "addCreator")
  /\ UNCHANGED <<principal, token, creationVars>>

AddCreator(r) ==
  /\ pc[r] = "addCreator"
  /\ AddRow(r, token[r].sub, "201")
  /\ UNCHANGED <<principal, token, job, todo>>

Creating == {"in", "entries", "add", "creator", "addCreator"}

\* A statement fails; what was written before stays.
CreationBreaks(r) ==
  /\ \E p \in Creating : Step(r, p, "broken")
  /\ todo' = [todo EXCEPT ![r] = <<>>]
  /\ UNCHANGED <<principal, token, job, members>>

-----------------------------------------------------------------------------
(* What others do to a thread meanwhile. *)

\* A principal joins (POST /participants, self-service).
Join(r, s) ==
  /\ HasThread(r) /\ Known(s) /\ principal[s].status = "active" /\ s \notin members[r]
  /\ members' = [members EXCEPT ![r] = @ \cup {s}]
  /\ UNCHANGED <<principalVars, job, todo>>

-----------------------------------------------------------------------------

Init ==
  /\ PrincipalsInit
  /\ job = [r \in Requests |-> None]
  /\ members = [r \in Requests |-> {}]
  /\ todo = [r \in Requests |-> <<>>]

CreateStep(r) ==
  \/ \E j \in Jobs : Insert(r, j) \/ InsertClash(r, j)
  \/ Entries(r) \/ AddEntry(r) \/ Creator(r) \/ AddCreator(r)

Next ==
  \/ \E r \in Requests :
       \/ \E t \in Tokens : Begin(r, t)
       \/ Resolve(r) \/ CreateStep(r) \/ CreationBreaks(r)
       \/ Breaks(r) /\ UNCHANGED creationVars
       \/ \E s \in Subjects : Join(r, s)
  \/ \E s \in Subjects : disablePrincipal(s) /\ UNCHANGED creationVars

\* The handlers run.
Fairness == \A r \in Requests : WF_vars(Resolve(r) \/ CreateStep(r))

Spec == Init /\ [][Next]_vars /\ Fairness

-----------------------------------------------------------------------------
(* Properties. *)

\* Every variable holds one of its values.
TypeOK ==
  /\ principal \in [Subjects -> [agent: Agents, status: {"active", "disabled"}] \cup {None}]
  /\ pc \in [Requests -> {"idle", "201", "400", "409", "broken"} \cup Resolving \cup Creating
                         \cup RefusedCodes]
  /\ token \in [Requests -> Tokens \cup {None}]
  /\ job \in [Requests -> Jobs \cup {None}]
  /\ members \in [Requests -> SUBSET Subjects]
  /\ todo \in [Requests -> Seq(Subjects)]

\* A creation that reports success is complete, whoever joined meanwhile: the
\* creator and every participant of the body have their rows.
CreatedComplete ==
  \A r \in Requests : pc[r] = "201" =>
    /\ HasThread(r) /\ token[r].sub \in members[r]
    /\ \A a \in Range(job[r].list) : Holder(a) \subseteq members[r] /\ Holder(a) # {}

\* Every request ends: the retry after a lost race does not go on for ever, nor
\* does anything after it.
RequestEnds ==
  \A r \in Requests : pc[r] = "find" ~> pc[r] \notin Resolving \cup Creating
=============================================================================
