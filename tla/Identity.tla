------------------------------- MODULE Identity -------------------------------
(***************************************************************************)
(* What the forum promises of its principals (the contract in the comments *)
(* of lib/forum-principal.ts), however many requests resolve them at once: *)
(* a subject is bound to one agent id and an agent id to one subject, for  *)
(* ever, and a request is let in as a subject only under the agent id the  *)
(* subject is bound to, and never once the subject is disabled.            *)
(***************************************************************************)
CONSTANTS Requests, Subjects, Agents

VARIABLES
  bound,     \* the pairs of a subject and its agent id
  disabled,  \* the subjects that are disabled
  granted    \* the requests that were let in, as whom and under which agent id

vars == <<bound, disabled, granted>>

Taken(s, a) == \E p \in bound : p[1] = s \/ p[2] = a

Init == bound = {} /\ disabled = {} /\ granted = {}

\* The first request of a subject binds it, and is let in.
Bind(r, s, a) ==
  /\ ~Taken(s, a)
  /\ bound' = bound \cup {<<s, a>>}
  /\ granted' = granted \cup {<<r, s, a>>}
  /\ UNCHANGED disabled

Grant(r, s, a) ==
  /\ <<s, a>> \in bound /\ s \notin disabled
  /\ granted' = granted \cup {<<r, s, a>>}
  /\ UNCHANGED <<bound, disabled>>

Disable(s) ==
  /\ \E a \in Agents : <<s, a>> \in bound
  /\ disabled' = disabled \cup {s}
  /\ UNCHANGED <<bound, granted>>

Next ==
  \/ \E s \in Subjects : Disable(s)
  \/ \E r \in Requests, s \in Subjects, a \in Agents : Bind(r, s, a) \/ Grant(r, s, a)

Spec == Init /\ [][Next]_vars
=============================================================================
