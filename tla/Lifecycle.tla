------------------------------ MODULE Lifecycle ------------------------------
(***************************************************************************)
(* The thread state machine of lib/governance.ts: the statuses a thread    *)
(* may have, the table of legal transitions, and the two status guards     *)
(* every route shares (posting and ordinary visibility).  It has no state  *)
(* of its own; the modules with state EXTEND it.                           *)
(***************************************************************************)

Statuses == {"open", "closed", "resolved", "archived", "hidden", "deleted"}

\* The four moderation endpoints, and the two other writers of a status.
LifecycleActions == {"close", "archive", "hide", "restore"}
StatusActions    == LifecycleActions \cup {"resolve", "softDelete"}

\* The status an action leads to: STATUS_TRANSITIONS[action].target.
Target(action) ==
  CASE action = "close"      -> "closed"
    [] action = "archive"    -> "archived"
    [] action = "hide"       -> "hidden"
    [] action = "restore"    -> "open"
    [] action = "resolve"    -> "resolved"
    [] action = "softDelete" -> "deleted"

\* The statuses it may start from: STATUS_TRANSITIONS[action].from.
Sources(action) ==
  CASE action = "close"      -> {"open"}
    [] action = "archive"    -> {"open", "closed"}
    [] action = "hide"       -> {"open", "closed"}
    [] action = "restore"    -> {"hidden", "archived", "closed"}
    [] action = "resolve"    -> {"open"}
    [] action = "softDelete" -> Statuses \ {"deleted"}

\* assertLifecycleTransition lets the action through.
LegalTransition(action, current) ==
  /\ current # Target(action)
  /\ current \in Sources(action)

\* MESSAGE_BLOCKING_STATUSES: a resolved thread still takes messages.
MessageBlocking == {"closed", "archived", "hidden", "deleted"}

\* ORDINARY_INVISIBLE_STATUSES.
OrdinaryInvisible == {"hidden", "deleted"}

\* assertOrdinaryReadVisibility: governance authority sees everything.
Visible(current, governs) == current \notin OrdinaryInvisible \/ governs

=============================================================================
