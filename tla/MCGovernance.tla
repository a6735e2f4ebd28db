---------------------------- MODULE MCGovernance -----------------------------
(***************************************************************************)
(* Instances of Governance for TLC: one thread opened by an ordinary       *)
(* writer, two moderators.  Request slots are interchangeable.             *)
(***************************************************************************)
EXTENDS Governance, TLC

CONSTANTS t1, creator, mod1, mod2

CreatorOf == [t \in Threads |-> creator]

\* Status writers, flags and report handling against each other.
RaceOps == {"hide", "restore", "resolve", "softDelete",
            "report", "delete", "flag", "patch", "outcome"}
\* Message deletion by both routes, a report ignored or acted on, those who come
\* and go, and hide as the status action that tells them.
ContentOps == {"deleteMessage", "report", "ignore", "delete", "watch",
               "join", "remove", "hide"}
\* Every writer of a status, flags and reports, for one handler at a time.
SerialOps == StatusActions \cup FlagOps \cup HandleOps \cup MemberOps \cup {"report", "outcome"}
FlagRaceOps == {"flag", "patch"}
TerminalRaceOps == {"archive", "restore", "softDelete"}
FinalizeRaceOps == {"resolve"}

OneMessage == {1}
None       == {}

SlotSymmetry == Permutations(Requests)

=============================================================================
