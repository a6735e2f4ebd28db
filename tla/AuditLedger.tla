----------------------------- MODULE AuditLedger -----------------------------
(***************************************************************************)
(* What the governance layer promises of thread statuses, without saying   *)
(* how requests are handled: a status moves only together with exactly one *)
(* new audit record naming the status it moves to, every other record      *)
(* leaves the statuses alone, and the log only grows at its end.           *)
(* (lib/governance.ts: "the action must never succeed unrecorded".)        *)
(***************************************************************************)
EXTENDS Sequences, Naturals

CONSTANTS Threads,          \* the threads of the forum
          SetsStatus(_, _)  \* SetsStatus(e, t): record e moves thread t

VARIABLES status, audit

LedgerVars == <<status, audit>>

LedgerInit == audit = <<>> /\ status = [t \in Threads |-> "open"]

\* The log keeps what it had.
Extends(new, old) ==
  /\ Len(new) >= Len(old)
  /\ \A i \in 1 .. Len(old) : new[i] = old[i]

\* One record appended, and the thread it names moves where it says.
Govern(t) ==
  /\ Len(audit') = Len(audit) + 1
  /\ Extends(audit', audit)
  /\ SetsStatus(audit'[Len(audit) + 1], t)
  /\ status' = [status EXCEPT ![t] = audit'[Len(audit) + 1].to]

\* Records that move no thread.
Note ==
  /\ Extends(audit', audit)
  /\ \A i \in Len(audit) + 1 .. Len(audit') :
       \A t \in Threads : ~SetsStatus(audit'[i], t)
  /\ status' = status

LedgerNext == (\E t \in Threads : Govern(t)) \/ Note

LedgerSpec == LedgerInit /\ [][LedgerNext]_LedgerVars

=============================================================================
