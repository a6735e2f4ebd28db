----------------------------- MODULE MCObserver -------------------------------
(***************************************************************************)
(* An instance of Observer for TLC: a busy thread and a quiet one.         *)
(***************************************************************************)
EXTENDS Observer

CONSTANTS busy, quiet

MCMaxMsgs == [t \in Threads |-> IF t = busy THEN 2 ELSE 1]
=============================================================================
