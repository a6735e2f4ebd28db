--------------------------- MODULE MCThreadCreation ---------------------------
(***************************************************************************)
(* An instance of ThreadCreation for TLC.                                   *)
(***************************************************************************)
EXTENDS ThreadCreation, TLC

T(s, a) == [sub |-> s, agent |-> a]
J(wf, list) == [wf |-> wf, list |-> list]

CONSTANTS s1, s2, a1, a2, odd, w1

MCTokens  == {T(s1, a1), T(s2, a2), T(s2, a1), T(s1, odd), T(s2, odd)}
MCJobs    == {J(w1, <<>>), J(None, <<a1, a2>>), J(None, <<a2, a2>>), J(w1, <<BadEntry>>)}
=============================================================================
