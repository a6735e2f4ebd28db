---------------------------- MODULE MCDiscussion -----------------------------
(***************************************************************************)
(* Instances of Discussion for TLC: one author, one reader the author may   *)
(* mention.  Request slots are interchangeable.                            *)
(***************************************************************************)
EXTENDS Discussion, TLC

Symmetry == Permutations(Requests)

=============================================================================
