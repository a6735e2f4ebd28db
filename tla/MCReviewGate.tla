---------------------------- MODULE MCReviewGate -----------------------------
(***************************************************************************)
(* Instances of ReviewGate for TLC.  Request slots are interchangeable.    *)
(***************************************************************************)
EXTENDS ReviewGate, TLC

CONSTANTS cara, rex

SlotSymmetry == Permutations(Requests)

=============================================================================
