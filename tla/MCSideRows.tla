------------------------------ MODULE MCSideRows ------------------------------
(***************************************************************************)
(* An instance of SideRows for TLC.  Slots are interchangeable.            *)
(***************************************************************************)
EXTENDS SideRows, TLC

P(type, id) == [type |-> type, id |-> id]

\* A patch that turns an ordinary context into a workflow instance's, and one that
\* renames it.
MCPatches == {P("wf", "keep"), P("plain", "i2")}

\* Another, to the instance that the other thread has.
MCCollidingPatches == MCPatches \cup {P("keep", "i1")}

Symmetry == Permutations(Slots)
=============================================================================
