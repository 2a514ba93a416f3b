----------------------------- MODULE MCPhiLift -----------------------------
(* PhiLift over values that are interchangeable.                           *)
EXTENDS PhiLift

Symmetry == Permutations(Values)
=============================================================================
