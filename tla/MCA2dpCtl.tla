----------------------------- MODULE MCA2dpCtl -----------------------------
(* Instances of A2dpCtl for TLC, with the invariant of its proofs.         *)
EXTENDS A2dpCtl_proofs, TLC

CONSTANTS p1, p2, p3, none

TwoPaths   == {p1, p2}
ThreePaths == {p1, p2, p3}

Symmetry2 == Permutations(TwoPaths)
Symmetry3 == Permutations(ThreePaths)
=============================================================================
