---------------------------- MODULE MCA2dpBluez ----------------------------
(* Instance of A2dpBluez for TLC. *)
EXTENDS A2dpBluez, TLC

CONSTANTS t1, t2, c1, c2

TwoTransports == {t1, t2}
TwoCallers    == {c1, c2}

Symmetry == Permutations(TwoTransports) \cup Permutations(TwoCallers)
=============================================================================
