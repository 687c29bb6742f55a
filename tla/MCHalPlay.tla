------------------------------ MODULE MCHalPlay ------------------------------
(* Instances of HalPlay for TLC. *)
EXTENDS HalPlay, TLC

CONSTANTS p1, p2, p3, sbc, aac, gone, t1, t2

ThreePaths == {p1, p2, p3}
TwoPaths   == {p1, p2}
OnePath    == {p1}
TwoFormats == {sbc, aac}
OneFormat  == {sbc}
TwoThreads == {t1, t2}

Symmetric == Permutations(TwoThreads) \cup Permutations(TwoPaths)
=============================================================================
