---------------------------- MODULE A2dpRegistry ----------------------------
(***************************************************************************)
(* What the device table of lib_a2dp_ctl.c amounts to when its slots, its  *)
(* growth and its scans are forgotten: a bag of PCM paths.  Adding a PCM   *)
(* puts one more copy of its path into the bag and disturbs nothing else,  *)
(* removing one takes one copy out if there is one.                        *)
(***************************************************************************)
EXTENDS Integers

CONSTANT Paths

VARIABLE known   \* known[p], how many entries the table has for p

Init == known = [p \in Paths |-> 0]

Add(p)  == known' = [known EXCEPT ![p] = @ + 1]

Drop(p) == known[p] > 0 /\ known' = [known EXCEPT ![p] = @ - 1]

\* a2dp_ctl_init failed after some PCMs were added.
Reset   == known' = [p \in Paths |-> 0]

Next == Reset \/ \E p \in Paths : Add(p) \/ Drop(p)

Spec == Init /\ [][Next]_known
=============================================================================
