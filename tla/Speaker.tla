------------------------------ MODULE Speaker ------------------------------
(***************************************************************************)
(* What bt-halplay does to the audio HAL when the signals, the array of    *)
(* workers and their threads are forgotten: one player at a time, with one *)
(* output stream at most, which is open only while somebody plays.  The    *)
(* next player starts from silence, and a player keeps what it plays.      *)
(***************************************************************************)
EXTENDS Integers

VARIABLES
  playing,   \* the players, each with the PCM it plays
  streams    \* output streams the HAL has open

vars == <<playing, streams>>

Init == playing = {} /\ streams = 0

\* Somebody starts to play, with all closed.
Begin ==
  /\ playing = {} /\ streams = 0
  /\ \E p \in playing' : playing' = {p}
  /\ UNCHANGED streams

Open ==
  /\ playing # {} /\ streams = 0
  /\ streams' = 1
  /\ UNCHANGED playing

\* A pause.
Close ==
  /\ streams = 1
  /\ streams' = 0
  /\ UNCHANGED playing

\* The player ends and leaves nothing open.
End ==
  /\ playing # {}
  /\ playing' = {} /\ streams' = 0

Next == Begin \/ Open \/ Close \/ End

Spec == Init /\ [][Next]_vars
=============================================================================
