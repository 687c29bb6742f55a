--------------------------- MODULE OtaTransaction ---------------------------
(***************************************************************************)
(* What an update of the firmware amounts to when requests, scripts, misc, *)
(* boot reasons and power cuts are forgotten: one transaction over the     *)
(* system partitions.  While it is open the normal system is down; what it *)
(* leaves half-written keeps it open until another attempt has completed   *)
(* the system and recorded it.  A package that was put on the device is    *)
(* given up once that is over, and a release that is recorded stays.       *)
(***************************************************************************)

VARIABLES
  up,        \* the normal system runs
  system,    \* the system partitions: "old", "partial" or "new"
  open,      \* the transaction is open
  recorded,  \* the release is recorded as installed
  package    \* the package on the data partition is still there

update == <<system, open, recorded>>
vars   == <<up, update, package>>

Init ==
  /\ up = TRUE /\ system = "old"
  /\ open = FALSE /\ recorded = FALSE /\ package \in BOOLEAN

Start == ~ open /\ up' = TRUE /\ UNCHANGED <<update, package>>

\* A reboot into the recovery system, or a loss of power.
Stop == up' = FALSE /\ UNCHANGED <<update, package>>

Begin ==
  /\ ~ up /\ ~ recorded
  /\ open' = TRUE
  /\ UNCHANGED <<up, system, recorded, package>>

Write ==
  /\ ~ up /\ open /\ ~ recorded
  /\ system' = "partial"
  /\ UNCHANGED <<up, open, recorded, package>>

Complete ==
  /\ ~ up /\ open /\ system = "partial"
  /\ system' = "new"
  /\ UNCHANGED <<up, open, recorded, package>>

Record ==
  /\ ~ up /\ open /\ system = "new"
  /\ recorded' = TRUE
  /\ UNCHANGED <<up, system, open, package>>

Close ==
  /\ ~ up /\ recorded
  /\ open' = FALSE
  /\ UNCHANGED <<up, system, recorded, package>>

Discard ==
  /\ ~ up /\ recorded /\ ~ open
  /\ package' = FALSE
  /\ UNCHANGED <<up, update>>

Next == Start \/ Stop \/ Begin \/ Write \/ Complete \/ Record \/ Close \/ Discard

Spec == Init /\ [][Next]_vars
=============================================================================
