------------------------ MODULE PipelineReset_proofs ------------------------
(***************************************************************************)
(* Theorems about PipelineReset, for any processes and any number of them  *)
(* that start while the tool works: what it may say of the devices when it *)
(* ends with 0, and which pipelines its scan leaves alive.                 *)
(***************************************************************************)
EXTENDS PipelineReset, TLAPS

-----------------------------------------------------------------------------
(* The invariant *)

\* Errors there may be by the time the tool comes to a step.
ErrorsSoFar ==
  errors \in CASE pc \in {"open", "kill"}                  -> {0}
               [] pc \in {"diagnose", "v4l2stop"}          -> 0 .. 1
               [] pc \in {"release", "chardev", "verify"}  -> 0 .. 2
               [] pc \in {"encoder", "reset", "close"}     -> 0 .. 3
               [] pc = "summary"                           -> 0 .. 4
               [] pc = "done"                              -> 0 .. 5

\* No device, no owner; and what was verified stays true until somebody comes.
OwnerInv ==
  /\ ~ vdin => owner = None
  /\ Verified /\ ~ dry_run /\ errors = 0 /\ ~ odd /\ ~ disturbed => owner = None

\* After the last close with no error the encoder is torn down.
EncoderInv ==
  pc \in {"summary", "done"} /\ ~ dry_run /\ errors = 0 /\ amvenc /\ ~ shared /\ ~ disturbed =>
    encoder = "clean" /\ Tool \notin openers

\* A pipeline is still to be visited, or was spared, or there was an error instead of
\* the scan.
ScanInv ==
  /\ ~ skip_kill /\ pc # "open" =>
       IF unscanned THEN errors > 0 ELSE alive \cap Gst \subseteq spared \cup todo
  /\ pc = "open" => ~ unscanned
  /\ pc # "kill" => todo = {}

IInv == TypeOK /\ ErrorsSoFar /\ OwnerInv /\ EncoderInv /\ ScanInv

-----------------------------------------------------------------------------
(* Every step keeps it, part by part *)

NodesType ==
  /\ kernelFix \in BOOLEAN /\ vdin \in BOOLEAN /\ amvenc \in BOOLEAN
  /\ encoder \in {"bad", "clean"}

ProcsType ==
  /\ alive \in SUBSET Procs /\ releasing \in SUBSET Procs /\ alive \cap releasing = {}
  /\ todo \in SUBSET Procs /\ spared \in SUBSET Procs

UsersType ==
  /\ owner \in alive \cup releasing \cup {None, Stale}
  /\ openers \in SUBSET (alive \cup releasing \cup {Tool})

ToolType ==
  /\ dry_run \in BOOLEAN /\ skip_kill \in BOOLEAN
  /\ pc \in {"open", "kill", "diagnose", "v4l2stop", "release", "chardev", "verify",
             "encoder", "reset", "close", "summary", "done"}
  /\ unscanned \in BOOLEAN
  /\ odd \in BOOLEAN /\ disturbed \in BOOLEAN /\ shared \in BOOLEAN

CountType == starts \in 0 .. MaxEvents /\ errors \in 0 .. 5

LEMMA Parts ==
  TypeOK <=> NodesType /\ ProcsType /\ UsersType /\ ToolType /\ CountType
  BY DEF TypeOK, NodesType, ProcsType, UsersType, ToolType, CountType

LEMMA NodesStep ==
  ASSUME NodesType, [Next]_vars
  PROVE  NodesType'
<1> USE DEF NodesType, procs, nodes, devices, flags, tool, hist
<1>1. CASE \E p \in Procs : Start(p)
  BY <1>1 DEF Start, Verified
<1>2. CASE \E p \in Procs : Quit(p)
  BY <1>2 DEF Quit, CloseEncoder, Verified
<1>3. CASE \E p \in Procs : Release(p)
  BY <1>3 DEF Release, Verified
<1>4. CASE \E p \in Procs : Visit(p)
  BY <1>4 DEF Visit
<1>5. CASE EndScan
  BY <1>5 DEF EndScan, Goto
<1>6. CASE diagnose_vdin1
  BY <1>6 DEF diagnose_vdin1, Goto, CloseQueue, OpenFails, Busy
<1>7. CASE SendStop
  BY <1>7 DEF SendStop, Goto
<1>8. CASE OpenClose
  BY <1>8 DEF OpenClose, Goto, CloseQueue, OpenFails, Busy
<1>9. CASE OpenCloseChardev
  BY <1>9 DEF OpenCloseChardev, Goto
<1>10. CASE Verify
  BY <1>10 DEF Verify, Goto, CloseQueue, OpenFails, Busy
<1>11. CASE OpenEncoder
  BY <1>11 DEF OpenEncoder, Goto
<1>12. CASE ResetEncoder
  BY <1>12 DEF ResetEncoder, Goto
<1>13. CASE FinishEncoder
  BY <1>13 DEF FinishEncoder, Goto, CloseEncoder
<1>14. CASE Summary
  BY <1>14 DEF Summary, Goto
<1>15. CASE OpenProc
  BY <1>15 DEF OpenProc, Goto
<1>16. CASE OpenProcFails
  BY <1>16 DEF OpenProcFails, Goto
<1>17. CASE UNCHANGED vars
  BY <1>17 DEF vars
<1> QED
  BY <1>1, <1>2, <1>3, <1>4, <1>5, <1>6, <1>7, <1>8, <1>9, <1>10, <1>11, <1>12, <1>13, <1>14,
     <1>15, <1>16, <1>17
  DEF Next, System, main, reset_vdin1, reset_encoder

LEMMA ProcsStep ==
  ASSUME ProcsType, [Next]_vars
  PROVE  ProcsType'
<1> USE DEF ProcsType, procs, nodes, devices, flags, tool, hist
<1>1. CASE \E p \in Procs : Start(p)
  BY <1>1 DEF Start, Verified
<1>2. CASE \E p \in Procs : Quit(p)
  BY <1>2 DEF Quit, CloseEncoder, Verified
<1>3. CASE \E p \in Procs : Release(p)
  BY <1>3 DEF Release, Verified
<1>4. CASE \E p \in Procs : Visit(p)
  BY <1>4 DEF Visit
<1>5. CASE EndScan
  BY <1>5 DEF EndScan, Goto
<1>6. CASE diagnose_vdin1
  BY <1>6 DEF diagnose_vdin1, Goto, CloseQueue, OpenFails, Busy
<1>7. CASE SendStop
  BY <1>7 DEF SendStop, Goto
<1>8. CASE OpenClose
  BY <1>8 DEF OpenClose, Goto, CloseQueue, OpenFails, Busy
<1>9. CASE OpenCloseChardev
  BY <1>9 DEF OpenCloseChardev, Goto
<1>10. CASE Verify
  BY <1>10 DEF Verify, Goto, CloseQueue, OpenFails, Busy
<1>11. CASE OpenEncoder
  BY <1>11 DEF OpenEncoder, Goto
<1>12. CASE ResetEncoder
  BY <1>12 DEF ResetEncoder, Goto
<1>13. CASE FinishEncoder
  BY <1>13 DEF FinishEncoder, Goto, CloseEncoder
<1>14. CASE Summary
  BY <1>14 DEF Summary, Goto
<1>15. CASE OpenProc
  BY <1>15 DEF OpenProc, Goto
<1>16. CASE OpenProcFails
  BY <1>16 DEF OpenProcFails, Goto
<1>17. CASE UNCHANGED vars
  BY <1>17 DEF vars
<1> QED
  BY <1>1, <1>2, <1>3, <1>4, <1>5, <1>6, <1>7, <1>8, <1>9, <1>10, <1>11, <1>12, <1>13, <1>14,
     <1>15, <1>16, <1>17
  DEF Next, System, main, reset_vdin1, reset_encoder

LEMMA UsersStep ==
  ASSUME ProcsType, UsersType, [Next]_vars
  PROVE  UsersType'
<1> USE DEF ProcsType, UsersType, procs, nodes, devices, flags, tool, hist
<1>1. CASE \E p \in Procs : Start(p)
  BY <1>1 DEF Start, Verified
<1>2. CASE \E p \in Procs : Quit(p)
  BY <1>2 DEF Quit, CloseEncoder, Verified
<1>3. CASE \E p \in Procs : Release(p)
  BY <1>3 DEF Release, Verified
<1>4. CASE \E p \in Procs : Visit(p)
  BY <1>4 DEF Visit
<1>5. CASE EndScan
  BY <1>5 DEF EndScan, Goto
<1>6. CASE diagnose_vdin1
  BY <1>6 DEF diagnose_vdin1, Goto, CloseQueue, OpenFails, Busy
<1>7. CASE SendStop
  BY <1>7 DEF SendStop, Goto
<1>8. CASE OpenClose
  BY <1>8 DEF OpenClose, Goto, CloseQueue, OpenFails, Busy
<1>9. CASE OpenCloseChardev
  BY <1>9 DEF OpenCloseChardev, Goto
<1>10. CASE Verify
  BY <1>10 DEF Verify, Goto, CloseQueue, OpenFails, Busy
<1>11. CASE OpenEncoder
  BY <1>11 DEF OpenEncoder, Goto
<1>12. CASE ResetEncoder
  BY <1>12 DEF ResetEncoder, Goto
<1>13. CASE FinishEncoder
  BY <1>13 DEF FinishEncoder, Goto, CloseEncoder
<1>14. CASE Summary
  BY <1>14 DEF Summary, Goto
<1>15. CASE OpenProc
  BY <1>15 DEF OpenProc, Goto
<1>16. CASE OpenProcFails
  BY <1>16 DEF OpenProcFails, Goto
<1>17. CASE UNCHANGED vars
  BY <1>17 DEF vars
<1> QED
  BY <1>1, <1>2, <1>3, <1>4, <1>5, <1>6, <1>7, <1>8, <1>9, <1>10, <1>11, <1>12, <1>13, <1>14,
     <1>15, <1>16, <1>17
  DEF Next, System, main, reset_vdin1, reset_encoder

LEMMA ToolStep ==
  ASSUME ToolType, [Next]_vars
  PROVE  ToolType'
<1> USE DEF ToolType, procs, nodes, devices, flags, tool, hist
<1>1. CASE \E p \in Procs : Start(p)
  BY <1>1 DEF Start, Verified
<1>2. CASE \E p \in Procs : Quit(p)
  BY <1>2 DEF Quit, CloseEncoder, Verified
<1>3. CASE \E p \in Procs : Release(p)
  BY <1>3 DEF Release, Verified
<1>4. CASE \E p \in Procs : Visit(p)
  BY <1>4 DEF Visit
<1>5. CASE EndScan
  BY <1>5 DEF EndScan, Goto
<1>6. CASE diagnose_vdin1
  BY <1>6 DEF diagnose_vdin1, Goto, CloseQueue, OpenFails, Busy
<1>7. CASE SendStop
  BY <1>7 DEF SendStop, Goto
<1>8. CASE OpenClose
  BY <1>8 DEF OpenClose, Goto, CloseQueue, OpenFails, Busy
<1>9. CASE OpenCloseChardev
  BY <1>9 DEF OpenCloseChardev, Goto
<1>10. CASE Verify
  BY <1>10 DEF Verify, Goto, CloseQueue, OpenFails, Busy
<1>11. CASE OpenEncoder
  BY <1>11 DEF OpenEncoder, Goto
<1>12. CASE ResetEncoder
  BY <1>12 DEF ResetEncoder, Goto
<1>13. CASE FinishEncoder
  BY <1>13 DEF FinishEncoder, Goto, CloseEncoder
<1>14. CASE Summary
  BY <1>14 DEF Summary, Goto
<1>15. CASE OpenProc
  BY <1>15 DEF OpenProc, Goto
<1>16. CASE OpenProcFails
  BY <1>16 DEF OpenProcFails, Goto
<1>17. CASE UNCHANGED vars
  BY <1>17 DEF vars
<1> QED
  BY <1>1, <1>2, <1>3, <1>4, <1>5, <1>6, <1>7, <1>8, <1>9, <1>10, <1>11, <1>12, <1>13, <1>14,
     <1>15, <1>16, <1>17
  DEF Next, System, main, reset_vdin1, reset_encoder

LEMMA CountStep ==
  ASSUME ToolType, CountType, ErrorsSoFar, [Next]_vars
  PROVE  CountType' /\ ErrorsSoFar'
<1> USE DEF ToolType, CountType, ErrorsSoFar, procs, nodes, devices, flags, tool, hist
<1>1. CASE \E p \in Procs : Start(p)
  BY <1>1, EventsAssumption DEF Start, Verified
<1>2. CASE \E p \in Procs : Quit(p)
  BY <1>2, EventsAssumption DEF Quit, CloseEncoder, Verified
<1>3. CASE \E p \in Procs : Release(p)
  BY <1>3, EventsAssumption DEF Release, Verified
<1>4. CASE \E p \in Procs : Visit(p)
  BY <1>4, EventsAssumption DEF Visit
<1>5. CASE EndScan
  BY <1>5, EventsAssumption DEF EndScan, Goto
<1>6. CASE diagnose_vdin1
  BY <1>6, EventsAssumption DEF diagnose_vdin1, Goto, CloseQueue, OpenFails, Busy
<1>7. CASE SendStop
  BY <1>7, EventsAssumption DEF SendStop, Goto
<1>8. CASE OpenClose
  BY <1>8, EventsAssumption DEF OpenClose, Goto, CloseQueue, OpenFails, Busy
<1>9. CASE OpenCloseChardev
  BY <1>9, EventsAssumption DEF OpenCloseChardev, Goto
<1>10. CASE Verify
  BY <1>10, EventsAssumption DEF Verify, Goto, CloseQueue, OpenFails, Busy
<1>11. CASE OpenEncoder
  BY <1>11, EventsAssumption DEF OpenEncoder, Goto
<1>12. CASE ResetEncoder
  BY <1>12, EventsAssumption DEF ResetEncoder, Goto
<1>13. CASE FinishEncoder
  BY <1>13, EventsAssumption DEF FinishEncoder, Goto, CloseEncoder
<1>14. CASE Summary
  BY <1>14, EventsAssumption DEF Summary, Goto
<1>15. CASE OpenProc
  BY <1>15, EventsAssumption DEF OpenProc, Goto
<1>16. CASE OpenProcFails
  BY <1>16, EventsAssumption DEF OpenProcFails, Goto
<1>17. CASE UNCHANGED vars
  BY <1>17 DEF vars
<1> QED
  BY <1>1, <1>2, <1>3, <1>4, <1>5, <1>6, <1>7, <1>8, <1>9, <1>10, <1>11, <1>12, <1>13, <1>14,
     <1>15, <1>16, <1>17
  DEF Next, System, main, reset_vdin1, reset_encoder

LEMMA OwnerStep ==
  ASSUME ToolType, NodesType, CountType, OwnerInv, [Next]_vars
  PROVE  OwnerInv'
<1> USE DEF ToolType, NodesType, CountType, OwnerInv, Verified, procs, nodes, devices, flags, tool, hist
<1>1. CASE \E p \in Procs : Start(p)
  BY <1>1, NamesAssumption DEF Start, Verified
<1>2. CASE \E p \in Procs : Quit(p)
  BY <1>2, NamesAssumption DEF Quit, CloseEncoder, Verified
<1>3. CASE \E p \in Procs : Release(p)
  BY <1>3, NamesAssumption DEF Release, Verified
<1>4. CASE \E p \in Procs : Visit(p)
  BY <1>4, NamesAssumption DEF Visit
<1>5. CASE EndScan
  BY <1>5, NamesAssumption DEF EndScan, Goto
<1>6. CASE diagnose_vdin1
  BY <1>6, NamesAssumption DEF diagnose_vdin1, Goto, CloseQueue, OpenFails, Busy
<1>7. CASE SendStop
  BY <1>7, NamesAssumption DEF SendStop, Goto
<1>8. CASE OpenClose
  BY <1>8, NamesAssumption DEF OpenClose, Goto, CloseQueue, OpenFails, Busy
<1>9. CASE OpenCloseChardev
  BY <1>9, NamesAssumption DEF OpenCloseChardev, Goto
<1>10. CASE Verify
  BY <1>10, NamesAssumption DEF Verify, Goto, CloseQueue, OpenFails, Busy
<1>11. CASE OpenEncoder
  BY <1>11, NamesAssumption DEF OpenEncoder, Goto
<1>12. CASE ResetEncoder
  BY <1>12, NamesAssumption DEF ResetEncoder, Goto
<1>13. CASE FinishEncoder
  BY <1>13, NamesAssumption DEF FinishEncoder, Goto, CloseEncoder
<1>14. CASE Summary
  BY <1>14, NamesAssumption DEF Summary, Goto
<1>15. CASE OpenProc
  BY <1>15, NamesAssumption DEF OpenProc, Goto
<1>16. CASE OpenProcFails
  BY <1>16, NamesAssumption DEF OpenProcFails, Goto
<1>17. CASE UNCHANGED vars
  BY <1>17 DEF vars
<1> QED
  BY <1>1, <1>2, <1>3, <1>4, <1>5, <1>6, <1>7, <1>8, <1>9, <1>10, <1>11, <1>12, <1>13, <1>14,
     <1>15, <1>16, <1>17
  DEF Next, System, main, reset_vdin1, reset_encoder

LEMMA EncoderStep ==
  ASSUME ToolType, NodesType, CountType, EncoderInv, [Next]_vars
  PROVE  EncoderInv'
<1> USE DEF ToolType, NodesType, CountType, EncoderInv, procs, nodes, devices, flags, tool, hist
<1>1. CASE \E p \in Procs : Start(p)
  BY <1>1, NamesAssumption DEF Start, Verified
<1>2. CASE \E p \in Procs : Quit(p)
  BY <1>2, NamesAssumption DEF Quit, CloseEncoder, Verified
<1>3. CASE \E p \in Procs : Release(p)
  BY <1>3, NamesAssumption DEF Release, Verified
<1>4. CASE \E p \in Procs : Visit(p)
  BY <1>4, NamesAssumption DEF Visit
<1>5. CASE EndScan
  BY <1>5, NamesAssumption DEF EndScan, Goto
<1>6. CASE diagnose_vdin1
  BY <1>6, NamesAssumption DEF diagnose_vdin1, Goto, CloseQueue, OpenFails, Busy
<1>7. CASE SendStop
  BY <1>7, NamesAssumption DEF SendStop, Goto
<1>8. CASE OpenClose
  BY <1>8, NamesAssumption DEF OpenClose, Goto, CloseQueue, OpenFails, Busy
<1>9. CASE OpenCloseChardev
  BY <1>9, NamesAssumption DEF OpenCloseChardev, Goto
<1>10. CASE Verify
  BY <1>10, NamesAssumption DEF Verify, Goto, CloseQueue, OpenFails, Busy
<1>11. CASE OpenEncoder
  BY <1>11, NamesAssumption DEF OpenEncoder, Goto
<1>12. CASE ResetEncoder
  BY <1>12, NamesAssumption DEF ResetEncoder, Goto
<1>13. CASE FinishEncoder
  BY <1>13, NamesAssumption DEF FinishEncoder, Goto, CloseEncoder
<1>14. CASE Summary
  BY <1>14, NamesAssumption DEF Summary, Goto
<1>15. CASE OpenProc
  BY <1>15, NamesAssumption DEF OpenProc, Goto
<1>16. CASE OpenProcFails
  BY <1>16, NamesAssumption DEF OpenProcFails, Goto
<1>17. CASE UNCHANGED vars
  BY <1>17 DEF vars
<1> QED
  BY <1>1, <1>2, <1>3, <1>4, <1>5, <1>6, <1>7, <1>8, <1>9, <1>10, <1>11, <1>12, <1>13, <1>14,
     <1>15, <1>16, <1>17
  DEF Next, System, main, reset_vdin1, reset_encoder

LEMMA ScanStep ==
  ASSUME ToolType, CountType, ScanInv, [Next]_vars
  PROVE  ScanInv'
<1> USE DEF ToolType, CountType, ScanInv, procs, nodes, devices, flags, tool, hist
<1>1. CASE \E p \in Procs : Start(p)
  BY <1>1 DEF Start, Verified
<1>2. CASE \E p \in Procs : Quit(p)
  BY <1>2 DEF Quit, CloseEncoder, Verified
<1>3. CASE \E p \in Procs : Release(p)
  BY <1>3 DEF Release, Verified
<1>4. CASE \E p \in Procs : Visit(p)
  BY <1>4 DEF Visit
<1>5. CASE EndScan
  BY <1>5 DEF EndScan, Goto
<1>6. CASE diagnose_vdin1
  BY <1>6 DEF diagnose_vdin1, Goto, CloseQueue, OpenFails, Busy
<1>7. CASE SendStop
  BY <1>7 DEF SendStop, Goto
<1>8. CASE OpenClose
  BY <1>8 DEF OpenClose, Goto, CloseQueue, OpenFails, Busy
<1>9. CASE OpenCloseChardev
  BY <1>9 DEF OpenCloseChardev, Goto
<1>10. CASE Verify
  BY <1>10 DEF Verify, Goto, CloseQueue, OpenFails, Busy
<1>11. CASE OpenEncoder
  BY <1>11 DEF OpenEncoder, Goto
<1>12. CASE ResetEncoder
  BY <1>12 DEF ResetEncoder, Goto
<1>13. CASE FinishEncoder
  BY <1>13 DEF FinishEncoder, Goto, CloseEncoder
<1>14. CASE Summary
  BY <1>14 DEF Summary, Goto
<1>15. CASE OpenProc
  BY <1>15 DEF OpenProc, Goto
<1>16. CASE OpenProcFails
  BY <1>16 DEF OpenProcFails, Goto
<1>17. CASE UNCHANGED vars
  BY <1>17 DEF vars
<1> QED
  BY <1>1, <1>2, <1>3, <1>4, <1>5, <1>6, <1>7, <1>8, <1>9, <1>10, <1>11, <1>12, <1>13, <1>14,
     <1>15, <1>16, <1>17
  DEF Next, System, main, reset_vdin1, reset_encoder

LEMMA InitHolds == Init => IInv
<1> SUFFICES ASSUME Init PROVE IInv
  OBVIOUS
<1> USE DEF Init
<1>1. NodesType /\ ToolType
  BY DEF NodesType, ToolType
<1>2. ProcsType /\ UsersType
  BY DEF ProcsType, UsersType
<1>3. CountType /\ ErrorsSoFar
  BY EventsAssumption DEF CountType, ErrorsSoFar
<1>4. OwnerInv
  BY DEF OwnerInv, Verified
<1>5. EncoderInv /\ ScanInv
  BY DEF EncoderInv, ScanInv
<1> QED
  BY <1>1, <1>2, <1>3, <1>4, <1>5, Parts DEF IInv

THEOREM Invariant == Spec => []IInv
<1> DEFINE Typed == NodesType /\ ProcsType /\ UsersType /\ ToolType /\ CountType
<1> DEFINE J == Typed /\ ErrorsSoFar /\ OwnerInv /\ EncoderInv /\ ScanInv
<1>1. IInv <=> J
  BY Parts DEF IInv
<1>2. J /\ [Next]_vars => J'
  BY NodesStep, ProcsStep, UsersStep, ToolStep, CountStep, OwnerStep, EncoderStep, ScanStep
<1> QED
  BY <1>1, <1>2, InitHolds, PTL DEF Spec

-----------------------------------------------------------------------------
(* What follows *)

\* Types; the number of errors has a bound.
THEOREM TypeCorrect == Spec => []TypeOK
<1>1. IInv => TypeOK
  BY DEF IInv
<1> QED
  BY <1>1, Invariant, PTL

\* A run that ends with 0 has verified that the capture queue has no owner.
THEOREM ReadyMeansReady == Spec => []ReadyIsReady
<1>1. IInv => ReadyIsReady
  BY DEF IInv, OwnerInv, ReadyIsReady, Success, Verified
<1> QED
  BY <1>1, Invariant, PTL

\* A run that ends with 0 has torn the encoder down, if nobody else had it open.
THEOREM EncoderIsTornDown == Spec => []EncoderIsReset
<1>1. IInv => EncoderIsReset
  BY DEF IInv, EncoderInv, EncoderIsReset, Success
<1> QED
  BY <1>1, Invariant, PTL

\* The scan leaves no pipeline alive that was there before it, could be recognised and
\* could be killed; without a scan there is an error.
THEOREM NoPipelineSurvives == Spec => []NoPipelineLeft
<1>1. IInv => NoPipelineLeft
  BY DEF IInv, ScanInv, NoPipelineLeft
<1> QED
  BY <1>1, Invariant, PTL
=============================================================================
