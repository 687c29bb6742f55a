--------------------------- MODULE PipelineReset ---------------------------
(***************************************************************************)
(* pipeline-reset.c: kill the gst-launch processes, diagnose and reset the *)
(* capture device vdin1, reset the encoder.  Every step may fail with the  *)
(* later ones still to do, and the tool is not alone: processes start, die *)
(* and are torn down by the kernel while it works.  Of the two devices as  *)
(* much is modelled as the tool's comments say and its steps rely on.      *)
(***************************************************************************)
EXTENDS Integers, FiniteSets

CONSTANTS
  Procs,      \* processes that use the devices
  Gst,        \* those with the name gst-launch-1.0
  Tool,       \* pipeline-reset itself, as an opener
  None,       \* no owner of the queue
  Stale,      \* an owner that is no more
  MaxEvents   \* bound on the processes that are started

ASSUME ProcsAssumption  == IsFiniteSet(Procs) /\ Gst \subseteq Procs
ASSUME NamesAssumption  == Tool \notin Procs /\ None \notin Procs /\ Stale \notin Procs
                           /\ None # Stale
ASSUME EventsAssumption == MaxEvents \in Nat

VARIABLES
  \* the system
  alive,      \* processes that run
  releasing,  \* processes killed whose release handlers have not run
  starts,     \* processes started so far
  kernelFix,  \* vdin_v4l2_release calls stop_tvin
  vdin,       \* /dev/video71 exists
  owner,      \* the owner of its vb2 queue
  amvenc,     \* /dev/amvenc_multi exists
  openers,    \* who has it open
  encoder,    \* "bad" until a last close tears it down
  \* the tool
  dry_run, skip_kill, pc, errors,
  todo,       \* pids that the scan of /proc is yet to come to
  \* history
  spared,     \* processes that started during the scan, whose name could not be
              \* read, or that kill(2) refused
  unscanned,  \* /proc could not be opened
  odd,        \* the verification got an errno that is not EBUSY
  disturbed,  \* a process touched vdin1 after the verification
  shared      \* somebody had the encoder open when the tool closed it

procs   == <<alive, releasing, starts>>
nodes   == <<kernelFix, vdin, amvenc>>
devices == <<nodes, owner, openers, encoder>>
flags   == <<dry_run, skip_kill>>
tool    == <<pc, errors, todo>>
hist    == <<spared, unscanned, odd, disturbed, shared>>
vars    == <<procs, devices, flags, tool, hist>>

-----------------------------------------------------------------------------
(* Processes and the kernel *)

Verified == pc \in {"encoder", "reset", "close", "summary", "done"}

\* A pipeline opens the encoder and, if nobody has it, owns the capture queue.  A
\* scan of /proc comes across it or has passed its place.
Start(p) ==
  /\ starts < MaxEvents /\ starts' = starts + 1
  /\ p \notin alive \cup releasing
  /\ alive' = alive \cup {p}
  /\ owner' = IF vdin /\ owner = None THEN p ELSE owner
  /\ openers' = IF amvenc THEN openers \cup {p} ELSE openers
  /\ todo' \in IF pc = "kill" THEN {todo, todo \cup {p}} ELSE {todo}
  /\ spared' = IF pc = "open" THEN spared ELSE spared \cup {p}
  /\ disturbed' = (disturbed \/ Verified)
  /\ UNCHANGED <<releasing, nodes, encoder, flags, pc, errors, unscanned, odd, shared>>

CloseEncoder(p) ==
  /\ openers' = openers \ {p}
  /\ encoder' = IF openers = {p} THEN "clean" ELSE encoder

Quit(p) ==
  /\ p \in alive /\ alive' = alive \ {p}
  /\ owner' = IF owner = p THEN None ELSE owner
  /\ CloseEncoder(p)
  /\ disturbed' = (disturbed \/ Verified)
  /\ UNCHANGED <<releasing, starts, nodes, flags, tool, spared, unscanned, odd, shared>>

\* An unclean end may leave the queue with an owner that is gone, and the encoder
\* in a bad state.
Release(p) ==
  /\ p \in releasing /\ releasing' = releasing \ {p}
  /\ owner' \in IF owner = p THEN {None, Stale} ELSE {owner}
  /\ openers' = openers \ {p}
  /\ encoder' \in IF p \in openers THEN {"bad", "clean"} ELSE {encoder}
  /\ disturbed' = (disturbed \/ Verified)
  /\ UNCHANGED <<alive, starts, nodes, flags, tool, spared, unscanned, odd, shared>>

System == \E p \in Procs : Start(p) \/ Quit(p) \/ Release(p)

-----------------------------------------------------------------------------
(* kill_gstreamer_processes *)

Goto(from, to) == pc = from /\ pc' = to

\* The scan comes to every process there is when /proc is opened.
OpenProc ==
  /\ Goto("open", "kill")
  /\ todo' = alive
  /\ UNCHANGED <<procs, devices, flags, errors, hist>>

\* opendir fails: one error, and the tool goes on without a scan.
OpenProcFails ==
  /\ Goto("open", "diagnose")
  /\ errors' = errors + 1 /\ unscanned' = TRUE
  /\ UNCHANGED <<procs, devices, flags, todo, spared, odd, disturbed, shared>>

\* Mutant of Visit: the scan ends with the first process it kills.
VisitFirst(p) ==
  /\ pc = "kill" /\ p \in todo
  /\ IF p \in alive \cap Gst
     THEN /\ todo' = {}
          /\ alive' = alive \ {p} /\ releasing' = releasing \cup {p}
     ELSE todo' = todo \ {p} /\ UNCHANGED <<alive, releasing>>
  /\ UNCHANGED <<starts, devices, flags, pc, errors, hist>>

\* A gst-launch is killed, or it is left alone: its comm could not be read, kill(2)
\* failed, or it is a dry run.
Visit(p) ==
  /\ pc = "kill" /\ p \in todo
  /\ todo' = todo \ {p}
  /\ \/ /\ p \in alive \cap Gst /\ ~ dry_run
        /\ alive' = alive \ {p} /\ releasing' = releasing \cup {p}
        /\ UNCHANGED spared
     \/ /\ p \in alive \cap Gst
        /\ spared' = spared \cup {p}
        /\ UNCHANGED <<alive, releasing>>
     \/ p \notin alive \cap Gst /\ UNCHANGED <<alive, releasing, spared>>
  /\ UNCHANGED <<starts, devices, flags, pc, errors, unscanned, odd, disturbed, shared>>

\* Two seconds for the release handlers, which need not be enough.
EndScan ==
  /\ todo = {}
  /\ Goto("kill", "diagnose")
  /\ UNCHANGED <<procs, devices, flags, errors, todo, hist>>

-----------------------------------------------------------------------------
(* /dev/video71 *)

\* VIDIOC_REQBUFS of a second file is EBUSY while the queue has an owner.
Busy == owner # None

\* vb2_fop_release clears a stale owner if the release handler lets it come to that.
CloseQueue == owner' = IF kernelFix /\ owner = Stale THEN None ELSE owner

\* It opens, for as long as it exists, except that a busy one may refuse.
OpenFails == ~ vdin \/ Busy

\* Open, QUERYCAP, REQBUFS(0), close, on a dry run as well.
diagnose_vdin1 ==
  /\ Goto("diagnose", IF dry_run THEN "summary" ELSE IF vdin THEN "v4l2stop" ELSE "encoder")
  /\ \/ vdin /\ CloseQueue
     \/ OpenFails /\ UNCHANGED owner
  /\ UNCHANGED <<procs, nodes, openers, encoder, flags, errors, todo, hist>>

\* sysfs_write counts its errors although the caller takes them for harmless.
SendStop ==
  /\ Goto("v4l2stop", "release")
  /\ errors' \in {errors, errors + 1}
  /\ UNCHANGED <<procs, devices, flags, todo, hist>>

OpenClose ==
  /\ Goto("release", "chardev")
  /\ CloseQueue \/ (OpenFails /\ UNCHANGED owner)
  /\ UNCHANGED <<procs, nodes, openers, encoder, flags, errors, todo, hist>>

\* The release of /dev/vdin1 has a cleanup path of its own.
OpenCloseChardev ==
  /\ Goto("chardev", "verify")
  /\ owner' \in IF owner = Stale THEN {None, Stale} ELSE {owner}
  /\ UNCHANGED <<procs, nodes, openers, encoder, flags, errors, todo, hist>>

\* Mutant of Verify: a busy queue is a warning.
VerifyLeniently ==
  /\ Goto("verify", "encoder")
  /\ CloseQueue
  /\ UNCHANGED <<procs, nodes, openers, encoder, flags, errors, todo, hist>>

\* The close at the end may itself clear what was found busy.
Verify ==
  /\ Goto("verify", "encoder")
  /\ \/ ~ Busy /\ UNCHANGED <<owner, errors, odd>>
     \/ Busy /\ CloseQueue /\ errors' = errors + 1 /\ UNCHANGED odd
     \/ CloseQueue /\ odd' = TRUE /\ UNCHANGED errors
     \/ OpenFails /\ errors' = errors + 1 /\ UNCHANGED <<owner, odd>>
  /\ UNCHANGED <<procs, nodes, openers, encoder, flags, todo,
                 spared, unscanned, disturbed, shared>>

reset_vdin1 == SendStop \/ OpenClose \/ OpenCloseChardev \/ Verify

-----------------------------------------------------------------------------
(* The encoder *)

OpenEncoder ==
  /\ \/ Goto("encoder", "reset") /\ amvenc /\ openers' = openers \cup {Tool} /\ UNCHANGED errors
     \/ Goto("encoder", "summary") /\ amvenc /\ errors' = errors + 1 /\ UNCHANGED openers
     \/ Goto("encoder", "summary") /\ ~ amvenc /\ UNCHANGED <<errors, openers>>
  /\ UNCHANGED <<procs, nodes, owner, encoder, flags, todo, hist>>

\* Mutant of ResetEncoder: a rejected reset ends the call.
ResetOrLeave ==
  /\ pc = "reset"
  /\ pc' \in {"close", "summary"}
  /\ UNCHANGED <<procs, devices, flags, errors, todo, hist>>

\* VDI_IOCTL_RESET, rejected unless the tool is the only opener; its result is not
\* looked at any further.
ResetEncoder ==
  /\ Goto("reset", "close")
  /\ UNCHANGED <<procs, devices, flags, errors, todo, hist>>

\* vpu_release tears the encoder down when the last opener closes it.
FinishEncoder ==
  /\ Goto("close", "summary")
  /\ CloseEncoder(Tool)
  /\ shared' = (openers # {Tool})
  /\ UNCHANGED <<procs, nodes, owner, flags, errors, todo, spared, unscanned, odd, disturbed>>

reset_encoder == OpenEncoder \/ ResetEncoder \/ FinishEncoder

\* "Reset complete" and 0, or the number of errors, with an err() of its own, and 1.
Summary ==
  /\ Goto("summary", "done")
  /\ errors' = IF errors > 0 /\ ~ dry_run THEN errors + 1 ELSE errors
  /\ UNCHANGED <<procs, devices, flags, todo, hist>>

main ==
  \/ \E p \in Procs : Visit(p)
  \/ OpenProc \/ OpenProcFails \/ EndScan \/ diagnose_vdin1 \/ reset_vdin1 \/ reset_encoder \/ Summary

Init ==
  /\ alive \in SUBSET Procs /\ releasing \in SUBSET (Procs \ alive) /\ starts = 0
  /\ kernelFix \in BOOLEAN /\ vdin \in BOOLEAN
  /\ owner \in alive \cup releasing \cup {None, Stale}
  /\ ~ vdin => owner = None
  /\ amvenc \in BOOLEAN
  /\ openers = IF amvenc THEN alive \cup releasing ELSE {}
  /\ encoder \in {"bad", "clean"}
  /\ dry_run \in BOOLEAN /\ skip_kill \in BOOLEAN
  /\ pc = IF skip_kill THEN "diagnose" ELSE "open"
  /\ errors = 0
  /\ todo = {}
  /\ spared = {} /\ unscanned = FALSE /\ odd = FALSE /\ disturbed = FALSE /\ shared = FALSE

Next == System \/ main

\* The kernel runs release handlers in the end; the tool's calls return.
Spec == Init /\ [][Next]_vars

-----------------------------------------------------------------------------
(* Properties *)

\* Types; an open encoder is one the kernel accounts to a process.
TypeOK ==
  /\ alive \in SUBSET Procs /\ releasing \in SUBSET Procs
  /\ alive \cap releasing = {}
  /\ starts \in 0 .. MaxEvents
  /\ kernelFix \in BOOLEAN /\ vdin \in BOOLEAN /\ amvenc \in BOOLEAN
  /\ owner \in alive \cup releasing \cup {None, Stale}
  /\ openers \in SUBSET (alive \cup releasing \cup {Tool})
  /\ encoder \in {"bad", "clean"}
  /\ dry_run \in BOOLEAN /\ skip_kill \in BOOLEAN
  /\ pc \in {"open", "kill", "diagnose", "v4l2stop", "release", "chardev", "verify",
             "encoder", "reset", "close", "summary", "done"}
  /\ errors \in 0 .. 5 /\ todo \in SUBSET Procs
  /\ spared \in SUBSET Procs /\ unscanned \in BOOLEAN
  /\ odd \in BOOLEAN /\ disturbed \in BOOLEAN /\ shared \in BOOLEAN

Success == pc = "done" /\ errors = 0 /\ ~ dry_run

\* "Pipeline devices should be ready" is true of vdin1 whatever steps 1 to 3 did or
\* failed to do: its queue has no owner, unless the verification got an errno it only
\* logs, or a process came or went after it.
ReadyIsReady == Success /\ ~ odd /\ ~ disturbed => owner = None

\* Neither does it say so of an encoder it has not torn down, unless there is none or
\* somebody else had it open: then a rejected reset is not counted as an error.
EncoderIsReset ==
  Success /\ amvenc /\ ~ shared /\ ~ disturbed => encoder = "clean" /\ Tool \notin openers

\* After the scan no gst-launch process is left that was there before it, except one
\* whose name could not be read or that kill(2) did not kill, or on a dry run; and if
\* there was no scan, the tool has counted that as an error and ends with 1.
NoPipelineLeft ==
  pc \notin {"open", "kill"} /\ ~ skip_kill =>
    IF unscanned THEN errors > 0 ELSE alive \cap Gst \subseteq spared

=============================================================================
