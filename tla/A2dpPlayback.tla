---------------------------- MODULE A2dpPlayback ----------------------------
(***************************************************************************)
(* The playback calls of lib_a2dp_ctl.c: pcm_bluealsa_open, _write and     *)
(* _close share the one handle pcm_handle_playback under pcm_mtx, a plain  *)
(* (non-recursive) mutex.  They are called by application threads and, out *)
(* of the connect callback, by the D-Bus dispatch thread, which also sets  *)
(* bluealsa_running when the service comes and goes.                       *)
(*                                                                         *)
(* bluealsa_running is read without pcm_mtx, and read again inside open    *)
(* when open calls close, so every read of it is a step of its own.        *)
(***************************************************************************)
EXTENDS Integers, FiniteSets

CONSTANTS
  Threads,     \* threads that call the library
  Dispatcher,  \* the one of them that runs dbus_signal_handler
  MaxCalls,    \* bound on the calls of one thread
  MaxStops     \* bound on the service's stops

ASSUME ThreadsAssumption    == IsFiniteSet(Threads)
ASSUME DispatcherAssumption == Dispatcher \in Threads
ASSUME BoundsAssumption     == MaxCalls \in Nat /\ MaxStops \in Nat

Free   == "free"
Closed == 0         \* pcm_handle_playback == NULL

ASSUME FreeAssumption == Free \notin Threads

VARIABLES
  running,   \* bluealsa_running
  stops,     \* how often it has gone from TRUE to FALSE, at most MaxStops
  pcm_mtx,   \* the thread that holds it, or Free
  handle,    \* pcm_handle_playback, Closed or the number of an ALSA handle
  alsa,      \* ALSA handles that were opened and not closed
  opens,     \* history: number of snd_pcm_open that succeeded
  pc,        \* pc[t], where thread t is
  calls      \* calls[t], how many calls t has made

vars == <<running, stops, pcm_mtx, handle, alsa, opens, pc, calls>>

pcm == <<handle, alsa, opens>>

Goto(t, l) == pc' = [pc EXCEPT ![t] = l]

\* Mutant of Lock: no mutual exclusion.
LockAtOnce(t) == pcm_mtx' = t

Lock(t) == pcm_mtx = Free /\ pcm_mtx' = t

\* The call returns, giving up the mutex.
UnlockAndReturn(t) == pcm_mtx' = Free /\ Goto(t, "idle")

-----------------------------------------------------------------------------
(* The test `if (!bluealsa_running) return -1` that every call starts with *)

Call(t, l) ==
  /\ pc[t] = "idle" /\ calls[t] < MaxCalls
  /\ calls' = [calls EXCEPT ![t] = @ + 1]
  /\ IF running THEN Goto(t, l) ELSE UNCHANGED pc
  /\ UNCHANGED <<running, stops, pcm_mtx, pcm>>

-----------------------------------------------------------------------------
(* pcm_bluealsa_open *)

LockForOpen(t) ==
  /\ pc[t] = "open" /\ Lock(t)
  /\ Goto(t, IF handle = Closed THEN "snd_pcm_open" ELSE "reopen")
  /\ UNCHANGED <<running, stops, pcm, calls>>

\* Mutant of CloseInsideOpen: the open handle is simply overwritten.
ReopenWithoutClose(t) ==
  /\ pc[t] = "reopen"
  /\ Goto(t, "snd_pcm_open")
  /\ UNCHANGED <<running, stops, pcm_mtx, pcm, calls>>

\* A handle is there: pcm_bluealsa_close() is called with pcm_mtx held.  Unless it
\* returns early it locks pcm_mtx again, which its own caller has to release:
\* a thread at "relock" never takes another step.
CloseInsideOpen(t) ==
  /\ pc[t] = "reopen"
  /\ Goto(t, IF running THEN "relock" ELSE "snd_pcm_open")
  /\ UNCHANGED <<running, stops, pcm_mtx, pcm, calls>>

\* Mutant of OpenFails: the early return forgets the mutex.
OpenFailsLocked(t) ==
  /\ pc[t] = "snd_pcm_open"
  /\ Goto(t, "idle")
  /\ UNCHANGED <<running, stops, pcm_mtx, pcm, calls>>

OpenFails(t) ==
  /\ pc[t] = "snd_pcm_open"
  /\ UnlockAndReturn(t)
  /\ UNCHANGED <<running, stops, pcm, calls>>

\* The handle is kept whatever snd_pcm_set_params answers.
OpenPcm(t) ==
  /\ pc[t] = "snd_pcm_open"
  /\ opens' = opens + 1
  /\ handle' = opens + 1 /\ alsa' = alsa \cup {opens + 1}
  /\ UnlockAndReturn(t)
  /\ UNCHANGED <<running, stops, calls>>

pcm_bluealsa_open(t) ==
  Call(t, "open") \/ LockForOpen(t) \/ CloseInsideOpen(t)
    \/ OpenFails(t) \/ OpenPcm(t)

-----------------------------------------------------------------------------
(* pcm_bluealsa_close and pcm_bluealsa_write *)

LockForClose(t) ==
  /\ pc[t] = "close" /\ Lock(t)
  /\ Goto(t, "snd_pcm_close")
  /\ UNCHANGED <<running, stops, pcm, calls>>

ClosePcm(t) ==
  /\ pc[t] = "snd_pcm_close"
  /\ alsa' = alsa \ {handle} /\ handle' = Closed
  /\ UnlockAndReturn(t)
  /\ UNCHANGED <<running, stops, opens, calls>>

pcm_bluealsa_close(t) == Call(t, "close") \/ LockForClose(t) \/ ClosePcm(t)

LockForWrite(t) ==
  /\ pc[t] = "write" /\ Lock(t)
  /\ Goto(t, IF handle = Closed THEN "not_open" ELSE "snd_pcm_writei")
  /\ UNCHANGED <<running, stops, pcm, calls>>

\* The frames go to the handle, or the call returns at once without one.
WritePcm(t) ==
  /\ pc[t] \in {"snd_pcm_writei", "not_open"}
  /\ UnlockAndReturn(t)
  /\ UNCHANGED <<running, stops, pcm, calls>>

pcm_bluealsa_write(t) == Call(t, "write") \/ LockForWrite(t) \/ WritePcm(t)

-----------------------------------------------------------------------------

(* NameOwnerChanged, on the dispatch thread when it is not inside a callback *)

ServiceStops ==
  /\ pc[Dispatcher] = "idle" /\ stops < MaxStops
  /\ running /\ running' = FALSE
  /\ stops' = stops + 1
  /\ UNCHANGED <<pcm_mtx, pcm, pc, calls>>

ServiceStarts ==
  /\ pc[Dispatcher] = "idle"
  /\ ~ running /\ running' = TRUE
  /\ UNCHANGED <<stops, pcm_mtx, pcm, pc, calls>>

Init ==
  /\ running \in BOOLEAN /\ stops = 0
  /\ pcm_mtx = Free /\ handle = Closed /\ alsa = {} /\ opens = 0
  /\ pc = [t \in Threads |-> "idle"] /\ calls = [t \in Threads |-> 0]

Thread(t) ==
  pcm_bluealsa_open(t) \/ pcm_bluealsa_close(t) \/ pcm_bluealsa_write(t)

Next == ServiceStops \/ ServiceStarts \/ \E t \in Threads : Thread(t)

Spec == Init /\ [][Next]_vars

\* A thread inside a call keeps running: no ALSA call blocks, the handle is
\* opened SND_PCM_NONBLOCK.  Making a call, and the service, owe nothing.
FairSpec == Spec /\ \A t \in Threads : WF_vars(pc[t] # "idle" /\ Thread(t))

-----------------------------------------------------------------------------
(* Properties *)

Labels == {"idle", "open", "reopen", "relock", "snd_pcm_open", "close",
           "snd_pcm_close", "write", "snd_pcm_writei", "not_open"}

TypeOK ==
  /\ running \in BOOLEAN /\ stops \in 0 .. MaxStops
  /\ pcm_mtx \in Threads \cup {Free}
  /\ handle \in Nat /\ opens \in Nat /\ alsa \subseteq 1 .. opens
  /\ pc \in [Threads -> Labels] /\ calls \in [Threads -> 0 .. MaxCalls]

Inside(t) == pc[t] \in {"reopen", "relock", "snd_pcm_open", "snd_pcm_close",
                        "snd_pcm_writei", "not_open"}

\* pcm_bluealsa_write sends frames only to a handle that ALSA has open: neither a
\* close nor a reopen by another thread gets between its NULL test and the write.
WritesReachOpenHandle ==
  \A t \in Threads : pc[t] = "snd_pcm_writei" => handle \in alsa

\* The handles that are still open in ALSA although nothing can close them any more.
Leaked == alsa \ {handle}

\* A handle leaks only when the service stops between the two reads of
\* bluealsa_running in a reopen, hence for one stop at most once per thread other
\* than the one that handles the stop; with the service up nothing leaks.
LeaksAreBounded == Cardinality(Leaked) <= stops * (Cardinality(Threads) - 1)

\* Every call returns as long as no open finds the device open.
CallsReturn ==
  [](\A t \in Threads : pc[t] # "relock")
    => \A t \in Threads : pc[t] # "idle" ~> pc[t] = "idle"

\* What open announces when it finds a handle, "close before reopen": the inner
\* close gets the mutex, it does not wait for its own caller.
ReopenCloses == \A t \in Threads : pc[t] = "relock" => pcm_mtx # t
=============================================================================
