------------------------ MODULE A2dpPlayback_proofs ------------------------
(***************************************************************************)
(* Theorems about A2dpPlayback: for any number of threads, calls and       *)
(* service stops, pcm_mtx keeps pcm_bluealsa_close and the reopen away     *)
(* from a pcm_bluealsa_write that has found the device open, and a stop    *)
(* lets at most every other thread leak one handle.  The only deadlock is  *)
(* that of a reopen, which holds pcm_mtx for ever; all others give it back.*)
(***************************************************************************)
EXTENDS A2dpPlayback, FiniteSetTheorems, TLAPS

\* pcm_mtx is held by the thread that is inside a critical section, and by no other.
MutexHeld == \A t \in Threads : Inside(t) <=> pcm_mtx = t

\* pcm_handle_playback is NULL or a handle ALSA has open.
HandleIsOpen == handle # Closed => handle \in alsa

\* The result of a NULL test under pcm_mtx stays true until the unlock.
TestStands ==
  \A t \in Threads : pc[t] \in {"snd_pcm_writei", "reopen"} => handle # Closed

IInv == TypeOK /\ MutexHeld /\ HandleIsOpen /\ TestStands

\* Type correctness is kept by every step.
LEMMA TypeStep == ASSUME TypeOK, [Next]_vars PROVE TypeOK'
<1> USE BoundsAssumption DEF TypeOK, Labels, Closed, Free, pcm
<1>1. CASE ServiceStops
  <2>1. stops' \in 0 .. MaxStops
    <3>1. stops \in 0 .. MaxStops /\ stops < MaxStops /\ stops' = stops + 1
      BY <1>1 DEF ServiceStops
    <3> HIDE DEF TypeOK
    <3> QED
      BY <3>1
  <2>2. running' = FALSE /\ UNCHANGED <<pcm_mtx, pcm, pc, calls>>
    BY <1>1 DEF ServiceStops
  <2> QED
    BY <2>1, <2>2
<1>2. CASE ServiceStarts
  BY <1>2 DEF ServiceStarts
<1>3. ASSUME NEW t \in Threads, NEW l \in {"open", "close", "write"}, Call(t, l)
      PROVE  TypeOK'
  BY <1>3 DEF Call, Goto
<1>4. ASSUME NEW t \in Threads, LockForOpen(t) \/ LockForClose(t) \/ LockForWrite(t)
      PROVE  TypeOK'
  BY <1>4 DEF LockForOpen, LockForClose, LockForWrite, Lock, Goto
<1>5. ASSUME NEW t \in Threads, CloseInsideOpen(t) \/ OpenFails(t) \/ WritePcm(t)
      PROVE  TypeOK'
  BY <1>5 DEF CloseInsideOpen, OpenFails, WritePcm, UnlockAndReturn, Goto
<1>6. ASSUME NEW t \in Threads, OpenPcm(t)
      PROVE  TypeOK'
  BY <1>6 DEF OpenPcm, UnlockAndReturn, Goto
<1>7. ASSUME NEW t \in Threads, ClosePcm(t)
      PROVE  TypeOK'
  BY <1>7 DEF ClosePcm, UnlockAndReturn, Goto
<1>8. CASE UNCHANGED vars
  BY <1>8 DEF vars
<1> QED
  BY <1>1, <1>2, <1>3, <1>4, <1>5, <1>6, <1>7, <1>8
     DEF Next, Thread, pcm_bluealsa_open, pcm_bluealsa_close, pcm_bluealsa_write

\* The invariant is inductive.
LEMMA Inductive == ASSUME IInv, [Next]_vars PROVE IInv'
<1> USE DEF IInv, Inside, MutexHeld, HandleIsOpen, TestStands
<1>t. TypeOK'
  BY TypeStep
<1> USE BoundsAssumption, FreeAssumption DEF TypeOK, Closed, pcm
<1>1. CASE ServiceStops
  BY <1>t, <1>1 DEF ServiceStops
<1>2. CASE ServiceStarts
  BY <1>t, <1>2 DEF ServiceStarts
<1>3. ASSUME NEW t \in Threads, NEW l \in {"open", "close", "write"}, Call(t, l)
      PROVE  IInv'
  BY <1>t, <1>3 DEF Call, Goto
<1>4. ASSUME NEW t \in Threads, LockForOpen(t) \/ LockForClose(t) \/ LockForWrite(t)
      PROVE  IInv'
  \* nobody is inside while pcm_mtx is free
  BY <1>t, <1>4 DEF LockForOpen, LockForClose, LockForWrite, Lock, Goto
<1>5. ASSUME NEW t \in Threads, CloseInsideOpen(t) \/ OpenFails(t) \/ WritePcm(t)
      PROVE  IInv'
  BY <1>t, <1>5 DEF CloseInsideOpen, OpenFails, WritePcm, UnlockAndReturn, Goto
<1>6. ASSUME NEW t \in Threads, OpenPcm(t)
      PROVE  IInv'
  BY <1>t, <1>6 DEF OpenPcm, UnlockAndReturn, Goto
<1>7. ASSUME NEW t \in Threads, ClosePcm(t)
      PROVE  IInv'
  \* the closing thread holds pcm_mtx, so no other one stands after its test
  BY <1>t, <1>7 DEF ClosePcm, UnlockAndReturn, Goto
<1>8. CASE UNCHANGED vars
  BY <1>t, <1>8 DEF vars
<1> QED
  BY <1>1, <1>2, <1>3, <1>4, <1>5, <1>6, <1>7, <1>8
     DEF Next, Thread, pcm_bluealsa_open, pcm_bluealsa_close, pcm_bluealsa_write

LEMMA InitIInv == Init => IInv
  BY BoundsAssumption, FreeAssumption
     DEF Init, IInv, TypeOK, Labels, Closed, Inside, MutexHeld, HandleIsOpen, TestStands

LEMMA Invariance == Spec => []IInv
<1>1. Init => IInv
  BY InitIInv
<1>2. IInv /\ [Next]_vars => IInv'
  BY Inductive
<1> QED
  BY <1>1, <1>2, PTL DEF Spec

\* The playback state keeps its type whatever the threads do.
THEOREM PlaybackTypeCorrect == Spec => []TypeOK
<1>1. IInv => TypeOK
  BY DEF IInv
<1> QED
  BY <1>1, Invariance, PTL

\* pcm_bluealsa_write, however many threads open, close and write, sends frames
\* only to a handle that ALSA has open.
THEOREM WritesAreSafe == Spec => []WritesReachOpenHandle
<1>1. IInv => WritesReachOpenHandle
  BY DEF IInv, HandleIsOpen, TestStands, WritesReachOpenHandle
<1> QED
  BY <1>1, Invariance, PTL

-----------------------------------------------------------------------------
(* Leaked handles *)

\* The threads that may still leak a handle although no further stop happens: they
\* passed the first test of bluealsa_running before the stop, or have already
\* skipped the close and hold the open handle.
AtRisk ==
  {t \in Threads : \/ pc[t] = "snd_pcm_open" /\ handle # Closed
                   \/ ~ running /\ pc[t] \in {"open", "reopen"}}

\* What has leaked and what still may, for every stop at most one handle per thread
\* other than the dispatcher.
LeaksAccounted ==
  Cardinality(Leaked) + Cardinality(AtRisk) <= stops * (Cardinality(Threads) - 1)

LEMMA Finite ==
  ASSUME TypeOK
  PROVE  /\ IsFiniteSet(Leaked) /\ Cardinality(Leaked) \in Nat
         /\ IsFiniteSet(AtRisk) /\ Cardinality(AtRisk) \in Nat
<1>1. IsFiniteSet(1 .. opens)
  BY FS_Interval DEF TypeOK
<1>2. Leaked \in SUBSET (1 .. opens)
  BY DEF Leaked, TypeOK
<1>3. AtRisk \in SUBSET Threads
  BY DEF AtRisk
<1> QED
  BY <1>1, <1>2, <1>3, ThreadsAssumption, FS_Subset, FS_CardinalityType

\* A step other than a stop leaks nothing and puts nobody at risk, except that a
\* thread at risk may leak the handle and be at risk no longer.
LEMMA NoStopStep ==
  ASSUME IInv, [Next]_vars, ~ ServiceStops
  PROVE  /\ stops' = stops
         /\ \/ Leaked' = Leaked /\ AtRisk' \subseteq AtRisk
            \/ \E t \in AtRisk : Leaked' = Leaked \cup {handle} /\ AtRisk' \subseteq AtRisk \ {t}
<1> USE DEF IInv, MutexHeld, Inside, HandleIsOpen, TestStands, TypeOK, Closed, pcm
<1>1. CASE ServiceStarts
  BY <1>1 DEF ServiceStarts, Leaked, AtRisk
<1>2. ASSUME NEW t \in Threads, NEW l \in {"open", "close", "write"}, Call(t, l)
      PROVE  stops' = stops /\ Leaked' = Leaked /\ AtRisk' \subseteq AtRisk
  BY <1>2 DEF Call, Goto, Leaked, AtRisk
<1>3. ASSUME NEW t \in Threads, LockForOpen(t) \/ LockForClose(t) \/ LockForWrite(t)
      PROVE  stops' = stops /\ Leaked' = Leaked /\ AtRisk' \subseteq AtRisk
  BY <1>3 DEF LockForOpen, LockForClose, LockForWrite, Lock, Goto, Leaked, AtRisk
<1>4. ASSUME NEW t \in Threads, CloseInsideOpen(t) \/ OpenFails(t) \/ WritePcm(t)
      PROVE  stops' = stops /\ Leaked' = Leaked /\ AtRisk' \subseteq AtRisk
  BY <1>4 DEF CloseInsideOpen, OpenFails, WritePcm, UnlockAndReturn, Goto, Leaked, AtRisk
<1>5. ASSUME NEW t \in Threads, OpenPcm(t)
      PROVE  /\ stops' = stops
             /\ \/ Leaked' = Leaked /\ AtRisk' \subseteq AtRisk
                \/ t \in AtRisk /\ Leaked' = Leaked \cup {handle}
                     /\ AtRisk' \subseteq AtRisk \ {t}
  <2>1. /\ pc[t] = "snd_pcm_open" /\ pc' = [pc EXCEPT ![t] = "idle"]
        /\ handle' = opens + 1 /\ alsa' = alsa \cup {opens + 1} /\ opens + 1 \notin alsa
        /\ stops' = stops /\ running' = running
    BY <1>5 DEF OpenPcm, UnlockAndReturn, Goto
  <2>2. \A u \in Threads : u # t => pc[u] # "snd_pcm_open"
    BY <2>1
  <2>3. AtRisk' \subseteq AtRisk \ {t}
    BY <2>1, <2>2 DEF AtRisk
  <2>4. Leaked' = alsa
    BY <2>1 DEF Leaked
  <2>5. CASE handle = Closed
    BY <2>1, <2>3, <2>4, <2>5 DEF Leaked
  <2>6. CASE handle # Closed
    BY <2>1, <2>3, <2>4, <2>6 DEF Leaked, AtRisk
  <2> QED
    BY <2>5, <2>6
<1>6. ASSUME NEW t \in Threads, ClosePcm(t)
      PROVE  stops' = stops /\ Leaked' = Leaked /\ AtRisk' \subseteq AtRisk
  BY <1>6 DEF ClosePcm, UnlockAndReturn, Goto, Leaked, AtRisk
<1>7. CASE UNCHANGED vars
  BY <1>7 DEF vars, Leaked, AtRisk
<1> QED
  BY <1>1, <1>2, <1>3, <1>4, <1>5, <1>6, <1>7
     DEF Next, Thread, pcm_bluealsa_open, pcm_bluealsa_close, pcm_bluealsa_write

LEMMA LeakStep == ASSUME IInv, LeaksAccounted, [Next]_vars PROVE LeaksAccounted'
<1> DEFINE others == Cardinality(Threads) - 1
<1>1. IsFiniteSet(Threads) /\ Cardinality(Threads) \in Nat
  BY ThreadsAssumption, FS_CardinalityType
<1>2. Cardinality(Threads \ {Dispatcher}) = others /\ IsFiniteSet(Threads \ {Dispatcher})
  BY <1>1, DispatcherAssumption, FS_RemoveElement
<1>3. others \in Nat
  BY <1>2, FS_CardinalityType
<1>4. /\ IsFiniteSet(Leaked) /\ Cardinality(Leaked) \in Nat
      /\ IsFiniteSet(AtRisk) /\ Cardinality(AtRisk) \in Nat
      /\ stops \in Nat
  BY Finite DEF IInv, TypeOK
<1>5. Cardinality(Leaked) + Cardinality(AtRisk) <= stops * others
  BY DEF LeaksAccounted
<1> HIDE DEF others
<1>6. SUFFICES Cardinality(Leaked') + Cardinality(AtRisk') <= stops' * others
  BY DEF LeaksAccounted, others
<1>7. CASE ServiceStops
  <2>1. stops' = stops + 1 /\ Leaked' = Leaked
    BY <1>7 DEF ServiceStops, pcm, Leaked
  <2>2. AtRisk' \subseteq Threads \ {Dispatcher}
    BY <1>7 DEF ServiceStops, pcm, AtRisk
  <2>3. Cardinality(AtRisk') <= others /\ Cardinality(AtRisk') \in Nat
    BY <1>2, <2>2, FS_Subset, FS_CardinalityType
  <2>4. (stops + 1) * others = stops * others + others
    BY <1>3, <1>4
  <2>5. stops * others \in Nat
    BY <1>3, <1>4
  <2> QED
    BY <1>3, <1>4, <1>5, <2>1, <2>3, <2>4, <2>5
<1>8. CASE ~ ServiceStops
  <2>1. stops' = stops
    BY <1>8, NoStopStep
  <2>2. stops * others \in Nat
    BY <1>3, <1>4
  <2>3. CASE Leaked' = Leaked /\ AtRisk' \subseteq AtRisk
    <3>1. Cardinality(AtRisk') <= Cardinality(AtRisk) /\ Cardinality(AtRisk') \in Nat
      BY <1>4, <2>3, FS_Subset, FS_CardinalityType
    <3> QED
      BY <1>4, <1>5, <2>1, <2>2, <2>3, <3>1
  <2>4. ASSUME NEW t \in AtRisk, Leaked' = Leaked \cup {handle}, AtRisk' \subseteq AtRisk \ {t}
        PROVE  Cardinality(Leaked') + Cardinality(AtRisk') <= stops' * others
    <3>1. IsFiniteSet(AtRisk \ {t}) /\ Cardinality(AtRisk \ {t}) = Cardinality(AtRisk) - 1
      BY <1>4, FS_RemoveElement
    <3>2. /\ Cardinality(AtRisk') <= Cardinality(AtRisk) - 1
          /\ Cardinality(AtRisk') \in Nat
      BY <2>4, <3>1, FS_Subset, FS_CardinalityType
    <3>3. /\ Cardinality(Leaked \cup {handle}) <= Cardinality(Leaked) + 1
          /\ Cardinality(Leaked \cup {handle}) \in Nat
      <4>1. /\ IsFiniteSet(Leaked \cup {handle})
            /\ Cardinality(Leaked \cup {handle})
                 = IF handle \in Leaked THEN Cardinality(Leaked) ELSE Cardinality(Leaked) + 1
        BY <1>4, FS_AddElement
      <4> QED
        BY <1>4, <4>1
    <3> QED
      BY <1>4, <1>5, <2>1, <2>2, <2>4, <3>2, <3>3
  <2> QED
    BY <1>8, <2>3, <2>4, NoStopStep
<1> QED
  BY <1>7, <1>8

LEMMA InitLeaks == Init => LeaksAccounted
<1> SUFFICES ASSUME Init PROVE LeaksAccounted
  OBVIOUS
<1>1. Leaked = {} /\ AtRisk = {} /\ stops = 0
  BY DEF Init, Leaked, AtRisk
<1>2. Cardinality(Threads) \in Nat
  BY ThreadsAssumption, FS_CardinalityType
<1> QED
  BY <1>1, <1>2, FS_EmptySet DEF LeaksAccounted

\* A handle is lost only when the service stops between the two reads of
\* bluealsa_running in a reopen: for every stop at most one per thread other than
\* the dispatcher, and none while the service has never stopped.
THEOREM LeaksNeedStops == Spec => []LeaksAreBounded
<1>1. IInv /\ LeaksAccounted => LeaksAreBounded
  <2> SUFFICES ASSUME IInv, LeaksAccounted PROVE LeaksAreBounded
    OBVIOUS
  <2>1. /\ Cardinality(Leaked) \in Nat /\ Cardinality(AtRisk) \in Nat /\ stops \in Nat
        /\ Cardinality(Threads) \in Nat
    BY Finite, ThreadsAssumption, FS_CardinalityType DEF IInv, TypeOK
  <2>2. stops * (Cardinality(Threads) - 1) \in Int
    BY <2>1
  <2> QED
    BY <2>1, <2>2 DEF LeaksAccounted, LeaksAreBounded
<1>2. IInv /\ LeaksAccounted /\ [Next]_vars => LeaksAccounted'
  BY LeakStep
<1> QED
  BY <1>1, <1>2, InitLeaks, Invariance, PTL DEF Spec

-----------------------------------------------------------------------------
(* Who waits for whom *)

Stuck(t)   == pc[t] = "relock"
Waiting(t) == pc[t] \in {"open", "close", "write"}

\* A thread inside a critical section goes on unless it waits for pcm_mtx a second
\* time; one in front of it goes on when pcm_mtx is free.
ThreadWayOn(t) == (Inside(t) /\ ~ Stuck(t)) \/ (Waiting(t) /\ pcm_mtx = Free)

\* Every action of a thread is a guard and assignments to all the variables, so that
\* where a guard is true there is a step.
GuardsSuffice ==
  \A t \in Threads : ThreadWayOn(t) => ENABLED <<pc[t] # "idle" /\ Thread(t)>>_vars

\* A thread in a call that cannot go on waits for another, and that one can, unless
\* it, or the thread itself, is in a reopen that has called close: there is no
\* deadlock but the one of CloseInsideOpen.
WaitsAreShort ==
  \A t \in Threads : pc[t] # "idle" =>
    \/ ThreadWayOn(t) \/ Stuck(t)
    \/ \E u \in Threads \ {t} : pcm_mtx = u /\ (ThreadWayOn(u) \/ Stuck(u))

THEOREM OnlyReopenDeadlocks == Spec => []WaitsAreShort
<1>1. IInv => WaitsAreShort
  <2> SUFFICES ASSUME IInv, NEW t \in Threads, pc[t] # "idle", ~ ThreadWayOn(t), ~ Stuck(t)
               PROVE  \E u \in Threads \ {t} : pcm_mtx = u /\ (ThreadWayOn(u) \/ Stuck(u))
    BY DEF WaitsAreShort
  <2>1. ~ Inside(t) /\ Waiting(t) /\ pcm_mtx # Free
    BY DEF ThreadWayOn, Stuck, Waiting, Inside, IInv, TypeOK, Labels
  <2>2. pcm_mtx \in Threads /\ pcm_mtx # t /\ Inside(pcm_mtx)
    BY <2>1 DEF IInv, TypeOK, MutexHeld
  <2> QED
    BY <2>2 DEF ThreadWayOn
<1> QED
  BY <1>1, Invariance, PTL

\* Only the thread that holds pcm_mtx gives it up, and one at "relock" never does.
LEMMA HolderKeeps ==
  ASSUME IInv, [Next]_vars, NEW t \in Threads, pcm_mtx = t, pcm_mtx' # t
  PROVE  /\ Thread(t) /\ pcm_mtx' = Free
         /\ pc[t] \notin {"reopen", "relock"}
<1> USE DEF IInv, MutexHeld, Inside, TypeOK
<1> USE FreeAssumption
<1>1. ~ ServiceStops /\ ~ ServiceStarts /\ vars' # vars
  BY DEF ServiceStops, ServiceStarts, vars
<1>2. PICK u \in Threads : Thread(u)
  BY <1>1 DEF Next
<1>3. OpenFails(u) \/ OpenPcm(u) \/ ClosePcm(u) \/ WritePcm(u)
  BY <1>2 DEF Thread, pcm_bluealsa_open, pcm_bluealsa_close, pcm_bluealsa_write, Call, Lock,
     LockForOpen, LockForClose, LockForWrite, CloseInsideOpen
<1>4. pc[u] \in {"snd_pcm_open", "snd_pcm_close", "snd_pcm_writei", "not_open"}
      /\ pcm_mtx' = Free
  BY <1>3 DEF OpenFails, OpenPcm, ClosePcm, WritePcm, UnlockAndReturn
<1>5. u = t
  BY <1>4
<1> QED
  BY <1>2, <1>4, <1>5

\* While it holds pcm_mtx a thread moves at most from the reopen to the open, or gets stuck.
LEMMA HolderMoves ==
  ASSUME IInv, [Next]_vars, NEW t \in Threads, pcm_mtx = t, pcm_mtx' = t
  PROVE  /\ Stuck(t) => pc'[t] = "relock"
         /\ pc[t] # "reopen" => pc'[t] # "reopen"
         /\ Thread(t) => pc[t] = "reopen" /\ pc'[t] # "reopen"
<1> USE DEF IInv, MutexHeld, Inside, TypeOK, Stuck
<1>1. Inside(t) /\ pcm_mtx # Free
  BY FreeAssumption
<1>2. CASE Thread(t)
  <2>1. CloseInsideOpen(t)
    BY <1>1, <1>2, FreeAssumption DEF Thread, pcm_bluealsa_open, pcm_bluealsa_close,
       pcm_bluealsa_write, Call, Lock, LockForOpen, LockForClose, LockForWrite,
       OpenFails, OpenPcm, ClosePcm, WritePcm, UnlockAndReturn
  <2> QED
    BY <2>1 DEF CloseInsideOpen, Goto
<1>3. CASE ~ Thread(t)
  <2>1. CASE ServiceStops \/ ServiceStarts \/ UNCHANGED vars
    BY <1>3, <2>1 DEF ServiceStops, ServiceStarts, vars
  <2>2. ASSUME NEW u \in Threads \ {t}, Thread(u) PROVE pc'[t] = pc[t]
    BY <2>2 DEF Thread, pcm_bluealsa_open, pcm_bluealsa_close, pcm_bluealsa_write, Call,
       LockForOpen, LockForClose, LockForWrite, CloseInsideOpen, OpenFails, OpenPcm,
       ClosePcm, WritePcm, UnlockAndReturn, Goto
  <2> QED
    BY <1>3, <2>1, <2>2 DEF Next
<1> QED
  BY <1>2, <1>3

\* A pcm_bluealsa_open that finds the device open with the service up holds pcm_mtx
\* from then on for ever: no later call of any thread gets it.
THEOREM ReopenBlocksPlayback ==
  Spec => \A t \in Threads : [](Stuck(t) => [](Stuck(t) /\ pcm_mtx = t))
<1> SUFFICES ASSUME NEW t \in Threads
             PROVE  Spec => [](Stuck(t) => [](Stuck(t) /\ pcm_mtx = t))
  OBVIOUS
<1>1. IInv /\ Stuck(t) => pcm_mtx = t
  BY DEF IInv, MutexHeld, Inside, Stuck
<1>2. IInv /\ Stuck(t) /\ [Next]_vars => Stuck(t)'
  BY <1>1, HolderKeeps, HolderMoves DEF Stuck
<1> QED
  BY <1>1, <1>2, Invariance, PTL DEF Spec

\* As long as no open finds the device open, every critical section ends.  Of the
\* fairness of FairSpec this takes that of the thread that holds pcm_mtx and no other.
THEOREM MutexIsGivenBack ==
  ASSUME NEW t \in Threads
  PROVE  /\ Spec /\ WF_vars(pc[t] # "idle" /\ Thread(t))
         /\ []GuardsSuffice /\ [](pc[t] # "relock")
         => (pcm_mtx = t ~> pcm_mtx = Free)
<1> DEFINE Acts == <<pc[t] # "idle" /\ Thread(t)>>_vars
<1>1. IInv /\ pcm_mtx = t /\ [Next]_vars
        => (pcm_mtx = Free)' \/ ((pcm_mtx = t)' /\ (~ (pc[t] = "reopen") => ~ (pc[t] = "reopen")'))
  BY HolderKeeps, HolderMoves
<1>2. IInv /\ pcm_mtx = t /\ pc[t] = "reopen" /\ [Next]_vars /\ Acts => ~ (pc[t] = "reopen")'
  BY HolderKeeps, HolderMoves
<1>3. IInv /\ pcm_mtx = t /\ ~ (pc[t] = "reopen") /\ [Next]_vars /\ Acts => (pcm_mtx = Free)'
  BY HolderKeeps, HolderMoves
<1>4. IInv /\ pc[t] # "relock" /\ GuardsSuffice /\ pcm_mtx = t => ENABLED Acts
  BY DEF IInv, MutexHeld, GuardsSuffice, ThreadWayOn, Stuck
<1> QED
  BY <1>1, <1>2, <1>3, <1>4, Invariance, PTL DEF Spec
=============================================================================
