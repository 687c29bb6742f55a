--------------------------- MODULE A2dpCtl_proofs ---------------------------
(***************************************************************************)
(* Theorems about A2dpCtl: for any set of paths, any initial table size    *)
(* and any number of changes, the table keeps its type and no device that  *)
(* BlueALSA exports is missing from it once the queued signals are         *)
(* handled.                                                                *)
(***************************************************************************)
EXTENDS A2dpCtl, FiniteSetTheorems, SequenceTheorems, TLAPS

-----------------------------------------------------------------------------
(* Type correctness *)

Handed == {s \in Signals : s.kind \in {"added", "removed"}} \cup {NoSig}

LEMMA BlankType == ASSUME NEW flag \in BOOLEAN PROVE Blank(flag) \in Slots
  BY VolumeAssumption DEF Blank, Slots

LEMMA EntryType ==
  ASSUME NEW pcm, pcm.pcm_path \in Paths, pcm.vol \in Volumes
  PROVE  Entry(pcm) \in Slots
  BY DEF Entry, Slots

LEMMA StrayType ==
  ASSUME NEW s \in Stray, NEW flag \in BOOLEAN
  PROVE  StrayFlag(s, flag) \in BOOLEAN
  BY StrayAssumption DEF StrayFlag

\* A signal about a PCM carries its path and its property.
LEMMA PcmSignal ==
  ASSUME NEW s \in Signals, s.kind \in {"added", "removed", "props"}
  PROVE  s.pcm_path \in Paths /\ s.vol \in Volumes
  BY DEF Signals

\* add_pcm leaves a table of the size it claims.
LEMMA AddPcmType ==
  ASSUME TypeOK, NEW pcm, pcm.pcm_path \in Paths, pcm.vol \in Volumes, AddPcm(pcm)
  PROVE  /\ max_alloc_num' \in Nat
         /\ pcms' \in [Indices' -> Slots]
         /\ lost' \in SUBSET Paths /\ smashed' \in BOOLEAN /\ mtxHeld' \in BOOLEAN
<1>1. ASSUME NEW s \in Stray, UseFreeSlot(pcm, s)
      PROVE  max_alloc_num' \in Nat /\ pcms' \in [Indices' -> Slots] /\ smashed' \in BOOLEAN
  <2>1. PICK idx \in Indices :
          /\ pcms' = [j \in Indices |->
                 CASE j = idx     -> Entry(pcm)
                   [] j = idx + 1 -> [pcms[j] EXCEPT !.connect_flag = StrayFlag(s, @)]
                   [] OTHER       -> pcms[j]]
          /\ smashed' = (smashed \/ (idx + 1 \in Indices
                     /\ pcms'[idx + 1].connect_flag # pcms[idx + 1].connect_flag))
          /\ UNCHANGED max_alloc_num
    BY <1>1 DEF UseFreeSlot, PutAt
  <2>2. \A j \in Indices : [pcms[j] EXCEPT !.connect_flag = StrayFlag(s, @)] \in Slots
    <3> TAKE j \in Indices
    <3>1. pcms[j] \in Slots
      BY DEF TypeOK
    <3>2. StrayFlag(s, pcms[j].connect_flag) \in BOOLEAN
      BY <3>1, StrayType DEF Slots
    <3> QED
      BY <3>1, <3>2 DEF Slots
  <2>3. pcms' \in [Indices -> Slots]
    <3>1. \A j \in Indices : pcms[j] \in Slots
      BY DEF TypeOK
    <3> QED
      BY <2>1, <2>2, <3>1, EntryType
  <2>4. Indices' = Indices /\ max_alloc_num' \in Nat
    BY <2>1 DEF Indices, TypeOK
  <2>5. smashed' \in BOOLEAN
    BY <2>1 DEF TypeOK
  <2> QED
    BY <2>3, <2>4, <2>5
<1>2. ASSUME NEW s \in Stray, GrowTable(pcm, s)
      PROVE  max_alloc_num' \in Nat /\ pcms' \in [Indices' -> Slots] /\ smashed' \in BOOLEAN
  <2>1. max_alloc_num \in Nat /\ max_alloc_num' = max_alloc_num + 2
    BY <1>2 DEF GrowTable, TypeOK
  <2>2. Indices' = 0 .. max_alloc_num + 1
    BY <2>1 DEF Indices
  <2>3. \A j \in 0 .. max_alloc_num + 1 : j < max_alloc_num => pcms[j] \in Slots
    BY <2>1 DEF TypeOK, Indices
  <2>4. Blank(StrayFlag(s, FALSE)) \in Slots
    BY StrayType, BlankType
  <2>5. pcms' \in [0 .. max_alloc_num + 1 -> Slots]
    BY <1>2, <2>3, <2>4, EntryType DEF GrowTable
  <2>6. smashed' \in BOOLEAN
    BY <1>2 DEF GrowTable, TypeOK
  <2> QED
    BY <2>1, <2>2, <2>5, <2>6
<1>3. ASSUME GrowFails(pcm)
      PROVE  /\ max_alloc_num' \in Nat /\ pcms' \in [Indices' -> Slots]
             /\ lost' \in SUBSET Paths /\ smashed' \in BOOLEAN /\ mtxHeld' \in BOOLEAN
  BY <1>3 DEF GrowFails, TypeOK, tbl, Indices
<1>4. lost \ {pcm.pcm_path} \in SUBSET Paths /\ mtxHeld \in BOOLEAN
  BY DEF TypeOK
<1> QED
  BY <1>1, <1>2, <1>3, <1>4 DEF AddPcm

\* BlueALSA's steps touch what it exports, the queue and the history.
LEMMA EnvType ==
  ASSUME TypeOK, BlueAlsa
  PROVE  TypeOK'
<1> USE DEF TypeOK
<1>e. Change => events' \in 0 .. MaxEvents
  BY EventsAssumption DEF Change
<1>u. LibraryUnchanged =>
        /\ phase' = phase /\ matched' = matched /\ snap' = snap /\ running' = running
        /\ max_alloc_num' = max_alloc_num /\ pcms' = pcms /\ Indices' = Indices
        /\ mtxHeld' = mtxHeld /\ awake' = awake /\ hand' = hand
  BY DEF LibraryUnchanged, boot, tbl, Indices
<1>b. ASSUME NEW sig \in Signals, Emit(sig)
      PROVE  bus' \in Seq(Signals) /\ unread' \in 0 .. Len(bus')
  <2>1. Append(bus, sig) \in Seq(Signals) /\ Len(Append(bus, sig)) = Len(bus) + 1
    OBVIOUS
  <2>2. Len(bus) \in Nat
    OBVIOUS
  <2> QED
    BY <1>b, <2>1, <2>2 DEF Emit
<1>s. \A k \in {"added", "removed", "props"} : \A p \in Paths : \A v \in Volumes :
        [kind |-> k, pcm_path |-> p, vol |-> v] \in Signals
  BY DEF Signals
<1>t. \A k \in {"start", "stop"} : [kind |-> k] \in Signals
  BY DEF Signals
<1>v. \A p \in Paths : volume[p] \in Volumes
  OBVIOUS
<1>1. ASSUME NEW p \in Paths, Export(p) PROVE TypeOK'
  <2>1. bus' \in Seq(Signals) /\ unread' \in 0 .. Len(bus')
    BY <1>1, <1>b, <1>s, <1>v DEF Export
  <2> QED
    BY <1>1, <1>e, <1>u, <2>1 DEF Export, hist
<1>2. ASSUME NEW p \in Paths, Withdraw(p) PROVE TypeOK'
  <2>1. bus' \in Seq(Signals) /\ unread' \in 0 .. Len(bus')
    BY <1>2, <1>b, <1>s, <1>v DEF Withdraw
  <2>2. missed' \in SUBSET Paths
    BY <1>2 DEF Withdraw
  <2> QED
    BY <1>2, <1>e, <1>u, <2>1, <2>2 DEF Withdraw
<1>3. ASSUME NEW p \in Paths, NEW v \in Volumes, SetVolume(p, v) PROVE TypeOK'
  <2>1. bus' \in Seq(Signals) /\ unread' \in 0 .. Len(bus')
    BY <1>3, <1>b, <1>s DEF SetVolume
  <2> QED
    BY <1>3, <1>e, <1>u, <2>1 DEF SetVolume, hist
<1>4. CASE StopService
  <2>1. bus' \in Seq(Signals) /\ unread' \in 0 .. Len(bus')
    BY <1>4, <1>b, <1>t DEF StopService
  <2>2. stopped' \in BOOLEAN /\ missed' \in SUBSET Paths /\ missedStart' \in BOOLEAN
    BY <1>4 DEF StopService
  <2> QED
    BY <1>4, <1>e, <1>u, <2>1, <2>2 DEF StopService
<1>5. CASE StartService
  <2>1. bus' \in Seq(Signals) /\ unread' \in 0 .. Len(bus')
    BY <1>5, <1>b, <1>t DEF StartService
  <2>2. missedStart' \in BOOLEAN
    BY <1>5 DEF StartService
  <2> QED
    BY <1>5, <1>e, <1>u, <2>1, <2>2 DEF StartService
<1> QED
  BY <1>1, <1>2, <1>3, <1>4, <1>5 DEF BlueAlsa

\* The list of PCMs is a sequence whatever its order.
LEMMA SnapshotType ==
  ASSUME TypeOK, NEW s \in SetToSeqs(exported)
  PROVE  /\ [i \in DOMAIN s |-> [pcm_path |-> s[i], vol |-> volume[s[i]]]] \in Seq(Pcm)
         /\ \A i \in DOMAIN s : s[i] \in Paths
<1> DEFINE n == Cardinality(exported)
<1>1. exported \in SUBSET Paths /\ volume \in [Paths -> Volumes]
  BY DEF TypeOK
<1>2. n \in Nat
  BY <1>1, PathsAssumption, FS_Subset, FS_CardinalityType
<1>3. s \in [1 .. n -> exported]
  BY DEF SetToSeqs
<1>4. \A i \in DOMAIN s : s[i] \in Paths
  BY <1>1, <1>3
<1>5. [i \in DOMAIN s |-> [pcm_path |-> s[i], vol |-> volume[s[i]]]] \in [1 .. n -> Pcm]
  BY <1>1, <1>3, <1>4 DEF Pcm
<1> HIDE DEF n
<1> QED
  BY <1>2, <1>4, <1>5, SeqDef

\* What a blocking call reads, and what the dispatch thread takes, leaves the rest.
LEMMA SockType ==
  ASSUME TypeOK
  PROVE  /\ ReadsAhead => /\ bus' \in Seq(Signals) /\ unread' \in 0 .. Len(bus')
                          /\ awake' \in BOOLEAN
         /\ UNCHANGED <<bus, sock>> => /\ bus' \in Seq(Signals) /\ unread' \in 0 .. Len(bus')
                                       /\ awake' \in BOOLEAN
<1>1. Len(bus) \in Nat
  BY DEF TypeOK
<1> QED
  BY <1>1 DEF TypeOK, ReadsAhead, sock

LEMMA InitStepsType ==
  ASSUME TypeOK, a2dp_ctl_init
  PROVE  TypeOK'
<1>1. CASE BeginInit
  <2>1. pcms' \in [Indices' -> Slots] /\ max_alloc_num' \in Nat
    BY <1>1, SlotsAssumption, BlankType DEF BeginInit, Indices
  <2>2. bus' \in Seq(Signals) /\ unread' \in 0 .. Len(bus') /\ awake' \in BOOLEAN
    BY <1>1, SockType DEF BeginInit
  <2> QED
    BY <1>1, <2>1, <2>2 DEF BeginInit, TypeOK, env, hist
<1>2. CASE AddMatch
  <2>1. matched' \in SUBSET Kinds
    BY <1>2 DEF AddMatch, Match, Kinds
  <2>2. bus' \in Seq(Signals) /\ unread' \in 0 .. Len(bus') /\ awake' \in BOOLEAN
    BY <1>2, SockType DEF AddMatch
  <2> QED
    BY <1>2, <2>1, <2>2 DEF AddMatch, TypeOK, env, tbl, hist, Indices
<1>3. CASE ListNames
  <2>1. bus' \in Seq(Signals) /\ unread' \in 0 .. Len(bus') /\ awake' \in BOOLEAN
    BY <1>3, SockType DEF ListNames
  <2> QED
    BY <1>3, <2>1 DEF ListNames, TypeOK, env, tbl, hist, Indices
<1>4. CASE GetPcms
  <2>1. snap' \in Seq(Pcm)
    BY <1>4, SnapshotType DEF GetPcms
  <2>2. raced' \in BOOLEAN
    BY <1>4 DEF GetPcms
  <2>3. bus' \in Seq(Signals) /\ unread' \in 0 .. Len(bus') /\ awake' \in BOOLEAN
    BY <1>4, SockType DEF GetPcms
  <2> QED
    BY <1>4, <2>1, <2>2, <2>3 DEF GetPcms, TypeOK, env, tbl, Indices
<1>5. CASE LoadPcm
  <2>1. snap \in Seq(Pcm) /\ snap # <<>>
    BY <1>5 DEF LoadPcm, TypeOK
  <2>2. Head(snap) \in Pcm /\ Tail(snap) \in Seq(Pcm)
    BY <2>1, HeadTailProperties
  <2>3. Head(snap).pcm_path \in Paths /\ Head(snap).vol \in Volumes
    BY <2>2 DEF Pcm
  <2>4. /\ max_alloc_num' \in Nat
        /\ pcms' \in [Indices' -> Slots]
        /\ lost' \in SUBSET Paths /\ smashed' \in BOOLEAN /\ mtxHeld' \in BOOLEAN
    BY <1>5, <2>3, AddPcmType DEF LoadPcm
  <2>5. bus' \in Seq(Signals) /\ unread' \in 0 .. Len(bus') /\ awake' \in BOOLEAN
    BY <1>5, SockType DEF LoadPcm
  <2> QED
    BY <1>5, <2>2, <2>4, <2>5 DEF LoadPcm, TypeOK, env
<1>6. CASE StartThread
  <2>1. bus' \in Seq(Signals) /\ unread' \in 0 .. Len(bus') /\ awake' \in BOOLEAN
    BY <1>6, SockType DEF StartThread
  <2> QED
    BY <1>6, <2>1 DEF StartThread, TypeOK, env, tbl, hist, Indices
<1>7. CASE InitFails
  <2>1. pcms' \in [Indices' -> Slots]
    BY <1>7 DEF InitFails, Indices
  <2>2. bus' \in Seq(Signals) /\ unread' \in 0 .. Len(bus')
    <3>1. bus' = <<>> /\ Len(bus') = 0 /\ unread' = 0
      BY <1>7 DEF InitFails
    <3> QED
      BY <3>1, EmptySeq
  <2>3. matched' \in SUBSET Kinds /\ max_alloc_num' \in Nat
    BY <1>7 DEF InitFails
  <2> QED
    BY <1>7, <2>1, <2>2, <2>3 DEF InitFails, TypeOK, env
<1> QED
  BY <1>1, <1>2, <1>3, <1>4, <1>5, <1>6, <1>7 DEF a2dp_ctl_init

LEMMA DispatchType ==
  ASSUME TypeOK, NEW k, Dispatching(k)
  PROVE  Head(bus) \in Signals /\ Head(bus).kind = k /\ bus' \in Seq(Signals)
<1>1. bus \in Seq(Signals) /\ unread \in 0 .. Len(bus) /\ Len(bus) > unread /\ Len(bus) \in Nat
  BY DEF Dispatching, TypeOK
<1>2. bus # <<>>
  BY <1>1
<1> QED
  BY <1>1, <1>2, HeadTailProperties DEF Dispatching

\* What is dispatched was read: the part in the socket is what it was.
LEMMA DispatchSock ==
  ASSUME TypeOK, NEW k, Dispatching(k), UNCHANGED sock
  PROVE  unread' \in 0 .. Len(bus') /\ awake' \in BOOLEAN
<1>1. bus \in Seq(Signals) /\ unread \in 0 .. Len(bus) /\ Len(bus) > unread /\ Len(bus) \in Nat
  BY DEF Dispatching, TypeOK
<1>2. Len(bus') = Len(bus) - 1
  BY <1>1, HeadTailProperties DEF Dispatching
<1> QED
  BY <1>1, <1>2 DEF sock, TypeOK

LEMMA HandType ==
  ASSUME TypeOK, hand.kind \in {"added", "removed"}
  PROVE  hand \in Signals /\ hand.pcm_path \in Paths /\ hand.vol \in Volumes
<1>1. hand # NoSig
  BY DEF NoSig
<1> QED
  BY <1>1, PcmSignal DEF TypeOK

LEMMA DispatchStepsType ==
  ASSUME TypeOK, dbus_thread
  PROVE  TypeOK'
<1>1. CASE HandleAdded
  <2>1. Head(bus) \in Signals /\ Head(bus).kind = "added" /\ bus' \in Seq(Signals)
    BY <1>1, DispatchType DEF HandleAdded
  <2>2. unread' \in 0 .. Len(bus') /\ awake' \in BOOLEAN
    BY <1>1, DispatchSock DEF HandleAdded
  <2> QED
    BY <1>1, <2>1, <2>2 DEF HandleAdded, TypeOK, env, boot, tbl, Indices
<1>2. CASE HandleRemoved
  <2>1. Head(bus) \in Signals /\ Head(bus).kind = "removed" /\ bus' \in Seq(Signals)
    BY <1>2, DispatchType DEF HandleRemoved
  <2>2. unread' \in 0 .. Len(bus') /\ awake' \in BOOLEAN
    BY <1>2, DispatchSock DEF HandleRemoved
  <2>3. missed' \in SUBSET Paths
    BY <1>2 DEF HandleRemoved, TypeOK
  <2> QED
    BY <1>2, <2>1, <2>2, <2>3 DEF HandleRemoved, TypeOK, env, boot, tbl, Indices
<1>3. CASE FinishAdded
  <2>1. hand.pcm_path \in Paths /\ hand.vol \in Volumes
    BY <1>3, HandType DEF FinishAdded
  <2>2. /\ max_alloc_num' \in Nat
        /\ pcms' \in [Indices' -> Slots]
        /\ lost' \in SUBSET Paths /\ smashed' \in BOOLEAN /\ mtxHeld' \in BOOLEAN
    BY <1>3, <2>1, AddPcmType DEF FinishAdded
  <2>3. bus' \in Seq(Signals) /\ unread' \in 0 .. Len(bus') /\ awake' \in BOOLEAN
    BY <1>3, SockType DEF FinishAdded
  <2> QED
    BY <1>3, <2>2, <2>3 DEF FinishAdded, TypeOK, env, boot
<1>4. CASE ReadPcmFails
  <2>1. hand.pcm_path \in Paths
    BY <1>4, HandType DEF ReadPcmFails
  <2>2. bus' \in Seq(Signals) /\ unread' \in 0 .. Len(bus') /\ awake' \in BOOLEAN
    BY <1>4, SockType DEF ReadPcmFails
  <2> QED
    BY <1>4, <2>1, <2>2 DEF ReadPcmFails, TypeOK, env, boot, tbl, Indices
<1>5. CASE FinishRemoved
  <2>1. pcms' \in [Indices -> Slots] /\ max_alloc_num' = max_alloc_num
    BY <1>5 DEF FinishRemoved, RemovePcm, TypeOK, Slots
  <2>2. Indices' = Indices
    BY <2>1 DEF Indices
  <2>3. bus' \in Seq(Signals) /\ unread' \in 0 .. Len(bus') /\ awake' \in BOOLEAN
    BY <1>5, SockType DEF FinishRemoved
  <2> QED
    BY <1>5, <2>1, <2>2, <2>3 DEF FinishRemoved, RemovePcm, TypeOK, env, boot
<1>6. CASE HandleProps
  <2>1. bus' \in Seq(Signals) /\ unread' \in 0 .. Len(bus') /\ awake' \in BOOLEAN
    BY <1>6, DispatchType, DispatchSock DEF HandleProps
  <2> QED
    BY <1>6, <2>1 DEF HandleProps, TypeOK, env, boot, tbl, hist, Indices
<1>7. CASE HandleStart
  <2>1. bus' \in Seq(Signals) /\ unread' \in 0 .. Len(bus') /\ awake' \in BOOLEAN
    BY <1>7, DispatchType, DispatchSock DEF HandleStart
  <2> QED
    BY <1>7, <2>1 DEF HandleStart, TypeOK, env, boot, tbl, hist, Indices
<1>8. CASE HandleStop
  <2>1. bus' \in Seq(Signals) /\ unread' \in 0 .. Len(bus') /\ awake' \in BOOLEAN
    BY <1>8, DispatchType, DispatchSock DEF HandleStop
  <2>2. missed' \in SUBSET Paths
    BY <1>8 DEF HandleStop, TypeOK
  <2> QED
    BY <1>8, <2>1, <2>2 DEF HandleStop, TypeOK, env, boot, tbl, Indices
<1>9. CASE Wake
  <2>1. Len(bus') \in Nat
    BY <1>9 DEF Wake, TypeOK
  <2> QED
    BY <1>9, <2>1 DEF Wake, TypeOK, env, boot, tbl, hist, Indices
<1>10. CASE Sleep
  BY <1>10 DEF Sleep, TypeOK, env, boot, tbl, hist, Indices
<1> QED
  BY <1>1, <1>2, <1>3, <1>4, <1>5, <1>6, <1>7, <1>8, <1>9, <1>10 DEF dbus_thread

LEMMA TypeStep == TypeOK /\ [Next]_vars => TypeOK'
<1> SUFFICES ASSUME TypeOK, [Next]_vars PROVE TypeOK'
  OBVIOUS
<1>1. CASE UNCHANGED vars
  BY <1>1 DEF vars, env, sock, boot, tbl, hist, TypeOK, Indices
<1>2. CASE ReadAhead
  <2>1. bus' \in Seq(Signals) /\ unread' \in 0 .. Len(bus') /\ awake' \in BOOLEAN
    <3>1. bus' = bus /\ unread' = 0
      BY <1>2 DEF ReadAhead
    <3>2. bus \in Seq(Signals) /\ Len(bus) \in Nat
      BY DEF TypeOK
    <3>3. awake' \in BOOLEAN
      BY <1>2, Zenon DEF ReadAhead, TypeOK
    <3> QED
      BY <3>1, <3>2, <3>3
  <2> QED
    BY <1>2, <2>1 DEF ReadAhead, TypeOK, env, boot, tbl, hist, Indices
<1> QED
  BY <1>1, <1>2, EnvType, InitStepsType, DispatchStepsType DEF Next

LEMMA InitType == Init => TypeOK
<1> SUFFICES ASSUME Init PROVE TypeOK
  OBVIOUS
<1>1. pcms \in [Indices -> Slots] /\ max_alloc_num \in Nat
  BY DEF Init, Indices
<1>2. bus \in Seq(Signals) /\ snap \in Seq(Pcm) /\ unread \in 0 .. Len(bus)
  BY EmptySeq DEF Init
<1>3. events \in 0 .. MaxEvents
  BY EventsAssumption DEF Init
<1> QED
  BY <1>1, <1>2, <1>3 DEF Init, TypeOK

\* The table, the queue and the progress of a2dp_ctl_init keep their types: the
\* table has exactly the slots it claims to have, across growth and failure.
THEOREM TypeCorrect == Spec => []TypeOK
  BY InitType, TypeStep, PTL DEF Spec

-----------------------------------------------------------------------------
(* No exported device is missing *)

\* Where the signals about p stand that the thread has not finished with: the one
\* in hand comes before those in the queue.
NoRemovalFrom(i, p) == \A j \in i .. Len(bus) : ~ IsAbout(bus[j], "removed", p)

AnnouncedInQueue(p) ==
  \E i \in 1 .. Len(bus) : IsAbout(bus[i], "added", p) /\ NoRemovalFrom(i, p)

AnnouncedInHand(p) == IsAbout(hand, "added", p) /\ NoRemovalFrom(1, p)

Announced(p) == AnnouncedInQueue(p) \/ AnnouncedInHand(p)

NotRemoved(p) == ~ IsAbout(hand, "removed", p) /\ NoRemovalFrom(1, p)

InSnap(p) == \E i \in 1 .. Len(snap) : snap[i].pcm_path = p

\* From the moment the list was taken p is on its way into the table or in it.
Delivered(p) ==
  \/ phase \in {"matched", "listed"}
  \/ p \in Connected \/ p \in lost \/ InSnap(p)

\* The last word of the signals about p is that it was added, or the signals say
\* nothing that contradicts the list or the table.
Accounted(p) == Announced(p) \/ (NotRemoved(p) /\ Delivered(p))

\* The matches are added in the order of the code.
Stages == {{}, {"added"}, {"added", "removed"}, {"added", "removed", "props"},
           Kinds \ {"start"}, Kinds}

QueueMatched == \A i \in 1 .. Len(bus) : bus[i].kind \in matched

InitOrder ==
  /\ ~ owner => exported = {}
  /\ phase # "loading" => snap = <<>>
  /\ phase = "new" => bus = <<>> /\ matched = {}
  /\ phase \in {"listed", "loading", "run"} => matched = Kinds
  /\ phase # "run" => hand = NoSig
  /\ matched \in Stages /\ QueueMatched

AllAccounted == phase # "new" /\ ~ smashed => \A p \in exported : Accounted(p)

IInv == TypeOK /\ InitOrder /\ AllAccounted

\* As long as no flag was overwritten, add_pcm loses no entry.
LEMMA AddPcmDelivers ==
  ASSUME TypeOK, NEW pcm, AddPcm(pcm), ~ smashed'
  PROVE  /\ Connected \subseteq Connected'
         /\ pcm.pcm_path \in Connected' \cup lost'
         /\ lost \subseteq lost' \cup Connected'
<1> USE DEF TypeOK
<1>1. ASSUME NEW s \in Stray, UseFreeSlot(pcm, s)
      PROVE  Connected \subseteq Connected' /\ pcm.pcm_path \in Connected'
  <2>1. PICK idx \in Indices :
          /\ FirstFree(idx)
          /\ pcms' = [j \in Indices |->
                 CASE j = idx     -> Entry(pcm)
                   [] j = idx + 1 -> [pcms[j] EXCEPT !.connect_flag = StrayFlag(s, @)]
                   [] OTHER       -> pcms[j]]
          /\ smashed' = (smashed \/ (idx + 1 \in Indices
                     /\ pcms'[idx + 1].connect_flag # pcms[idx + 1].connect_flag))
          /\ UNCHANGED max_alloc_num
    BY <1>1 DEF UseFreeSlot, PutAt
  <2>2. Indices' = Indices
    BY <2>1 DEF Indices
  <2>3. pcms'[idx] = Entry(pcm)
    BY <2>1 DEF Indices
  <2>4. \A j \in Indices : j # idx =>
          pcms'[j].connect_flag = pcms[j].connect_flag /\ pcms'[j].pcm_path = pcms[j].pcm_path
    <3> SUFFICES ASSUME NEW j \in Indices, j # idx
                 PROVE  /\ pcms'[j].connect_flag = pcms[j].connect_flag
                        /\ pcms'[j].pcm_path = pcms[j].pcm_path
      OBVIOUS
    <3>1. CASE j = idx + 1
      <4>1. pcms'[j].connect_flag = pcms[j].connect_flag
        BY <2>1, <3>1
      <4>2. pcms'[j] = [pcms[j] EXCEPT !.connect_flag = StrayFlag(s, @)]
        BY <2>1, <3>1
      <4>3. pcms[j] \in Slots
        OBVIOUS
      <4> QED
        BY <4>1, <4>2, <4>3 DEF Slots
    <3>2. CASE j # idx + 1
      BY <2>1, <3>2
    <3> QED
      BY <3>1, <3>2
  <2>5. ~ pcms[idx].connect_flag
    BY <2>1 DEF FirstFree
  <2>6. Entry(pcm).connect_flag = TRUE /\ Entry(pcm).pcm_path = pcm.pcm_path
    BY DEF Entry
  <2> QED
    BY <2>2, <2>3, <2>4, <2>5, <2>6 DEF Connected
<1>2. ASSUME NEW s \in Stray, GrowTable(pcm, s)
      PROVE  Connected \subseteq Connected' /\ pcm.pcm_path \in Connected'
  <2>1. max_alloc_num \in Nat /\ max_alloc_num' = max_alloc_num + 2
    BY <1>2 DEF GrowTable
  <2>2. Indices' = 0 .. max_alloc_num + 1 /\ Indices = 0 .. max_alloc_num - 1
    BY <2>1 DEF Indices
  <2>3. pcms' = [j \in 0 .. max_alloc_num + 1 |->
                   CASE j < max_alloc_num -> pcms[j]
                     [] j = max_alloc_num -> Entry(pcm)
                     [] OTHER             -> Blank(StrayFlag(s, FALSE))]
    BY <1>2 DEF GrowTable
  <2>4. \A j \in Indices : j \in Indices' /\ pcms'[j] = pcms[j]
    <3> HIDE DEF TypeOK
    <3> TAKE j \in Indices
    <3>1. j \in Int /\ j >= 0 /\ j < max_alloc_num /\ j # max_alloc_num
      BY <2>1, <2>2
    <3>2. j \in 0 .. max_alloc_num + 1
      BY <2>1, <3>1
    <3> QED
      BY <2>2, <2>3, <3>1, <3>2
  <2>5. max_alloc_num \in Indices' /\ pcms'[max_alloc_num] = Entry(pcm)
    BY <2>1, <2>2, <2>3
  <2>6. Entry(pcm).connect_flag = TRUE /\ Entry(pcm).pcm_path = pcm.pcm_path
    BY DEF Entry
  <2> QED
    BY <2>4, <2>5, <2>6 DEF Connected
<1>3. CASE GrowFails(pcm)
  BY <1>3 DEF GrowFails, tbl, Connected, Indices
<1> QED
  BY <1>1, <1>2, <1>3 DEF AddPcm

\* remove_pcm keeps the entries of every other PCM.
LEMMA RemovePcmKeeps ==
  ASSUME TypeOK, NEW p, RemovePcm(p), NEW q \in Connected, q # p
  PROVE  q \in Connected'
<1>1. PICK i \in Indices : pcms[i].connect_flag /\ pcms[i].pcm_path = q
  BY DEF Connected
<1>2. Indices' = Indices
  BY DEF RemovePcm, Indices
<1>3. pcms'[i] = pcms[i]
  BY <1>1 DEF RemovePcm, FirstMatch
<1> QED
  BY <1>1, <1>2, <1>3 DEF Connected

\* A signal at the end of the queue takes an announcement back only if it is the
\* removal of that PCM.
LEMMA AppendQueue ==
  ASSUME bus \in Seq(Signals), NEW sig \in Signals, bus' = Append(bus, sig), hand' = hand,
         NEW p, ~ IsAbout(sig, "removed", p)
  PROVE  /\ Announced(p) => Announced(p)'
         /\ NotRemoved(p) => NotRemoved(p)'
         /\ IsAbout(sig, "added", p) => Announced(p)'
<1>1. Len(bus) \in Nat /\ Len(bus') = Len(bus) + 1
  OBVIOUS
<1>2. \A i \in 1 .. Len(bus) : bus'[i] = bus[i]
  OBVIOUS
<1>3. bus'[Len(bus) + 1] = sig
  OBVIOUS
<1>4. \A i \in 1 .. Len(bus) + 1 : NoRemovalFrom(i, p) => NoRemovalFrom(i, p)'
  BY <1>1, <1>2, <1>3 DEF NoRemovalFrom, IsAbout
<1>5. NoRemovalFrom(Len(bus) + 1, p)'
  BY <1>1, <1>3 DEF NoRemovalFrom, IsAbout
<1>6. AnnouncedInQueue(p) => AnnouncedInQueue(p)'
  BY <1>1, <1>2, <1>4 DEF AnnouncedInQueue, IsAbout
<1>7. ASSUME IsAbout(sig, "added", p) PROVE AnnouncedInQueue(p)'
  <2>1. Len(bus) + 1 \in 1 .. Len(bus')
    BY <1>1
  <2>2. IsAbout(bus'[Len(bus) + 1], "added", p)
    BY <1>3, <1>7
  <2>3. \A j \in Len(bus) + 1 .. Len(bus') : ~ IsAbout(bus'[j], "removed", p)
    BY <1>5 DEF NoRemovalFrom, IsAbout
  <2>4. \E i \in 1 .. Len(bus') :
          /\ IsAbout(bus'[i], "added", p)
          /\ \A j \in i .. Len(bus') : ~ IsAbout(bus'[j], "removed", p)
    <3> WITNESS Len(bus) + 1 \in 1 .. Len(bus')
    <3> QED
      BY <2>2, <2>3
  <2> QED
    BY <2>4 DEF AnnouncedInQueue, NoRemovalFrom, IsAbout
<1>8. NoRemovalFrom(1, p) => NoRemovalFrom(1, p)'
  BY <1>1, <1>4
<1>9. \A k \in {"added", "removed"} : IsAbout(hand, k, p) <=> IsAbout(hand, k, p)'
  BY DEF IsAbout
<1> QED
  BY <1>6, <1>7, <1>8, <1>9 DEF Announced, AnnouncedInHand, NotRemoved

\* What is sent while nothing listens for it leaves the queue as it is.
LEMMA EmitCases ==
  ASSUME NEW sig, Emit(sig)
  PROVE  \/ sig.kind \in matched /\ bus' = Append(bus, sig)
         \/ sig.kind \notin matched /\ bus' = bus
  BY DEF Emit, Subscribed

\* Until the first match is there nothing is queued.
LEMMA NothingQueued ==
  ASSUME TypeOK, InitOrder, "added" \notin matched
  PROVE  bus = <<>> /\ phase \in {"new", "matched"} /\ matched = {}
<1>1. matched = {}
  BY DEF InitOrder, Stages, Kinds
<1>2. Len(bus) \in Nat
  BY DEF TypeOK
<1>3. ~ \E i \in 1 .. Len(bus) : TRUE
  BY <1>1 DEF InitOrder, QueueMatched
<1>4. Len(bus) = 0
  BY <1>2, <1>3
<1>5. bus = <<>>
  BY <1>4, EmptySeq DEF TypeOK
<1>6. phase \in {"new", "matched"}
  BY <1>1 DEF InitOrder, Kinds, TypeOK
<1> QED
  BY <1>1, <1>5, <1>6

LEMMA EmitMatched ==
  ASSUME TypeOK, QueueMatched, NEW sig \in Signals, Emit(sig), matched' = matched
  PROVE  QueueMatched'
<1>1. CASE sig.kind \in matched /\ bus' = Append(bus, sig)
  <2>1. Len(bus) \in Nat /\ Len(bus') = Len(bus) + 1
    BY <1>1 DEF TypeOK
  <2>2. \A i \in 1 .. Len(bus) : bus'[i] = bus[i]
    BY <1>1 DEF TypeOK
  <2>3. bus'[Len(bus) + 1] = sig
    BY <1>1 DEF TypeOK
  <2> QED
    BY <1>1, <2>1, <2>2, <2>3 DEF QueueMatched
<1>2. CASE bus' = bus
  BY <1>2 DEF QueueMatched
<1> QED
  BY <1>1, <1>2, EmitCases

\* The dispatch thread works on what it has read.
LEMMA Dispatched ==
  ASSUME TypeOK, NEW k, Dispatching(k)
  PROVE  /\ phase = "run" /\ hand = NoSig /\ bus # <<>>
         /\ Head(bus).kind = k /\ bus' = Tail(bus)
<1>1. unread \in 0 .. Len(bus) /\ Len(bus) > unread /\ Len(bus) \in Nat
  BY DEF Dispatching, TypeOK
<1>2. bus # <<>>
  BY <1>1
<1> QED
  BY <1>2 DEF Dispatching

LEMMA TailMatched ==
  ASSUME TypeOK, QueueMatched, bus # <<>>, bus' = Tail(bus), matched' = matched
  PROVE  QueueMatched'
<1>1. Len(bus) \in Nat \ {0} /\ Len(bus') = Len(bus) - 1
  BY HeadTailProperties DEF TypeOK
<1>2. \A i \in 1 .. Len(bus') : bus'[i] = bus[i + 1]
  BY HeadTailProperties DEF TypeOK
<1> QED
  BY <1>1, <1>2 DEF QueueMatched

\* Taking the first signal in hand, or dropping it when it is not about a PCM,
\* changes nothing.
LEMMA TakeSignal ==
  ASSUME bus \in Seq(Signals), bus # <<>>, bus' = Tail(bus), hand = NoSig, NEW p,
         \/ hand' = Head(bus)
         \/ hand' = NoSig /\ Head(bus).kind \notin {"added", "removed"}
  PROVE  /\ Announced(p) => Announced(p)'
         /\ NotRemoved(p) => NotRemoved(p)'
<1>1. Len(bus) \in Nat \ {0} /\ Len(bus') = Len(bus) - 1 /\ Head(bus) = bus[1]
  BY HeadTailProperties
<1>2. \A i \in 1 .. Len(bus') : bus'[i] = bus[i + 1]
  BY HeadTailProperties
<1>3. \A i \in 1 .. Len(bus') : NoRemovalFrom(i + 1, p) => NoRemovalFrom(i, p)'
  BY <1>1, <1>2 DEF NoRemovalFrom, IsAbout
<1>4. NoRemovalFrom(1, p) => NoRemovalFrom(1, p)' /\ ~ IsAbout(bus[1], "removed", p)
  BY <1>1, <1>2 DEF NoRemovalFrom, IsAbout
<1>5. ~ AnnouncedInHand(p) /\ ~ IsAbout(hand, "removed", p)
  BY DEF AnnouncedInHand, IsAbout, NoSig
<1>6. ASSUME AnnouncedInQueue(p) PROVE Announced(p)'
  <2>1. PICK i \in 1 .. Len(bus) : IsAbout(bus[i], "added", p) /\ NoRemovalFrom(i, p)
    BY <1>6 DEF AnnouncedInQueue
  <2>2. CASE i = 1
    <3>1. hand' = bus[1]
      BY <1>1, <2>1, <2>2 DEF IsAbout
    <3> QED
      BY <1>4, <2>1, <2>2, <3>1 DEF Announced, AnnouncedInHand, IsAbout
  <2>3. CASE i # 1
    <3>1. i - 1 \in 1 .. Len(bus') /\ (i - 1) + 1 = i
      BY <1>1, <2>3
    <3>2. NoRemovalFrom(i - 1, p)' /\ IsAbout(bus[i - 1], "added", p)'
      BY <1>2, <1>3, <2>1, <3>1 DEF IsAbout
    <3> QED
      BY <3>1, <3>2 DEF Announced, AnnouncedInQueue
  <2> QED
    BY <2>2, <2>3
<1>7. NotRemoved(p) => NotRemoved(p)'
  BY <1>1, <1>4 DEF NotRemoved, IsAbout, NoSig
<1> QED
  BY <1>5, <1>6, <1>7 DEF Announced

\* A step that leaves exported devices, table and list alone and takes the queue
\* one signal further loses sight of nothing.
LEMMA TakeKeeps ==
  ASSUME IInv, phase = "run", bus # <<>>, bus' = Tail(bus), hand = NoSig,
         \/ hand' = Head(bus)
         \/ hand' = NoSig /\ Head(bus).kind \notin {"added", "removed"},
         UNCHANGED <<exported, owner, phase, matched, snap, max_alloc_num, pcms, lost, smashed>>
  PROVE  InitOrder' /\ AllAccounted'
<1>1. InitOrder'
  BY TailMatched DEF IInv, InitOrder
<1>2. ASSUME NEW p PROVE Accounted(p) => Accounted(p)'
  <2>1. /\ Announced(p) => Announced(p)'
        /\ NotRemoved(p) => NotRemoved(p)'
    BY TakeSignal DEF IInv, TypeOK
  <2>2. Delivered(p) => Delivered(p)'
    BY DEF Delivered, Connected, Indices, InSnap
  <2> QED
    BY <2>1, <2>2 DEF Accounted
<1> QED
  BY <1>1, <1>2 DEF IInv, AllAccounted

\* A device that appears is announced, one that goes takes only itself along.
LEMMA EnvAccounted ==
  ASSUME IInv, BlueAlsa
  PROVE  InitOrder' /\ AllAccounted'
<1> USE DEF IInv
<1>u. LibraryUnchanged =>
        /\ phase' = phase /\ matched' = matched /\ snap' = snap /\ hand' = hand
        /\ max_alloc_num' = max_alloc_num /\ pcms' = pcms
  BY DEF LibraryUnchanged, boot, tbl
<1>k. ASSUME NEW sig \in Signals, Emit(sig), LibraryUnchanged, lost' = lost, smashed' = smashed,
             phase # "new", NEW p \in exported, ~ smashed, ~ IsAbout(sig, "removed", p)
      PROVE  Accounted(p)'
  <2>1. ASSUME bus' = Append(bus, sig)
        PROVE  /\ Announced(p) => Announced(p)'
               /\ NotRemoved(p) => NotRemoved(p)'
    BY <1>k, <1>u, <2>1, AppendQueue DEF TypeOK
  <2>2. ASSUME bus' = bus
        PROVE  /\ Announced(p) => Announced(p)'
               /\ NotRemoved(p) => NotRemoved(p)'
    BY <1>k, <1>u, <2>2
       DEF Announced, AnnouncedInQueue, AnnouncedInHand, NotRemoved, NoRemovalFrom, IsAbout
  <2>6. /\ Announced(p) => Announced(p)'
        /\ NotRemoved(p) => NotRemoved(p)'
    BY <1>k, <2>1, <2>2, EmitCases
  <2>3. Delivered(p) => Delivered(p)'
    BY <1>k, <1>u DEF Delivered, Connected, Indices, InSnap
  <2>4. Accounted(p)
    BY <1>k DEF AllAccounted
  <2> QED
    BY <2>3, <2>4, <2>6 DEF Accounted
<1>o. ASSUME NEW sig \in Signals, Emit(sig), LibraryUnchanged, ~ owner' => exported' = {}
      PROVE  InitOrder'
  <2>1. QueueMatched'
    BY <1>o, <1>u, EmitMatched DEF InitOrder
  <2>2. phase = "new" => bus' = <<>>
    BY <1>o, EmitCases DEF InitOrder
  <2> QED
    BY <1>o, <1>u, <2>1, <2>2 DEF InitOrder
<1>1. ASSUME NEW q \in Paths, Export(q) PROVE InitOrder' /\ AllAccounted'
  <2> DEFINE sig == [kind |-> "added", pcm_path |-> q, vol |-> volume[q]]
  <2>1. sig \in Signals
    BY DEF Signals, TypeOK
  <2>2. \A p : ~ IsAbout(sig, "removed", p)
    BY DEF IsAbout
  <2>3. /\ Emit(sig) /\ LibraryUnchanged /\ exported' = exported \cup {q}
        /\ owner' = owner /\ owner /\ lost' = lost /\ smashed' = smashed
    BY <1>1 DEF Export, hist
  <2>4. InitOrder'
    BY <1>o, <2>1, <2>3
  <2>5. ASSUME phase' # "new", ~ smashed' PROVE Accounted(q)'
    <3>1. CASE "added" \in matched
      <4>1. bus' = Append(bus, sig)
        BY <2>3, <3>1, EmitCases
      <4>2. IsAbout(sig, "added", q)
        BY DEF IsAbout
      <4>3. Announced(q)'
        BY <1>u, <2>1, <2>2, <2>3, <4>1, <4>2, AppendQueue DEF TypeOK
      <4> QED
        BY <4>3 DEF Accounted
    <3>2. CASE "added" \notin matched
      <4>1. bus = <<>> /\ phase = "matched"
        BY <1>u, <2>3, <2>5, <3>2, NothingQueued
      <4>2. bus' = <<>>
        BY <2>3, <3>2, <4>1, EmitCases
      <4>3. hand' = NoSig /\ phase' = "matched"
        BY <1>u, <2>3, <4>1 DEF InitOrder
      <4> QED
        BY <4>2, <4>3, EmptySeq DEF Accounted, NotRemoved, NoRemovalFrom, IsAbout, NoSig, Delivered
    <3> QED
      BY <3>1, <3>2
  <2>6. ASSUME phase' # "new", ~ smashed', NEW p \in exported PROVE Accounted(p)'
    BY <1>k, <1>u, <2>1, <2>2, <2>3, <2>6
  <2> QED
    BY <2>3, <2>4, <2>5, <2>6 DEF AllAccounted
<1>2. ASSUME NEW q \in Paths, Withdraw(q) PROVE InitOrder' /\ AllAccounted'
  <2> DEFINE sig == [kind |-> "removed", pcm_path |-> q, vol |-> volume[q]]
  <2>1. sig \in Signals
    BY DEF Signals, TypeOK
  <2>2. \A p : p # q => ~ IsAbout(sig, "removed", p)
    BY DEF IsAbout
  <2>3. /\ Emit(sig) /\ LibraryUnchanged /\ exported' = exported \ {q}
        /\ owner' = owner /\ lost' = lost /\ smashed' = smashed
    BY <1>2 DEF Withdraw, hist
  <2>4. InitOrder'
    BY <1>o, <2>1, <2>3 DEF InitOrder
  <2>5. ASSUME phase' # "new", ~ smashed', NEW p \in exported' PROVE Accounted(p)'
    BY <1>k, <1>u, <2>1, <2>2, <2>3, <2>5
  <2> QED
    BY <2>4, <2>5 DEF AllAccounted
<1>3. ASSUME NEW q \in Paths, NEW v \in Volumes, SetVolume(q, v)
      PROVE  InitOrder' /\ AllAccounted'
  <2> DEFINE sig == [kind |-> "props", pcm_path |-> q, vol |-> v]
  <2>1. sig \in Signals
    BY DEF Signals
  <2>2. \A p : ~ IsAbout(sig, "removed", p)
    BY DEF IsAbout
  <2>3. /\ Emit(sig) /\ LibraryUnchanged /\ exported' = exported
        /\ owner' = owner /\ lost' = lost /\ smashed' = smashed
    BY <1>3 DEF SetVolume, hist
  <2>4. InitOrder'
    BY <1>o, <2>1, <2>3 DEF InitOrder
  <2>5. ASSUME phase' # "new", ~ smashed', NEW p \in exported' PROVE Accounted(p)'
    BY <1>k, <1>u, <2>1, <2>2, <2>3, <2>5
  <2> QED
    BY <2>4, <2>5 DEF AllAccounted
<1>4. CASE StopService
  <2>1. Emit([kind |-> "stop"]) /\ LibraryUnchanged /\ exported' = {}
    BY <1>4 DEF StopService
  <2>3. [kind |-> "stop"] \in Signals
    BY DEF Signals
  <2>2. InitOrder'
    BY <1>o, <2>1, <2>3
  <2> QED
    BY <2>1, <2>2 DEF AllAccounted
<1>5. CASE StartService
  <2> DEFINE sig == [kind |-> "start"]
  <2>1. sig \in Signals
    BY DEF Signals
  <2>2. \A p : ~ IsAbout(sig, "removed", p)
    BY DEF IsAbout
  <2>3. /\ Emit(sig) /\ LibraryUnchanged /\ exported' = exported
        /\ owner' = TRUE /\ lost' = lost /\ smashed' = smashed
    BY <1>5 DEF StartService, hist
  <2>4. InitOrder'
    BY <1>o, <2>1, <2>3
  <2>5. ASSUME phase' # "new", ~ smashed', NEW p \in exported' PROVE Accounted(p)'
    BY <1>k, <1>u, <2>1, <2>2, <2>3, <2>5
  <2> QED
    BY <2>4, <2>5 DEF AllAccounted
<1> QED
  BY <1>1, <1>2, <1>3, <1>4, <1>5 DEF BlueAlsa

\* The list BlueALSA answers has every PCM it exports, whatever its order.
LEMMA SnapshotComplete ==
  ASSUME TypeOK, NEW s \in SetToSeqs(exported), NEW p \in exported
  PROVE  \E i \in DOMAIN s : s[i] = p
<1> DEFINE n == Cardinality(exported)
<1>1. IsFiniteSet(exported) /\ n \in Nat
  BY PathsAssumption, FS_Subset, FS_CardinalityType DEF TypeOK
<1>2. s \in [1 .. n -> exported] /\ \A i, j \in 1 .. n : i # j => s[i] # s[j]
  BY DEF SetToSeqs
<1>3. s \in Injection(1 .. n, exported)
  BY <1>2 DEF Injection, IsInjective
<1>4. Cardinality(1 .. n) = n
  <2> HIDE DEF n
  <2>1. n \in Int /\ 1 \in Int
    BY <1>1
  <2>2. Cardinality(1 .. n) = IF 1 > n THEN 0 ELSE n - 1 + 1
    BY <2>1, FS_Interval
  <2> QED
    BY <1>1, <2>2
<1>5. s \in Surjection(1 .. n, exported)
  BY <1>1, <1>3, <1>4, FS_Injection
<1> QED
  BY <1>2, <1>5 DEF Surjection

LEMMA InitAccounted ==
  ASSUME IInv, a2dp_ctl_init
  PROVE  InitOrder' /\ AllAccounted'
<1> USE DEF IInv
<1>1. CASE BeginInit
  <2>1. phase' = "matched" /\ bus' = <<>> /\ hand' = NoSig /\ snap' = <<>>
        /\ owner' = owner /\ exported' = exported /\ matched' = {}
    BY <1>1 DEF BeginInit, InitOrder, env
  <2>2. InitOrder'
    BY <2>1, EmptySeq DEF InitOrder, QueueMatched, Stages
  <2>3. \A p : Accounted(p)'
    BY <2>1, EmptySeq DEF Accounted, NotRemoved, NoRemovalFrom, IsAbout, NoSig, Delivered
  <2> QED
    BY <2>2, <2>3 DEF AllAccounted
<1>7. CASE AddMatch
  <2>1. /\ phase = "matched" /\ phase' = phase /\ matched \subseteq matched'
        /\ exported' = exported /\ owner' = owner /\ bus' = bus /\ hand' = hand
        /\ snap' = snap /\ smashed' = smashed
    BY <1>7 DEF AddMatch, Match, ReadsAhead, env, hist
  <2>2. matched' \in Stages
    BY <1>7 DEF AddMatch, Match, Stages, Kinds
  <2>3. InitOrder'
    BY <2>1, <2>2 DEF InitOrder, QueueMatched
  <2>4. ASSUME NEW p, Accounted(p) PROVE Accounted(p)'
    BY <2>1, <2>4
       DEF Accounted, Announced, AnnouncedInQueue, AnnouncedInHand, NotRemoved,
           NoRemovalFrom, IsAbout, Delivered
  <2> QED
    BY <2>1, <2>3, <2>4 DEF AllAccounted
<1>2. CASE ListNames
  <2>1. /\ phase = "matched" /\ phase' = IF owner THEN "listed" ELSE "loading"
        /\ matched = Kinds /\ matched' = matched
        /\ exported' = exported /\ owner' = owner /\ bus' = bus /\ hand' = hand
        /\ snap' = snap /\ smashed' = smashed
    BY <1>2 DEF ListNames, ReadsAhead, env, hist
  <2>2. InitOrder'
    BY <2>1 DEF InitOrder, QueueMatched
  <2>3. CASE ~ owner
    BY <2>1, <2>2, <2>3 DEF InitOrder, AllAccounted
  <2>4. CASE owner
    <3>1. phase' = "listed"
      BY <2>1, <2>4
    <3>2. ASSUME NEW p, Accounted(p) PROVE Accounted(p)'
      BY <2>1, <3>1, <3>2
         DEF Accounted, Announced, AnnouncedInQueue, AnnouncedInHand, NotRemoved,
             NoRemovalFrom, IsAbout, Delivered
    <3> QED
      BY <2>1, <2>2, <3>2 DEF AllAccounted
  <2> QED
    BY <2>3, <2>4
<1>3. CASE GetPcms
  <2>1. /\ phase = "listed" /\ phase' = "loading"
        /\ exported' = exported /\ owner' = owner /\ bus' = bus /\ hand' = hand
        /\ smashed' = smashed /\ matched' = matched
    BY <1>3 DEF GetPcms, ReadsAhead, env
  <2>2. InitOrder'
    BY <2>1 DEF InitOrder, QueueMatched
  <2>3. ASSUME NEW p \in exported PROVE InSnap(p)'
    <3>1. PICK s \in SetToSeqs(exported) :
            snap' = [i \in DOMAIN s |-> [pcm_path |-> s[i], vol |-> volume[s[i]]]]
      BY <1>3 DEF GetPcms
    <3>2. PICK i \in DOMAIN s : s[i] = p
      BY <3>1, SnapshotComplete
    <3>3. snap' \in Seq(Pcm)
      BY <3>1, SnapshotType
    <3>4. DOMAIN snap' = 1 .. Len(snap') /\ DOMAIN snap' = DOMAIN s
      BY <3>1, <3>3, LenProperties
    <3>5. snap'[i].pcm_path = p
      BY <3>1, <3>2
    <3> QED
      BY <3>2, <3>4, <3>5 DEF InSnap
  <2>4. ASSUME NEW p \in exported, Accounted(p) PROVE Accounted(p)'
    <3>1. Delivered(p)'
      BY <2>3 DEF Delivered
    <3> QED
      BY <2>1, <2>4, <3>1
         DEF Accounted, Announced, AnnouncedInQueue, AnnouncedInHand, NotRemoved,
             NoRemovalFrom, IsAbout
  <2> QED
    BY <2>1, <2>2, <2>4 DEF AllAccounted
<1>4. CASE LoadPcm
  <2>1. /\ phase = "loading" /\ phase' = "loading" /\ snap # <<>> /\ snap' = Tail(snap)
        /\ AddPcm(Head(snap))
        /\ exported' = exported /\ owner' = owner /\ bus' = bus /\ hand' = hand
        /\ matched' = matched
    BY <1>4 DEF LoadPcm, env
  <2>2. InitOrder'
    BY <2>1 DEF InitOrder, QueueMatched
  <2>3. ~ smashed' => ~ smashed
    BY <2>1 DEF AddPcm, UseFreeSlot, PutAt, GrowTable, GrowFails
  <2>4. ASSUME ~ smashed', NEW p, Delivered(p) PROVE Delivered(p)'
    <3>1. /\ Connected \subseteq Connected'
          /\ Head(snap).pcm_path \in Connected' \cup lost'
          /\ lost \subseteq lost' \cup Connected'
      BY <2>1, <2>4, AddPcmDelivers
    <3>2. CASE InSnap(p)
      <4>1. PICK i \in 1 .. Len(snap) : snap[i].pcm_path = p
        BY <3>2 DEF InSnap
      <4>2. snap \in Seq(Pcm)
        BY DEF TypeOK
      <4>3. /\ Len(snap) \in Nat \ {0} /\ Len(snap') = Len(snap) - 1
            /\ Head(snap) = snap[1]
            /\ \A j \in 1 .. Len(snap') : snap'[j] = snap[j + 1]
        BY <2>1, <4>2, HeadTailProperties
      <4>4. CASE i = 1
        BY <3>1, <4>1, <4>3, <4>4 DEF Delivered
      <4>5. CASE i # 1
        <5>1. i - 1 \in 1 .. Len(snap') /\ (i - 1) + 1 = i
          BY <4>3, <4>5
        <5>2. snap'[i - 1].pcm_path = p
          BY <4>1, <4>3, <5>1
        <5> QED
          BY <5>1, <5>2 DEF Delivered, InSnap
      <4> QED
        BY <4>4, <4>5
    <3> QED
      BY <2>1, <2>4, <3>1, <3>2 DEF Delivered
  <2>5. ASSUME ~ smashed', NEW p, Accounted(p) PROVE Accounted(p)'
    BY <2>1, <2>4, <2>5
       DEF Accounted, Announced, AnnouncedInQueue, AnnouncedInHand, NotRemoved,
           NoRemovalFrom, IsAbout
  <2> QED
    BY <2>1, <2>2, <2>3, <2>5 DEF AllAccounted
<1>5. CASE StartThread
  <2>1. /\ phase = "loading" /\ phase' = "run" /\ snap = <<>> /\ snap' = snap
        /\ exported' = exported /\ owner' = owner /\ bus' = bus /\ hand' = hand
        /\ smashed' = smashed /\ max_alloc_num' = max_alloc_num /\ pcms' = pcms
        /\ lost' = lost /\ matched' = matched
    BY <1>5 DEF StartThread, env, tbl, hist
  <2>2. InitOrder'
    BY <2>1 DEF InitOrder, QueueMatched
  <2>3. ASSUME NEW p, Accounted(p) PROVE Accounted(p)'
    BY <2>1, <2>3
       DEF Accounted, Announced, AnnouncedInQueue, AnnouncedInHand, NotRemoved,
           NoRemovalFrom, IsAbout, Delivered, Connected, Indices, InSnap
  <2> QED
    BY <2>1, <2>2, <2>3 DEF AllAccounted
<1>6. CASE InitFails
  <2>1. /\ phase' = "new" /\ bus' = <<>> /\ snap' = snap /\ hand' = hand
        /\ phase \in {"matched", "listed", "loading"}
        /\ (phase = "loading" => snap = <<>>)
        /\ exported' = exported /\ owner' = owner /\ matched' = {}
    BY <1>6 DEF InitFails, env
  <2> QED
    BY <2>1, EmptySeq DEF InitOrder, QueueMatched, Stages, AllAccounted
<1> QED
  BY <1>1, <1>2, <1>3, <1>4, <1>5, <1>6, <1>7 DEF a2dp_ctl_init

\* When the thread is done with the signal in hand, the table says what it said.
LEMMA HandDone ==
  ASSUME IInv, phase = "run", hand' = NoSig, NEW p, Accounted(p),
         UNCHANGED <<exported, owner, bus, phase, snap>>,
         IsAbout(hand, "added", p) => p \in Connected' \cup lost',
         ~ IsAbout(hand, "removed", p) /\ p \in Connected \cup lost
           => p \in Connected' \cup lost'
  PROVE  Accounted(p)'
<1>1. snap = <<>> /\ ~ InSnap(p)
  BY EmptySeq DEF IInv, InitOrder, InSnap
<1>2. NoRemovalFrom(1, p) => NotRemoved(p)'
  BY DEF NotRemoved, NoRemovalFrom, IsAbout, NoSig
<1>3. CASE AnnouncedInQueue(p)
  BY <1>3 DEF Accounted, Announced, AnnouncedInQueue, NoRemovalFrom, IsAbout
<1>4. CASE AnnouncedInHand(p)
  BY <1>2, <1>4 DEF AnnouncedInHand, Accounted, Delivered
<1>5. CASE NotRemoved(p) /\ Delivered(p)
  BY <1>1, <1>2, <1>5 DEF NotRemoved, Delivered, Accounted
<1> QED
  BY <1>3, <1>4, <1>5 DEF Accounted, Announced

LEMMA SameAccounted ==
  ASSUME IInv, UNCHANGED <<exported, owner, bus, phase, matched, snap, hand, max_alloc_num, pcms,
                           lost, smashed>>
  PROVE  InitOrder' /\ AllAccounted'
<1>1. InitOrder'
  BY DEF IInv, InitOrder, QueueMatched
<1>2. ASSUME NEW p, Accounted(p) PROVE Accounted(p)'
  BY <1>2
     DEF Accounted, Announced, AnnouncedInQueue, AnnouncedInHand, NotRemoved,
         NoRemovalFrom, IsAbout, Delivered, Connected, Indices, InSnap
<1> QED
  BY <1>1, <1>2 DEF IInv, AllAccounted

LEMMA DispatchAccounted ==
  ASSUME IInv, dbus_thread
  PROVE  InitOrder' /\ AllAccounted'
<1>1. CASE HandleAdded
  BY <1>1, Dispatched, TakeKeeps DEF HandleAdded, env, boot, tbl, IInv
<1>2. CASE HandleRemoved
  BY <1>2, Dispatched, TakeKeeps DEF HandleRemoved, env, boot, tbl, IInv
<1>3. CASE HandleProps
  BY <1>3, Dispatched, TakeKeeps DEF HandleProps, env, boot, tbl, hist, IInv
<1>4. CASE HandleStart
  BY <1>4, Dispatched, TakeKeeps DEF HandleStart, env, boot, tbl, hist, IInv
<1>5. CASE HandleStop
  BY <1>5, Dispatched, TakeKeeps DEF HandleStop, env, boot, tbl, IInv
<1> USE DEF IInv
<1>h. hand.kind \in {"added", "removed"} => hand # NoSig /\ phase = "run"
  BY DEF InitOrder, NoSig
<1>6. CASE FinishAdded
  <2>1. /\ hand.kind = "added" /\ hand' = NoSig /\ AddPcm(hand)
        /\ UNCHANGED <<exported, owner, bus, phase, matched, snap>>
    BY <1>6 DEF FinishAdded, env, boot
  <2>2. InitOrder'
    BY <1>h, <2>1 DEF InitOrder, QueueMatched
  <2>3. ~ smashed' => ~ smashed
    BY <2>1 DEF AddPcm, UseFreeSlot, PutAt, GrowTable, GrowFails
  <2>4. ASSUME ~ smashed', NEW p, Accounted(p) PROVE Accounted(p)'
    <3>1. /\ Connected \subseteq Connected'
          /\ hand.pcm_path \in Connected' \cup lost'
          /\ lost \subseteq lost' \cup Connected'
      BY <2>1, <2>4, AddPcmDelivers
    <3>2. IsAbout(hand, "added", p) => p \in Connected' \cup lost'
      BY <3>1 DEF IsAbout
    <3> QED
      BY <1>h, <2>1, <2>4, <3>1, <3>2, HandDone
  <2> QED
    BY <1>h, <2>1, <2>2, <2>3, <2>4 DEF AllAccounted
<1>7. CASE ReadPcmFails
  <2>1. /\ hand.kind = "added" /\ hand' = NoSig /\ lost' = lost \cup {hand.pcm_path}
        /\ UNCHANGED <<exported, owner, bus, phase, matched, snap>>
        /\ max_alloc_num' = max_alloc_num /\ pcms' = pcms /\ smashed' = smashed
    BY <1>7 DEF ReadPcmFails, env, boot, tbl
  <2>2. InitOrder'
    BY <1>h, <2>1 DEF InitOrder, QueueMatched
  <2>3. Connected' = Connected
    BY <2>1 DEF Connected, Indices
  <2>4. ASSUME NEW p, Accounted(p) PROVE Accounted(p)'
    BY <1>h, <2>1, <2>3, <2>4, HandDone DEF IsAbout
  <2> QED
    BY <1>h, <2>1, <2>2, <2>4 DEF AllAccounted
<1>8. CASE FinishRemoved
  <2>1. /\ hand.kind = "removed" /\ hand' = NoSig /\ RemovePcm(hand.pcm_path)
        /\ UNCHANGED <<exported, owner, bus, phase, matched, snap>>
        /\ lost' = lost /\ smashed' = smashed
    BY <1>8 DEF FinishRemoved, RemovePcm, env, boot
  <2>2. InitOrder'
    BY <1>h, <2>1 DEF InitOrder, QueueMatched
  <2>3. ASSUME NEW p, Accounted(p) PROVE Accounted(p)'
    <3>1. ~ IsAbout(hand, "added", p)
      BY <2>1 DEF IsAbout
    <3>2. ~ IsAbout(hand, "removed", p) /\ p \in Connected => p \in Connected'
      BY <2>1, RemovePcmKeeps DEF IsAbout
    <3> QED
      BY <1>h, <2>1, <2>3, <3>1, <3>2, HandDone
  <2> QED
    BY <1>h, <2>1, <2>2, <2>3 DEF AllAccounted
<1>9. ASSUME Wake \/ Sleep PROVE InitOrder' /\ AllAccounted'
  <2>1. UNCHANGED <<exported, owner, bus, phase, matched, snap, hand, max_alloc_num, pcms,
                    lost, smashed>>
    BY <1>9 DEF Wake, Sleep, env, boot, tbl, hist
  <2> QED
    BY <2>1, SameAccounted
<1> QED
  BY <1>1, <1>2, <1>3, <1>4, <1>5, <1>6, <1>7, <1>8, <1>9 DEF dbus_thread

LEMMA Inductive == IInv /\ [Next]_vars => IInv'
<1> SUFFICES ASSUME IInv, [Next]_vars PROVE IInv'
  OBVIOUS
<1>1. TypeOK'
  BY TypeStep DEF IInv
<1>2. CASE UNCHANGED vars
  <2>1. UNCHANGED <<exported, owner, bus, phase, matched, snap, hand, max_alloc_num, pcms,
                    lost, smashed>>
    BY <1>2 DEF vars, env, boot, tbl, hist
  <2> QED
    BY <1>1, <2>1, SameAccounted DEF IInv
<1>3. CASE ReadAhead
  <2>1. UNCHANGED <<exported, owner, bus, phase, matched, snap, hand, max_alloc_num, pcms,
                    lost, smashed>>
    BY <1>3 DEF ReadAhead, env, boot, tbl, hist
  <2> QED
    BY <1>1, <2>1, SameAccounted DEF IInv
<1> QED
  BY <1>1, <1>2, <1>3, EnvAccounted, InitAccounted, DispatchAccounted DEF IInv, Next

LEMMA InitIInv == Init => IInv
<1> SUFFICES ASSUME Init PROVE IInv
  OBVIOUS
<1>1. TypeOK
  BY InitType
<1>2. InitOrder
  BY EmptySeq DEF Init, InitOrder, QueueMatched, Stages
<1>3. AllAccounted
  BY DEF Init, AllAccounted
<1> QED
  BY <1>1, <1>2, <1>3 DEF IInv

\* In every state an exported device is in the table, in the list being loaded, or
\* announced by a signal that nothing queued behind it takes back.
THEOREM EveryDeviceAccounted == Spec => []AllAccounted
<1>1. IInv => AllAccounted
  BY DEF IInv
<1> QED
  BY <1>1, InitIInv, Inductive, PTL DEF Spec

\* However the snapshot of a2dp_ctl_init overlaps with the queued signals, once
\* they are handled every device BlueALSA exports is in the table, for any number
\* of devices, table sizes and changes.
THEOREM NoDeviceIsMissed == Spec => []ExportedIsReported
<1>1. IInv => ExportedIsReported
  <2> SUFFICES ASSUME IInv, Quiescent, ~ smashed, NEW p \in exported, p \notin lost
               PROVE  p \in Connected
    BY DEF ExportedIsReported
  <2>1. phase = "run" /\ hand = NoSig /\ bus = <<>> /\ snap = <<>>
    BY DEF IInv, InitOrder, Quiescent
  <2>2. Accounted(p)
    BY <2>1 DEF IInv, AllAccounted
  <2>3. ~ Announced(p)
    BY <2>1, EmptySeq
       DEF Announced, AnnouncedInQueue, AnnouncedInHand, IsAbout, NoSig
  <2>4. ~ InSnap(p)
    BY <2>1, EmptySeq DEF InSnap
  <2> QED
    BY <2>1, <2>2, <2>3, <2>4 DEF Accounted, Delivered
<1> QED
  BY <1>1, InitIInv, Inductive, PTL DEF Spec

-----------------------------------------------------------------------------
(* bluealsa_running *)

TellsOwner(s) == s.kind \in {"start", "stop"}

NoOwnerSignalFrom(i) == \A j \in i .. Len(bus) : ~ TellsOwner(bus[j])

\* A start says that the service is there, a stop that it is not, unless it came back
\* with nobody listening.
TrueOfOwner(s) ==
  /\ TellsOwner(s)
  /\ s.kind = "start" => owner
  /\ s.kind = "stop" => ~ owner \/ missedStart

\* The last start or stop in the queue is what became of the service.
OwnerInQueue ==
  \E i \in 1 .. Len(bus) : TrueOfOwner(bus[i]) /\ NoOwnerSignalFrom(i + 1)

\* What the flag will be once the queue is drained: before get_services it does not
\* matter, afterwards it is true unless a queued signal corrects it.
OwnerTracked ==
  phase # "new" =>
    \/ OwnerInQueue
    \/ /\ NoOwnerSignalFrom(1)
       /\ phase = "matched" \/ running = owner \/ (missedStart /\ ~ running)

\* A signal at the end of the queue that is the last word, or says nothing, of the
\* service.
LEMMA AppendOwner ==
  ASSUME bus \in Seq(Signals), NEW sig \in Signals, bus' = Append(bus, sig)
  PROVE  /\ ~ TellsOwner(sig) /\ UNCHANGED <<owner, missedStart>> /\ OwnerInQueue => OwnerInQueue'
         /\ ~ TellsOwner(sig) /\ NoOwnerSignalFrom(1) => NoOwnerSignalFrom(1)'
         /\ sig.kind = (IF owner' THEN "start" ELSE "stop") => OwnerInQueue'
<1>1. Len(bus) \in Nat /\ Len(bus') = Len(bus) + 1
  OBVIOUS
<1>2. \A i \in 1 .. Len(bus) : bus'[i] = bus[i]
  OBVIOUS
<1>3. bus'[Len(bus) + 1] = sig
  OBVIOUS
<1>4. ASSUME ~ TellsOwner(sig), NEW i \in 1 .. Len(bus) + 1, NoOwnerSignalFrom(i)
      PROVE  NoOwnerSignalFrom(i)'
  BY <1>1, <1>2, <1>3, <1>4 DEF NoOwnerSignalFrom, TellsOwner
<1>5. ASSUME ~ TellsOwner(sig), UNCHANGED <<owner, missedStart>>, OwnerInQueue
      PROVE  OwnerInQueue'
  <2>1. PICK i \in 1 .. Len(bus) : TrueOfOwner(bus[i]) /\ NoOwnerSignalFrom(i + 1)
    BY <1>5 DEF OwnerInQueue
  <2>2. i \in 1 .. Len(bus') /\ i + 1 \in 1 .. Len(bus) + 1
    BY <1>1
  <2>3. NoOwnerSignalFrom(i + 1)'
    BY <1>4, <1>5, <2>1, <2>2
  <2> QED
    BY <1>2, <1>5, <2>1, <2>2, <2>3 DEF OwnerInQueue, TrueOfOwner, TellsOwner
<1>6. ASSUME sig.kind = (IF owner' THEN "start" ELSE "stop") PROVE OwnerInQueue'
  <2>1. \A j \in (Len(bus) + 1) + 1 .. Len(bus') : FALSE
    BY <1>1
  <2>2. Len(bus) + 1 \in 1 .. Len(bus')
    BY <1>1
  <2>3. \E i \in 1 .. Len(bus') :
          /\ TellsOwner(bus'[i]) /\ bus'[i].kind = (IF owner' THEN "start" ELSE "stop")
          /\ \A j \in i + 1 .. Len(bus') : ~ TellsOwner(bus'[j])
    <3> WITNESS Len(bus) + 1 \in 1 .. Len(bus')
    <3> QED
      BY <1>3, <1>6, <2>1 DEF TellsOwner
  <2> QED
    BY <2>3 DEF OwnerInQueue, NoOwnerSignalFrom, TrueOfOwner, TellsOwner
<1> QED
  BY <1>1, <1>4, <1>5, <1>6

\* The first signal leaves the queue; if it tells of the service, the flag is now
\* what it said.
LEMMA TakeOwner ==
  ASSUME bus \in Seq(Signals), bus # <<>>, bus' = Tail(bus),
         UNCHANGED <<owner, missedStart>>, phase' = phase, phase # "matched", OwnerTracked, owner \in BOOLEAN,
         running' = IF TellsOwner(Head(bus)) THEN Head(bus).kind = "start" ELSE running
  PROVE  OwnerTracked'
<1>1. Len(bus) \in Nat \ {0} /\ Len(bus') = Len(bus) - 1 /\ Head(bus) = bus[1]
  BY HeadTailProperties
<1>2. \A i \in 1 .. Len(bus') : bus'[i] = bus[i + 1]
  BY HeadTailProperties
<1>3. ASSUME NEW i \in 1 .. Len(bus), NoOwnerSignalFrom(i + 1) PROVE NoOwnerSignalFrom(i)'
  BY <1>1, <1>2, <1>3 DEF NoOwnerSignalFrom, TellsOwner
<1>4. SUFFICES ASSUME phase # "new" PROVE OwnerTracked'
  BY DEF OwnerTracked
<1>5. CASE OwnerInQueue
  <2>1. PICK i \in 1 .. Len(bus) : TrueOfOwner(bus[i]) /\ NoOwnerSignalFrom(i + 1)
    BY <1>5 DEF OwnerInQueue
  <2>2. CASE i = 1
    <3>1. NoOwnerSignalFrom(1)'
      BY <1>1, <1>3, <2>1, <2>2
    <3>2. TellsOwner(Head(bus)) /\ TrueOfOwner(Head(bus))
      BY <1>1, <2>1, <2>2 DEF TrueOfOwner
    <3>3. running' = (Head(bus).kind = "start")
      BY <3>2
    <3>4. running' = owner' \/ (missedStart' /\ ~ running')
      BY <3>2, <3>3 DEF TrueOfOwner, TellsOwner
    <3> QED
      BY <3>1, <3>4 DEF OwnerTracked
  <2>3. CASE i # 1
    <3>1. i - 1 \in 1 .. Len(bus') /\ (i - 1) + 1 = i
      BY <1>1, <2>3
    <3>2. NoOwnerSignalFrom((i - 1) + 1)' /\ bus'[i - 1] = bus[i]
      BY <1>2, <1>3, <2>1, <3>1
    <3> QED
      BY <2>1, <3>1, <3>2 DEF OwnerInQueue, OwnerTracked, TrueOfOwner, TellsOwner
  <2> QED
    BY <2>2, <2>3
<1>6. CASE NoOwnerSignalFrom(1) /\ (running = owner \/ (missedStart /\ ~ running))
  <2>1. ~ TellsOwner(Head(bus)) /\ NoOwnerSignalFrom(1)'
    BY <1>1, <1>2, <1>6 DEF NoOwnerSignalFrom, TellsOwner
  <2> QED
    BY <1>6, <2>1 DEF OwnerTracked
<1> QED
  BY <1>4, <1>5, <1>6 DEF OwnerTracked

LEMMA EnvOwner ==
  ASSUME IInv, OwnerTracked, BlueAlsa
  PROVE  OwnerTracked'
<1>1. bus \in Seq(Signals) /\ Len(bus) \in Nat
  BY DEF IInv, TypeOK
<1>2. ASSUME NEW sig \in Signals, Emit(sig), LibraryUnchanged,
             \/ ~ TellsOwner(sig) /\ UNCHANGED <<owner, missedStart>>
             \/ sig.kind = (IF owner' THEN "start" ELSE "stop") /\ sig.kind \in matched
      PROVE  OwnerTracked'
  <2>1. phase' = phase /\ running' = running
    BY <1>2 DEF LibraryUnchanged, boot
  <2>2. CASE phase = "new"
    BY <2>1, <2>2 DEF OwnerTracked
  <2>3. CASE phase # "new" /\ bus' = Append(bus, sig)
    <3>2. sig.kind = (IF owner' THEN "start" ELSE "stop") => OwnerInQueue'
      BY <1>1, <2>3, AppendOwner
    <3>3. ~ TellsOwner(sig) /\ UNCHANGED <<owner, missedStart>>
            => /\ OwnerInQueue => OwnerInQueue'
               /\ NoOwnerSignalFrom(1) => NoOwnerSignalFrom(1)'
      BY <1>1, <2>3, AppendOwner
    <3> QED
      BY <1>2, <2>1, <2>3, <3>2, <3>3 DEF OwnerTracked
  <2>4. CASE sig.kind \notin matched /\ bus' = bus
    <3>1. UNCHANGED <<owner, missedStart>>
      BY <1>2, <2>4
    <3> QED
      BY <2>1, <2>4, <3>1
         DEF OwnerTracked, OwnerInQueue, NoOwnerSignalFrom, TrueOfOwner, TellsOwner
  <2> QED
    BY <1>2, <2>2, <2>3, <2>4, EmitCases
<1>m. phase # "new" /\ matched # Kinds => phase = "matched"
  BY DEF IInv, InitOrder, TypeOK
<1>q. \A k \in 1 .. Len(bus) : bus[k].kind \in matched
  BY DEF IInv, InitOrder, QueueMatched
<1>3. ASSUME NEW p \in Paths, Export(p) PROVE OwnerTracked'
  <2> DEFINE sig == [kind |-> "added", pcm_path |-> p, vol |-> volume[p]]
  <2>1. sig \in Signals /\ ~ TellsOwner(sig)
    BY DEF IInv, TypeOK, Signals, TellsOwner
  <2> QED
    BY <1>2, <1>3, <2>1 DEF Export, hist
<1>4. ASSUME NEW p \in Paths, Withdraw(p) PROVE OwnerTracked'
  <2> DEFINE sig == [kind |-> "removed", pcm_path |-> p, vol |-> volume[p]]
  <2>1. sig \in Signals /\ ~ TellsOwner(sig)
    BY DEF IInv, TypeOK, Signals, TellsOwner
  <2> QED
    BY <1>2, <1>4, <2>1 DEF Withdraw
<1>5. ASSUME NEW p \in Paths, NEW v \in Volumes, SetVolume(p, v) PROVE OwnerTracked'
  <2> DEFINE sig == [kind |-> "props", pcm_path |-> p, vol |-> v]
  <2>1. sig \in Signals /\ ~ TellsOwner(sig)
    BY DEF Signals, TellsOwner
  <2> QED
    BY <1>2, <1>5, <2>1 DEF SetVolume, hist
<1>6. CASE StopService
  <2>1. [kind |-> "stop"] \in Signals /\ ~ owner' /\ Emit([kind |-> "stop"]) /\ LibraryUnchanged
    BY <1>6 DEF Signals, StopService
  <2>2. CASE "stop" \in matched
    BY <1>2, <2>1, <2>2
  <2>3. CASE "stop" \notin matched
    <3>1. bus' = bus /\ phase' = phase
      BY <2>1, <2>3, EmitCases DEF LibraryUnchanged, boot
    <3>2. "start" \notin matched /\ (phase # "new" => phase = "matched")
      BY <1>m, <2>3 DEF IInv, InitOrder, Stages, Kinds
    <3>3. NoOwnerSignalFrom(1)'
      BY <1>q, <2>3, <3>1, <3>2 DEF NoOwnerSignalFrom, TellsOwner
    <3> QED
      BY <3>1, <3>2, <3>3 DEF OwnerTracked
  <2> QED
    BY <2>2, <2>3
<1>7. CASE StartService
  <2>1. [kind |-> "start"] \in Signals /\ owner' /\ Emit([kind |-> "start"]) /\ LibraryUnchanged
    BY <1>7 DEF Signals, StartService
  <2>2. CASE "start" \in matched
    BY <1>2, <2>1, <2>2
  <2>3. CASE "start" \notin matched
    <3>1. bus' = bus /\ phase' = phase
      BY <2>1, <2>3, EmitCases DEF LibraryUnchanged, boot
    <3>2. phase # "new" => phase = "matched"
      BY <1>m, <2>3 DEF Kinds
    <3>3. missedStart' = \E i \in 1 .. Len(bus) : bus[i].kind = "stop"
      BY <1>7, <2>3 DEF StartService, Subscribed
    <3>4. CASE OwnerInQueue
      <4>1. PICK i \in 1 .. Len(bus) : TrueOfOwner(bus[i]) /\ NoOwnerSignalFrom(i + 1)
        BY <3>4 DEF OwnerInQueue
      <4>2. bus[i].kind = "stop" => missedStart'
        BY <3>3, <4>1
      <4>3. TrueOfOwner(bus[i])'
        BY <2>1, <3>1, <4>1, <4>2 DEF TrueOfOwner, TellsOwner
      <4>4. NoOwnerSignalFrom(i + 1)'
        BY <3>1, <4>1 DEF NoOwnerSignalFrom, TellsOwner
      <4> QED
        BY <3>1, <4>3, <4>4 DEF OwnerInQueue, OwnerTracked
    <3>5. CASE NoOwnerSignalFrom(1)
      BY <3>1, <3>2, <3>5 DEF OwnerTracked, NoOwnerSignalFrom, TellsOwner
    <3>6. CASE phase = "new"
      BY <3>1, <3>6 DEF OwnerTracked
    <3> QED
      BY <3>4, <3>5, <3>6 DEF OwnerTracked
  <2> QED
    BY <2>2, <2>3
<1> QED
  BY <1>3, <1>4, <1>5, <1>6, <1>7 DEF BlueAlsa

LEMMA OwnerStep == IInv /\ OwnerTracked /\ [Next]_vars => OwnerTracked'
<1> SUFFICES ASSUME IInv, OwnerTracked, [Next]_vars PROVE OwnerTracked'
  OBVIOUS
<1>k. ASSUME UNCHANGED <<bus, owner, running, missedStart>>, phase' # "new" => phase # "new",
             phase = "matched" => phase' = "matched"
      PROVE  OwnerTracked'
  BY <1>k DEF OwnerTracked, OwnerInQueue, NoOwnerSignalFrom, TrueOfOwner, TellsOwner
<1>1. CASE UNCHANGED vars
  BY <1>1, <1>k DEF vars, env, boot, hist
<1>5. CASE ReadAhead
  BY <1>5, <1>k DEF ReadAhead, env, boot, hist
<1>2. CASE BlueAlsa
  BY <1>2, EnvOwner
<1>3. CASE a2dp_ctl_init
  <2>1. CASE BeginInit
    <3>1. bus' = <<>> /\ phase' = "matched"
      BY <2>1 DEF BeginInit, IInv, InitOrder
    <3>2. NoOwnerSignalFrom(1)'
      BY <3>1, EmptySeq DEF NoOwnerSignalFrom
    <3> QED
      BY <3>1, <3>2 DEF OwnerTracked
  <2>2. CASE ListNames
    <3>1. bus' = bus /\ owner' = owner /\ running' = owner /\ phase = "matched"
          /\ missedStart' = missedStart
      BY <2>2 DEF ListNames, ReadsAhead, env, hist
    <3> QED
      BY <3>1 DEF OwnerTracked, OwnerInQueue, NoOwnerSignalFrom, TrueOfOwner, TellsOwner
  <2>7. CASE AddMatch
    BY <1>k, <2>7 DEF AddMatch, ReadsAhead, env, hist
  <2>3. CASE GetPcms
    BY <1>k, <2>3 DEF GetPcms, ReadsAhead, env
  <2>4. CASE LoadPcm
    BY <1>k, <2>4 DEF LoadPcm, env
  <2>5. CASE StartThread
    BY <1>k, <2>5 DEF StartThread, env, hist
  <2>6. CASE InitFails
    BY <2>6 DEF InitFails, OwnerTracked
  <2> QED
    BY <1>3, <2>1, <2>2, <2>3, <2>4, <2>5, <2>6, <2>7 DEF a2dp_ctl_init
<1>4. CASE dbus_thread
  <2>t. TypeOK /\ bus \in Seq(Signals) /\ owner \in BOOLEAN
    BY DEF IInv, TypeOK
  <2>h. hand.kind \in {"added", "removed"} => phase = "run"
    BY DEF IInv, InitOrder, NoSig
  <2>1. CASE HandleAdded
    BY <2>1, <2>t, Dispatched, TakeOwner DEF HandleAdded, env, boot, hist, TellsOwner
  <2>2. CASE HandleRemoved
    BY <2>2, <2>t, Dispatched, TakeOwner DEF HandleRemoved, env, boot, hist, TellsOwner
  <2>3. CASE HandleProps
    BY <2>3, <2>t, Dispatched, TakeOwner DEF HandleProps, env, boot, hist, TellsOwner
  <2>4. CASE HandleStart
    BY <2>4, <2>t, Dispatched, TakeOwner DEF HandleStart, env, boot, hist, TellsOwner
  <2>5. CASE HandleStop
    <3>1. /\ Dispatching("stop") /\ running' = FALSE
          /\ UNCHANGED <<owner, missedStart>> /\ phase' = phase
      BY <2>5 DEF HandleStop, env, boot
    <3>2. /\ phase = "run" /\ bus # <<>> /\ bus' = Tail(bus) /\ Head(bus).kind = "stop"
      BY <2>t, <3>1, Dispatched
    <3> QED
      BY <2>t, <3>1, <3>2, TakeOwner DEF TellsOwner
  <2>6. CASE FinishAdded
    BY <1>k, <2>6 DEF FinishAdded, env, boot
  <2>7. CASE ReadPcmFails
    BY <1>k, <2>7 DEF ReadPcmFails, env, boot
  <2>8. CASE FinishRemoved
    BY <1>k, <2>8 DEF FinishRemoved, env, boot
  <2>9. ASSUME Wake \/ Sleep PROVE OwnerTracked'
    BY <1>k, <2>9 DEF Wake, Sleep, env, boot, hist
  <2> QED
    BY <1>4, <2>1, <2>2, <2>3, <2>4, <2>5, <2>6, <2>7, <2>8, <2>9 DEF dbus_thread
<1> QED
  BY <1>1, <1>2, <1>3, <1>4, <1>5 DEF Next

\* However get_services' answer and the queued start and stop signals overlap, once
\* the queue is drained bluealsa_running is what the bus says of the service, or FALSE
\* because init heard of a stop and could not yet hear of the start that followed.
THEOREM RunningIsTrue == Spec => []RunningTracksOwner
<1>1. Init => OwnerTracked
  BY DEF Init, OwnerTracked
<1>2. OwnerTracked => RunningTracksOwner
  <2> SUFFICES ASSUME OwnerTracked, Quiescent
               PROVE  running = owner \/ (missedStart /\ ~ running)
    BY DEF RunningTracksOwner
  <2>1. phase = "run" /\ Len(bus) = 0
    BY EmptySeq DEF Quiescent
  <2>2. ~ OwnerInQueue
    BY <2>1 DEF OwnerInQueue
  <2> QED
    BY <2>1, <2>2 DEF OwnerTracked
<1> QED
  BY <1>1, <1>2, InitIInv, Inductive, OwnerStep, PTL DEF Spec

-----------------------------------------------------------------------------
(* What the application has been told *)

Concerns(s, p) == IsAbout(s, "added", p) \/ IsAbout(s, "removed", p) \/ s.kind = "stop"

SilentFrom(i, p) == \A j \in i .. Len(bus) : ~ Concerns(bus[j], p)

\* The last queued signal that concerns p says what became of it.
LastWord(p) ==
  \E i \in 1 .. Len(bus) :
    /\ Concerns(bus[i], p) /\ SilentFrom(i + 1, p)
    /\ bus[i].kind = "added" => p \in exported \cup missed
    /\ p \in exported => bus[i].kind = "added"

ToldTruly(p) ==
  /\ told[p] = "connected" => p \in exported \cup missed
  /\ p \in exported => told[p] # "disconnected"

\* The picture the application will have of p once the queue is drained, and has
\* already if nothing in it is about p.
Pictured(p) == LastWord(p) \/ (SilentFrom(1, p) /\ ToldTruly(p))

\* BlueALSA takes back only what it exported, and exports nothing twice unless its end
\* was missed: of two signals about p in the queue with none about it between them.
InTurn(p) ==
  \A j \in 1 .. Len(bus) : \A i \in 1 .. j - 1 :
    /\ Concerns(bus[i], p) /\ Concerns(bus[j], p)
    /\ \A k \in i + 1 .. j - 1 : ~ Concerns(bus[k], p)
    => /\ bus[j].kind = "added" => bus[i].kind # "added" \/ p \in missed
       /\ bus[j].kind = "removed" => bus[i].kind = "added"

\* The first signal about p is no news that the application has had.
IsNews(p) ==
  \A j \in 1 .. Len(bus) :
    /\ Concerns(bus[j], p) /\ \A k \in 1 .. j - 1 : ~ Concerns(bus[k], p)
    => /\ bus[j].kind = "added" => told[p] # "connected" \/ p \in missed
       /\ bus[j].kind = "removed" => told[p] # "disconnected"

\* The application hears of nothing before the thread runs.
ToldLater == phase # "run" => \A p \in Paths : told[p] = "none"

ToldInv == ToldLater /\ \A p \in Paths : Pictured(p) /\ InTurn(p) /\ IsNews(p)

\* BlueALSA's signal about p is at odds with what it last said, and that is the
\* truth about p now.
SpeaksTruly(sig, p) ==
  \/ ~ Concerns(sig, p) /\ (p \in exported' <=> p \in exported)
  \/ IsAbout(sig, "added", p) /\ p \notin exported /\ p \in exported'
  \/ IsAbout(sig, "removed", p) /\ p \in exported /\ p \notin exported'
  \/ sig.kind = "stop" /\ p \notin exported'

LEMMA AppendTold ==
  ASSUME bus \in Seq(Signals), NEW sig \in Signals, bus' = Append(bus, sig),
         UNCHANGED <<told, missed>>,
         NEW p, Pictured(p), InTurn(p), IsNews(p), SpeaksTruly(sig, p)
  PROVE  Pictured(p)' /\ InTurn(p)' /\ IsNews(p)'
<1> DEFINE n == Len(bus)
<1>1. n \in Nat /\ Len(bus') = n + 1
  OBVIOUS
<1>2. \A i \in 1 .. n : bus'[i] = bus[i]
  OBVIOUS
<1>3. bus'[n + 1] = sig
  OBVIOUS
<1> HIDE DEF n
<1>4. \A i \in 1 .. n + 1 : i # n + 1 => i \in 1 .. n
  BY <1>1
<1>5. Concerns(sig, p) => (sig.kind = "added" => p \notin exported /\ p \in exported')
                          /\ (sig.kind = "removed" => p \in exported /\ p \notin exported')
                          /\ (sig.kind = "stop" => p \notin exported')
                          /\ sig.kind \in {"added", "removed", "stop"}
  BY DEF SpeaksTruly, Concerns, IsAbout
<1>6. Pictured(p)'
  <2>1. CASE Concerns(sig, p)
    <3>1. \A j \in (n + 1) + 1 .. Len(bus') : FALSE
      BY <1>1
    <3>2. n + 1 \in 1 .. Len(bus')
      BY <1>1
    <3>3. p \in exported' <=> sig.kind = "added"
      BY <1>5, <2>1
    <3>4. \E i \in 1 .. Len(bus') :
            /\ Concerns(bus'[i], p) /\ \A j \in i + 1 .. Len(bus') : ~ Concerns(bus'[j], p)
            /\ bus'[i].kind = "added" => p \in exported' \cup missed'
            /\ p \in exported' => bus'[i].kind = "added"
      <4> WITNESS n + 1 \in 1 .. Len(bus')
      <4> QED
        BY <1>3, <2>1, <3>1, <3>3
    <3> QED
      BY <3>4 DEF Pictured, LastWord, SilentFrom, Concerns, IsAbout
  <2>2. CASE ~ Concerns(sig, p)
    <3>1. p \in exported' <=> p \in exported
      BY <2>2 DEF SpeaksTruly, Concerns
    <3>2. ASSUME NEW i \in 1 .. n + 1, SilentFrom(i, p) PROVE SilentFrom(i, p)'
      BY <1>1, <1>2, <1>3, <2>2, <3>2 DEF SilentFrom, Concerns, IsAbout, n
    <3>3. CASE LastWord(p)
      <4>1. PICK i \in 1 .. n :
              /\ Concerns(bus[i], p) /\ SilentFrom(i + 1, p)
              /\ bus[i].kind = "added" => p \in exported \cup missed
              /\ p \in exported => bus[i].kind = "added"
        BY <3>3 DEF LastWord, n
      <4>2. i \in 1 .. Len(bus') /\ i + 1 \in 1 .. n + 1
        BY <1>1
      <4>3. SilentFrom(i + 1, p)' /\ bus'[i] = bus[i]
        BY <1>2, <3>2, <4>1, <4>2
      <4> QED
        BY <3>1, <4>1, <4>2, <4>3 DEF Pictured, LastWord, Concerns, IsAbout
    <3>4. CASE SilentFrom(1, p) /\ ToldTruly(p)
      <4>1. 1 \in 1 .. n + 1
        BY <1>1
      <4> QED
        BY <3>1, <3>2, <3>4, <4>1 DEF Pictured, ToldTruly
    <3> QED
      BY <3>3, <3>4 DEF Pictured
  <2> QED
    BY <2>1, <2>2
<1>7. InTurn(p)'
  <2> SUFFICES ASSUME NEW j \in 1 .. n + 1, NEW i \in 1 .. j - 1,
                      Concerns(bus'[i], p), Concerns(bus'[j], p),
                      \A k \in i + 1 .. j - 1 : ~ Concerns(bus'[k], p)
               PROVE  /\ bus'[j].kind = "added" => bus'[i].kind # "added" \/ p \in missed
                      /\ bus'[j].kind = "removed" => bus'[i].kind = "added"
    BY <1>1 DEF InTurn, Concerns, IsAbout
  <2>1. i \in 1 .. n /\ \A k \in i + 1 .. j - 1 : k \in 1 .. n
    BY <1>1
  <2>2. Concerns(bus[i], p) /\ bus'[i] = bus[i]
        /\ \A k \in i + 1 .. j - 1 : ~ Concerns(bus[k], p)
    BY <1>2, <2>1
  <2>3. CASE j # n + 1
    <3>1. j \in 1 .. n /\ bus'[j] = bus[j]
      BY <1>2, <1>4, <2>3
    <3> QED
      BY <2>2, <3>1 DEF InTurn, n
  <2>4. CASE j = n + 1
    <3>1. bus'[j] = sig /\ Concerns(sig, p)
      BY <1>3, <2>4
    <3>2. SilentFrom(i + 1, p)
      BY <1>1, <2>2, <2>4 DEF SilentFrom, n
    <3>3. ~ SilentFrom(1, p)
      BY <2>1, <2>2 DEF SilentFrom, n
    <3>4. PICK m \in 1 .. n :
            /\ Concerns(bus[m], p) /\ SilentFrom(m + 1, p)
            /\ bus[m].kind = "added" => p \in exported \cup missed
            /\ p \in exported => bus[m].kind = "added"
      BY <3>3 DEF Pictured, LastWord, n
    <3>5. ~ (m \in i + 1 .. n) /\ ~ (i \in m + 1 .. n)
      BY <2>2, <3>2, <3>4 DEF SilentFrom, n
    <3>6. m = i
      BY <1>1, <2>1, <3>5
    <3> QED
      BY <1>5, <2>2, <3>1, <3>4, <3>6
  <2> QED
    BY <2>3, <2>4
<1>8. IsNews(p)'
  <2> SUFFICES ASSUME NEW j \in 1 .. n + 1, Concerns(bus'[j], p),
                      \A k \in 1 .. j - 1 : ~ Concerns(bus'[k], p)
               PROVE  /\ bus'[j].kind = "added" => told[p] # "connected" \/ p \in missed
                      /\ bus'[j].kind = "removed" => told[p] # "disconnected"
    BY <1>1 DEF IsNews, Concerns, IsAbout
  <2>1. \A k \in 1 .. j - 1 : k \in 1 .. n
    BY <1>1
  <2>2. \A k \in 1 .. j - 1 : ~ Concerns(bus[k], p)
    BY <1>2, <2>1
  <2>3. CASE j # n + 1
    <3>1. j \in 1 .. n /\ bus'[j] = bus[j]
      BY <1>2, <1>4, <2>3
    <3> QED
      BY <2>2, <3>1 DEF IsNews, n
  <2>4. CASE j = n + 1
    <3>1. bus'[j] = sig /\ Concerns(sig, p)
      BY <1>3, <2>4
    <3>2. \A k \in 1 .. n : ~ Concerns(bus[k], p)
      BY <1>1, <2>2, <2>4
    <3>3. ~ LastWord(p)
      BY <3>2 DEF LastWord, n
    <3> QED
      BY <1>5, <3>1, <3>3 DEF Pictured, ToldTruly
  <2> QED
    BY <2>3, <2>4
<1> QED
  BY <1>6, <1>7, <1>8

\* The event the application gets for the first signal, if it is about p.
Event(s) == CASE s.kind = "added"   -> "connected"
              [] s.kind = "removed" -> "disconnected"
              [] OTHER              -> "none"

LEMMA TakeTold ==
  ASSUME bus \in Seq(Signals), bus # <<>>, bus' = Tail(bus), exported' = exported,
         NEW p, Pictured(p), InTurn(p), IsNews(p),
         told'[p] = IF Concerns(Head(bus), p) THEN Event(Head(bus)) ELSE told[p],
         p \in missed /\ p \notin missed'
           => Concerns(Head(bus), p) /\ Head(bus).kind # "added" /\ ~ AddedFrom(2, p)
  PROVE  Pictured(p)' /\ InTurn(p)' /\ IsNews(p)'
<1> DEFINE n == Len(bus)
<1>1. n \in Nat \ {0} /\ Len(bus') = n - 1 /\ Head(bus) = bus[1]
  BY HeadTailProperties
<1>2. \A i \in 1 .. n - 1 : bus'[i] = bus[i + 1]
  BY <1>1, HeadTailProperties
<1> HIDE DEF n
<1>3. \A i \in 1 .. n - 1 : i + 1 \in 1 .. n
  BY <1>1
<1>4. Concerns(bus[1], p) =>
        /\ bus[1].kind \in {"added", "removed", "stop"}
        /\ told'[p] = "connected" <=> bus[1].kind = "added"
        /\ told'[p] = "disconnected" <=> bus[1].kind = "removed"
  BY <1>1 DEF Event, Concerns, IsAbout
<1>5. ~ Concerns(bus[1], p) => told'[p] = told[p]
  BY <1>1
<1>6. ASSUME NEW i \in 1 .. n, SilentFrom(i + 1, p) PROVE SilentFrom(i, p)'
  <2> SUFFICES ASSUME NEW j \in i .. n - 1 PROVE ~ Concerns(bus'[j], p)
    BY <1>1 DEF SilentFrom, Concerns, IsAbout
  <2>1. j \in 1 .. n - 1 /\ j + 1 \in i + 1 .. n
    BY <1>1
  <2> QED
    BY <1>2, <1>6, <2>1 DEF SilentFrom, n
<1>a. ASSUME NEW i \in 1 .. n - 1, bus'[i].kind = "added", Concerns(bus'[i], p), p \in missed
      PROVE  p \in missed'
  <2>1. i + 1 \in 2 .. n /\ IsAbout(bus[i + 1], "added", p)
    BY <1>1, <1>2, <1>a DEF Concerns, IsAbout
  <2>2. AddedFrom(2, p)
    BY <2>1 DEF AddedFrom, n
  <2> QED
    BY <1>a, <2>2
<1>b. bus[1].kind = "added" /\ p \in missed => p \in missed'
  BY <1>1
<1>7. Pictured(p)'
  <2>1. CASE LastWord(p)
    <3>1. PICK i \in 1 .. n :
            /\ Concerns(bus[i], p) /\ SilentFrom(i + 1, p)
            /\ bus[i].kind = "added" => p \in exported \cup missed
            /\ p \in exported => bus[i].kind = "added"
      BY <2>1 DEF LastWord, n
    <3>2. CASE i = 1
      <4>1. SilentFrom(1, p)'
        BY <1>6, <3>1, <3>2
      <4>3. told'[p] = "connected" => p \in exported' \cup missed'
        <5>1. SUFFICES ASSUME told'[p] = "connected", p \notin exported PROVE p \in missed'
          OBVIOUS
        <5>2. bus[1].kind = "added" /\ Concerns(bus[1], p)
          BY <1>4, <3>1, <3>2, <5>1
        <5>3. p \in missed
          BY <3>1, <3>2, <5>1, <5>2
        <5> QED
          BY <1>1, <1>b, <5>2, <5>3
      <4>2. ToldTruly(p)'
        BY <1>4, <3>1, <3>2, <4>3 DEF ToldTruly
      <4> QED
        BY <4>1, <4>2 DEF Pictured
    <3>3. CASE i # 1
      <4>1. i - 1 \in 1 .. n - 1 /\ i - 1 \in 1 .. n /\ (i - 1) + 1 = i
        BY <1>1, <3>3
      <4>2. bus'[i - 1] = bus[i]
        BY <1>2, <4>1
      <4>3. SilentFrom((i - 1) + 1, p)'
        BY <1>6, <3>1, <4>1
      <4>4. bus'[i - 1].kind = "added" => p \in exported' \cup missed'
        BY <1>a, <3>1, <4>1, <4>2
      <4> QED
        BY <1>1, <3>1, <4>1, <4>2, <4>3, <4>4 DEF Pictured, LastWord, Concerns, IsAbout
    <3> QED
      BY <3>2, <3>3
  <2>2. CASE SilentFrom(1, p) /\ ToldTruly(p)
    <3>1. ~ Concerns(bus[1], p)
      BY <1>1, <2>2 DEF SilentFrom, n
    <3>2. SilentFrom(2, p)
      BY <1>1, <2>2 DEF SilentFrom, n
    <3>3. SilentFrom(1, p)'
      BY <1>1, <1>6, <3>2
    <3>4. p \in missed => p \in missed'
      BY <1>1, <3>1
    <3> QED
      BY <1>5, <2>2, <3>1, <3>3, <3>4 DEF Pictured, ToldTruly
  <2> QED
    BY <2>1, <2>2 DEF Pictured
<1>8. InTurn(p)'
  <2> SUFFICES ASSUME NEW j \in 1 .. n - 1, NEW i \in 1 .. j - 1,
                      Concerns(bus'[i], p), Concerns(bus'[j], p),
                      \A k \in i + 1 .. j - 1 : ~ Concerns(bus'[k], p)
               PROVE  /\ bus'[j].kind = "added" => bus'[i].kind # "added" \/ p \in missed'
                      /\ bus'[j].kind = "removed" => bus'[i].kind = "added"
    BY <1>1 DEF InTurn, Concerns, IsAbout
  <2>1. i \in 1 .. n - 1 /\ j + 1 \in 1 .. n /\ i + 1 \in 1 .. (j + 1) - 1
    BY <1>1
  <2>2. bus'[i] = bus[i + 1] /\ bus'[j] = bus[j + 1]
    BY <1>2, <2>1
  <2>3. ASSUME NEW k \in (i + 1) + 1 .. (j + 1) - 1 PROVE ~ Concerns(bus[k], p)
    <3>1. k - 1 \in i + 1 .. j - 1 /\ k - 1 \in 1 .. n - 1 /\ (k - 1) + 1 = k
      BY <1>1
    <3> QED
      BY <1>2, <3>1
  <2>4. bus'[j].kind = "added" /\ p \in missed => p \in missed'
    BY <1>a
  <2> QED
    BY <2>1, <2>2, <2>3, <2>4 DEF InTurn, n
<1>9. IsNews(p)'
  <2> SUFFICES ASSUME NEW j \in 1 .. n - 1, Concerns(bus'[j], p),
                      \A k \in 1 .. j - 1 : ~ Concerns(bus'[k], p)
               PROVE  /\ bus'[j].kind = "added" => told'[p] # "connected" \/ p \in missed'
                      /\ bus'[j].kind = "removed" => told'[p] # "disconnected"
    BY <1>1 DEF IsNews, Concerns, IsAbout
  <2>1. j + 1 \in 1 .. n /\ bus'[j] = bus[j + 1]
    BY <1>2, <1>3
  <2>2. ASSUME NEW k \in 2 .. (j + 1) - 1 PROVE ~ Concerns(bus[k], p)
    <3>1. k - 1 \in 1 .. j - 1 /\ k - 1 \in 1 .. n - 1 /\ (k - 1) + 1 = k
      BY <1>1
    <3> QED
      BY <1>2, <3>1
  <2>5. bus'[j].kind = "added" /\ p \in missed => p \in missed'
    BY <1>a
  <2>3. CASE Concerns(bus[1], p)
    <3>1. /\ bus[j + 1].kind = "added" => bus[1].kind # "added" \/ p \in missed
          /\ bus[j + 1].kind = "removed" => bus[1].kind = "added"
      <4>1. 1 \in 1 .. (j + 1) - 1 /\ 1 + 1 = 2
        OBVIOUS
      <4> QED
        BY <2>1, <2>2, <2>3, <4>1 DEF InTurn, n
    <3> QED
      BY <1>4, <2>1, <2>3, <2>5, <3>1
  <2>4. CASE ~ Concerns(bus[1], p)
    <3>1. \A k \in 1 .. (j + 1) - 1 : k = 1 \/ k \in 2 .. (j + 1) - 1
      OBVIOUS
    <3>2. \A k \in 1 .. (j + 1) - 1 : ~ Concerns(bus[k], p)
      BY <2>2, <2>4, <3>1
    <3> QED
      BY <1>5, <2>1, <2>4, <2>5, <3>2 DEF IsNews, n
  <2> QED
    BY <2>3, <2>4
<1> QED
  BY <1>7, <1>8, <1>9

\* Before the matches are added the queue is empty and the application knows nothing.
LEMMA ToldNothing ==
  ASSUME bus = <<>>, NEW p \in Paths, told[p] = "none"
  PROVE  Pictured(p) /\ InTurn(p) /\ IsNews(p)
<1>1. Len(bus) = 0
  BY EmptySeq
<1> QED
  BY <1>1 DEF Pictured, SilentFrom, ToldTruly, InTurn, IsNews

\* What nobody heard of changed nothing for p, or was its end and is accounted for.
Unheard(p) ==
  \/ (p \in exported' <=> p \in exported) /\ (p \in missed' <=> p \in missed)
  \/ p \notin exported' /\ p \in missed'
  \/ p \notin exported' /\ (p \in missed' <=> p \in missed) /\ ~ AddedFrom(1, p)

LEMMA EnvTold ==
  ASSUME IInv, ToldInv, BlueAlsa
  PROVE  ToldInv'
<1>t. bus \in Seq(Signals) /\ (phase = "new" => bus = <<>>) /\ (~ owner => exported = {})
  BY DEF IInv, TypeOK, InitOrder
<1>1. ASSUME NEW sig \in Signals, Emit(sig), LibraryUnchanged, told' = told,
             sig.kind \in matched => /\ missed' = missed
                                     /\ \A p \in Paths : SpeaksTruly(sig, p),
             sig.kind \notin matched /\ "added" \in matched => \A p \in Paths : Unheard(p)
      PROVE  ToldInv'
  <2>1. phase' = phase
    BY <1>1 DEF LibraryUnchanged, boot
  <2>2. ToldLater'
    BY <1>1, <2>1 DEF ToldInv, ToldLater
  <2>3. CASE sig.kind \notin matched /\ "added" \notin matched
    <3>1. bus' = <<>> /\ phase \in {"new", "matched"}
      BY <1>1, <2>3, EmitCases, NothingQueued DEF IInv
    <3>2. \A p \in Paths : told'[p] = "none"
      BY <1>1, <3>1 DEF ToldInv, ToldLater
    <3>3. Len(bus') = 0
      BY <3>1, EmptySeq
    <3> QED
      BY <2>2, <3>2, <3>3 DEF ToldInv, Pictured, SilentFrom, ToldTruly, InTurn, IsNews
  <2>4. CASE sig.kind \in matched
    <3>1. bus' = Append(bus, sig)
      BY <1>1, <2>4, EmitCases
    <3>2. ASSUME NEW p \in Paths PROVE Pictured(p)' /\ InTurn(p)' /\ IsNews(p)'
      BY <1>1, <1>t, <2>4, <3>1, AppendTold DEF ToldInv
    <3> QED
      BY <2>2, <3>2 DEF ToldInv
  <2>6. sig.kind \notin matched => \A p \in Paths : told[p] = "none"
    <3>1. sig.kind \in Kinds
      BY <1>1 DEF Signals, Kinds
    <3> QED
      BY <3>1 DEF ToldInv, ToldLater, IInv, InitOrder
  <2>5. CASE sig.kind \notin matched /\ "added" \in matched
    <3>1. bus' = bus
      BY <1>1, <2>5, EmitCases
    <3>2. ASSUME NEW p \in Paths PROVE Pictured(p)' /\ InTurn(p)' /\ IsNews(p)'
      <4>1. Unheard(p) /\ Pictured(p) /\ InTurn(p) /\ IsNews(p)
        BY <1>1, <2>5 DEF ToldInv
      <4>6. ASSUME p \notin exported', ~ AddedFrom(1, p) PROVE Pictured(p)'
        <5>1. ToldTruly(p)'
          BY <1>1, <2>5, <2>6, <4>6 DEF ToldTruly
        <5>2. \A i \in 1 .. Len(bus) : Concerns(bus[i], p) => bus[i].kind # "added"
          BY <4>6 DEF AddedFrom, Concerns, IsAbout
        <5> QED
          BY <3>1, <4>1, <4>6, <5>1, <5>2
             DEF Pictured, LastWord, SilentFrom, Concerns, IsAbout
      <4>7. ASSUME p \in exported' \/ AddedFrom(1, p) PROVE Pictured(p)'
        BY <1>1, <3>1, <4>1, <4>7
           DEF Pictured, LastWord, SilentFrom, ToldTruly, Concerns, IsAbout, Unheard
      <4>2. Pictured(p)'
        BY <4>6, <4>7
      <4>3. InTurn(p)'
        BY <3>1, <4>1 DEF InTurn, Concerns, IsAbout, Unheard
      <4>4. IsNews(p)'
        BY <1>1, <3>1, <4>1 DEF IsNews, Concerns, IsAbout, Unheard
      <4> QED
        BY <4>2, <4>3, <4>4
    <3> QED
      BY <2>2, <3>2 DEF ToldInv
  <2> QED
    BY <2>3, <2>4, <2>5
<1>2. ASSUME NEW q \in Paths, Export(q) PROVE ToldInv'
  <2> DEFINE sig == [kind |-> "added", pcm_path |-> q, vol |-> volume[q]]
  <2>1. sig \in Signals
    BY DEF IInv, TypeOK, Signals
  <2>2. ASSUME NEW p \in Paths PROVE SpeaksTruly(sig, p)
    BY <1>2 DEF Export, SpeaksTruly, Concerns, IsAbout
  <2>3. /\ Emit(sig) /\ LibraryUnchanged /\ told' = told /\ missed' = missed
        /\ sig.kind = "added"
    BY <1>2 DEF Export, hist
  <2> HIDE DEF sig
  <2> QED
    BY <1>1, <2>1, <2>2, <2>3
<1>3. ASSUME NEW q \in Paths, Withdraw(q) PROVE ToldInv'
  <2> DEFINE sig == [kind |-> "removed", pcm_path |-> q, vol |-> volume[q]]
  <2>1. sig \in Signals
    BY DEF IInv, TypeOK, Signals
  <2>2. ASSUME NEW p \in Paths PROVE SpeaksTruly(sig, p)
    BY <1>3 DEF Withdraw, SpeaksTruly, Concerns, IsAbout
  <2>3. /\ Emit(sig) /\ LibraryUnchanged /\ told' = told /\ sig.kind = "removed"
        /\ "removed" \in matched => missed' = missed
    BY <1>3 DEF Withdraw, Subscribed
  <2>4. ASSUME "removed" \notin matched, "added" \in matched, NEW p \in Paths PROVE Unheard(p)
    BY <1>3, <2>4 DEF Withdraw, Subscribed, Unheard
  <2> HIDE DEF sig
  <2> QED
    BY <1>1, <2>1, <2>2, <2>3, <2>4
<1>4. ASSUME NEW q \in Paths, NEW v \in Volumes, SetVolume(q, v) PROVE ToldInv'
  <2> DEFINE sig == [kind |-> "props", pcm_path |-> q, vol |-> v]
  <2>1. sig \in Signals
    BY DEF Signals
  <2>2. ASSUME NEW p \in Paths PROVE SpeaksTruly(sig, p)
    BY <1>4 DEF SetVolume, SpeaksTruly, Concerns, IsAbout
  <2>3. Emit(sig) /\ LibraryUnchanged /\ told' = told /\ missed' = missed /\ exported' = exported
    BY <1>4 DEF SetVolume, hist
  <2>4. \A p \in Paths : Unheard(p)
    BY <2>3 DEF Unheard
  <2> HIDE DEF sig
  <2> QED
    BY <1>1, <2>1, <2>2, <2>3, <2>4
<1>5. CASE StopService
  <2> DEFINE sig == [kind |-> "stop"]
  <2>1. sig \in Signals
    BY DEF Signals
  <2>2. ASSUME NEW p \in Paths PROVE SpeaksTruly(sig, p)
    BY <1>5 DEF StopService, SpeaksTruly
  <2>3. /\ Emit(sig) /\ LibraryUnchanged /\ told' = told /\ sig.kind = "stop"
        /\ "stop" \in matched => missed' = missed
    BY <1>5 DEF StopService, Subscribed
  <2>4. ASSUME "stop" \notin matched, "added" \in matched, NEW p \in Paths PROVE Unheard(p)
    BY <1>5, <2>4 DEF StopService, Subscribed, Unheard
  <2> HIDE DEF sig
  <2> QED
    BY <1>1, <2>1, <2>2, <2>3, <2>4
<1>6. CASE StartService
  <2> DEFINE sig == [kind |-> "start"]
  <2>1. sig \in Signals
    BY DEF Signals
  <2>2. ASSUME NEW p \in Paths PROVE SpeaksTruly(sig, p)
    BY <1>6 DEF StartService, SpeaksTruly, Concerns, IsAbout
  <2>3. Emit(sig) /\ LibraryUnchanged /\ told' = told /\ missed' = missed /\ exported' = exported
    BY <1>6 DEF StartService, hist
  <2>4. \A p \in Paths : Unheard(p)
    BY <2>3 DEF Unheard
  <2> HIDE DEF sig
  <2> QED
    BY <1>1, <2>1, <2>2, <2>3, <2>4
<1> QED
  BY <1>2, <1>3, <1>4, <1>5, <1>6 DEF BlueAlsa

LEMMA DispatchTold ==
  ASSUME IInv, ToldInv, NEW k, Dispatching(k), exported' = exported, phase' = phase,
         \A p \in Paths :
           told'[p] = IF Concerns(Head(bus), p) THEN Event(Head(bus)) ELSE told[p],
         \A p \in Paths : p \in missed /\ p \notin missed'
           => Concerns(Head(bus), p) /\ Head(bus).kind # "added" /\ ~ AddedFrom(2, p)
  PROVE  ToldInv'
<1>1. /\ bus \in Seq(Signals) /\ bus # <<>> /\ bus' = Tail(bus)
      /\ phase = "run"
  BY Dispatched DEF IInv, TypeOK
<1>2. ASSUME NEW p \in Paths PROVE Pictured(p)' /\ InTurn(p)' /\ IsNews(p)'
  BY <1>1, TakeTold DEF ToldInv
<1> QED
  BY <1>1, <1>2 DEF ToldInv, ToldLater

LEMMA ToldStep == IInv /\ ToldInv /\ [Next]_vars => ToldInv'
<1> SUFFICES ASSUME IInv, ToldInv, [Next]_vars PROVE ToldInv'
  OBVIOUS
<1>k. ASSUME UNCHANGED <<bus, exported, told, missed>>, phase' # "run" => phase # "run"
      PROVE  ToldInv'
  <2>1. ASSUME NEW p \in Paths PROVE Pictured(p) => Pictured(p)'
    BY <1>k DEF Pictured, LastWord, SilentFrom, ToldTruly, Concerns, IsAbout
  <2>2. ASSUME NEW p \in Paths PROVE InTurn(p) => InTurn(p)'
    BY <1>k DEF InTurn, Concerns, IsAbout
  <2>3. ASSUME NEW p \in Paths PROVE IsNews(p) => IsNews(p)'
    BY <1>k DEF IsNews, Concerns, IsAbout
  <2> QED
    BY <1>k, <2>1, <2>2, <2>3 DEF ToldInv, ToldLater
<1>e. ASSUME bus' = <<>>, told' = told, phase # "run", phase' # "run"
      PROVE  ToldInv'
  <2>1. \A p \in Paths : told'[p] = "none"
    BY <1>e DEF ToldInv, ToldLater
  <2>2. Len(bus') = 0
    BY <1>e, EmptySeq
  <2> QED
    BY <1>e, <2>1, <2>2
       DEF ToldInv, ToldLater, Pictured, SilentFrom, ToldTruly, InTurn, IsNews
<1>1. CASE UNCHANGED vars
  BY <1>1, <1>k DEF vars, env, boot, hist
<1>5. CASE ReadAhead
  BY <1>5, <1>k DEF ReadAhead, env, boot, hist
<1>2. CASE BlueAlsa
  BY <1>2, EnvTold
<1>3. CASE a2dp_ctl_init
  <2>1. CASE BeginInit
    BY <1>k, <2>1 DEF BeginInit, env, hist
  <2>2. CASE ListNames
    BY <1>k, <2>2 DEF ListNames, ReadsAhead, env, hist
  <2>7. CASE AddMatch
    BY <1>k, <2>7 DEF AddMatch, ReadsAhead, env, hist
  <2>3. CASE GetPcms
    BY <1>k, <2>3 DEF GetPcms, ReadsAhead, env
  <2>4. CASE LoadPcm
    BY <1>k, <2>4 DEF LoadPcm, env
  <2>5. CASE StartThread
    BY <1>k, <2>5 DEF StartThread, env, hist
  <2>6. CASE InitFails
    BY <1>e, <2>6 DEF InitFails
  <2> QED
    BY <1>3, <2>1, <2>2, <2>3, <2>4, <2>5, <2>6, <2>7 DEF a2dp_ctl_init
<1>4. CASE dbus_thread
  <2>t. told \in [Paths -> {"none", "connected", "disconnected"}]
    BY DEF IInv, TypeOK
  <2>1. CASE HandleAdded
    <3>1. ASSUME NEW p \in Paths
          PROVE  told'[p] = IF Concerns(Head(bus), p) THEN Event(Head(bus)) ELSE told[p]
      BY <2>1, <2>t DEF HandleAdded, Dispatching, Concerns, IsAbout, Event
    <3> QED
      BY <2>1, <3>1, DispatchTold DEF HandleAdded, env, boot
  <2>2. CASE HandleRemoved
    <3>1. ASSUME NEW p \in Paths
          PROVE  told'[p] = IF Concerns(Head(bus), p) THEN Event(Head(bus)) ELSE told[p]
      BY <2>2, <2>t DEF HandleRemoved, Dispatching, Concerns, IsAbout, Event
    <3>2. ASSUME NEW p \in Paths, p \in missed, p \notin missed'
          PROVE  Concerns(Head(bus), p) /\ Head(bus).kind # "added" /\ ~ AddedFrom(2, p)
      BY <2>2, <3>2 DEF HandleRemoved, Dispatching, Concerns, IsAbout
    <3>3. Dispatching("removed") /\ exported' = exported /\ phase' = phase
      BY <2>2 DEF HandleRemoved, env, boot
    <3> QED
      BY <3>1, <3>2, <3>3, DispatchTold
  <2>3. CASE HandleProps
    <3>1. \A p \in Paths : ~ Concerns(Head(bus), p)
      BY <2>3 DEF HandleProps, Dispatching, Concerns, IsAbout
    <3> QED
      BY <2>3, <3>1, DispatchTold DEF HandleProps, env, boot, hist
  <2>4. CASE HandleStart
    <3>1. \A p \in Paths : ~ Concerns(Head(bus), p)
      BY <2>4 DEF HandleStart, Dispatching, Concerns, IsAbout
    <3> QED
      BY <2>4, <3>1, DispatchTold DEF HandleStart, env, boot, hist
  <2>5. CASE HandleStop
    <3>1. ASSUME NEW p \in Paths
          PROVE  told'[p] = IF Concerns(Head(bus), p) THEN Event(Head(bus)) ELSE told[p]
      BY <2>5 DEF HandleStop, Dispatching, Concerns, Event
    <3>2. ASSUME NEW p \in Paths, p \in missed, p \notin missed'
          PROVE  Concerns(Head(bus), p) /\ Head(bus).kind # "added" /\ ~ AddedFrom(2, p)
      BY <2>5, <3>2 DEF HandleStop, Dispatching, Concerns
    <3>3. Dispatching("stop") /\ exported' = exported /\ phase' = phase
      BY <2>5 DEF HandleStop, env, boot
    <3> QED
      BY <3>1, <3>2, <3>3, DispatchTold
  <2>6. CASE FinishAdded
    BY <1>k, <2>6 DEF FinishAdded, env, boot
  <2>7. CASE ReadPcmFails
    BY <1>k, <2>7 DEF ReadPcmFails, env, boot
  <2>8. CASE FinishRemoved
    BY <1>k, <2>8 DEF FinishRemoved, env, boot
  <2>9. ASSUME Wake \/ Sleep PROVE ToldInv'
    BY <1>k, <2>9 DEF Wake, Sleep, env, boot, hist
  <2> QED
    BY <1>4, <2>1, <2>2, <2>3, <2>4, <2>5, <2>6, <2>7, <2>8, <2>9 DEF dbus_thread
<1> QED
  BY <1>1, <1>2, <1>3, <1>4, <1>5 DEF Next

LEMMA InitTold == Init => ToldInv
<1> SUFFICES ASSUME Init PROVE ToldInv
  OBVIOUS
<1>1. bus = <<>> /\ \A p \in Paths : told[p] = "none"
  BY DEF Init
<1> QED
  BY <1>1, ToldNothing DEF ToldInv, ToldLater

\* Whatever the table says, once the queue is drained the application believes no
\* device connected that is gone, except one whose end fell between the matches, and
\* none gone that is exported.
THEOREM TheApplicationKnows == Spec => []CallbacksAreAccurate
<1>1. ToldInv => CallbacksAreAccurate
  <2> SUFFICES ASSUME ToldInv, Quiescent, NEW p \in Paths PROVE ToldTruly(p)
    BY DEF CallbacksAreAccurate, ToldTruly
  <2>1. Len(bus) = 0
    BY EmptySeq DEF Quiescent
  <2>2. ~ LastWord(p)
    BY <2>1 DEF LastWord
  <2> QED
    BY <2>2 DEF ToldInv, Pictured
<1> QED
  BY <1>1, InitIInv, Inductive, InitTold, ToldStep, PTL DEF Spec

\* No device is announced twice without a removal or the end of the service between,
\* unless its end fell between the matches, and none is taken back twice without an
\* announcement or the end of the service between.
THEOREM NoEventTwice == Spec => CallbacksAlternate
<1> DEFINE Alternates ==
      \A p \in Paths :
        /\ hand = NoSig /\ IsAbout(hand', "added", p) => told[p] # "connected" \/ p \in missed
        /\ hand = NoSig /\ IsAbout(hand', "removed", p) => told[p] # "disconnected"
<1>1. ASSUME IInv, ToldInv, [Next]_vars PROVE [Alternates]_vars
  <2> SUFFICES ASSUME NEW p \in Paths, hand = NoSig,
                      IsAbout(hand', "added", p) \/ IsAbout(hand', "removed", p)
               PROVE  /\ IsAbout(hand', "added", p) => told[p] # "connected" \/ p \in missed
                      /\ IsAbout(hand', "removed", p) => told[p] # "disconnected"
    OBVIOUS
  <2>1. hand' # hand
    BY DEF IsAbout, NoSig
  <2>2. HandleAdded \/ HandleRemoved
    <3>1. ~ UNCHANGED vars
      BY <2>1 DEF vars
    <3>2. ~ BlueAlsa
      BY <2>1 DEF BlueAlsa, Export, Withdraw, SetVolume, StopService, StartService,
                  LibraryUnchanged
    <3>3. ~ a2dp_ctl_init
      BY <2>1 DEF a2dp_ctl_init, BeginInit, AddMatch, ListNames, GetPcms, LoadPcm, StartThread,
                  InitFails
    <3>4. ~ (FinishAdded \/ ReadPcmFails \/ FinishRemoved)
      BY <2>1 DEF FinishAdded, ReadPcmFails, FinishRemoved
    <3>5. ~ (HandleProps \/ HandleStart \/ HandleStop)
      BY <2>1 DEF HandleProps, HandleStart, HandleStop
    <3>6. ~ (Wake \/ Sleep \/ ReadAhead)
      BY <2>1 DEF Wake, Sleep, ReadAhead
    <3> QED
      BY <1>1, <3>1, <3>2, <3>3, <3>4, <3>5, <3>6 DEF Next, dbus_thread
  <2>3. bus \in Seq(Signals) /\ bus # <<>> /\ hand' = Head(bus)
    BY <1>1, <2>2, Dispatched DEF HandleAdded, HandleRemoved, IInv, TypeOK
  <2>4. Len(bus) \in Nat \ {0} /\ hand' = bus[1]
    BY <2>3, HeadTailProperties
  <2>5. Concerns(bus[1], p) /\ 1 \in 1 .. Len(bus) /\ \A k \in 1 .. 1 - 1 : FALSE
    BY <2>4 DEF Concerns
  <2>6. IsNews(p)
    BY <1>1 DEF ToldInv
  <2> QED
    BY <2>4, <2>5, <2>6 DEF IsNews, IsAbout
<1> QED
  BY <1>1, InitIInv, Inductive, InitTold, ToldStep, PTL DEF Spec, CallbacksAlternate

\* What init missed it could only miss before get_services, and only with the device
\* announced in the queue; so the list shows that something was amiss.
MissedOrder ==
  /\ missed # {} => "added" \in matched /\ (owner \/ stopped)
  /\ phase \in {"new", "matched", "listed"} => \A p \in missed : AddedFrom(1, p)
  /\ phase \in {"loading", "run"} /\ ~ raced /\ ~ stopped => missed = {}

LEMMA AppendAdded ==
  ASSUME TypeOK, NEW sig \in Signals, Emit(sig), NEW p, AddedFrom(1, p)
  PROVE  AddedFrom(1, p)' /\ "added" \in {bus[j].kind : j \in 1 .. Len(bus)}
<1>1. PICK j \in 1 .. Len(bus) : IsAbout(bus[j], "added", p)
  BY DEF AddedFrom
<1>2. j \in 1 .. Len(bus') /\ bus'[j] = bus[j]
  <2>1. CASE bus' = Append(bus, sig)
    BY <2>1 DEF TypeOK
  <2>2. CASE bus' = bus
    BY <2>2
  <2> QED
    BY <2>1, <2>2, EmitCases
<1>3. \E i \in 1 .. Len(bus') : IsAbout(bus'[i], "added", p)
  BY <1>1, <1>2
<1> QED
  BY <1>1, <1>3 DEF AddedFrom, IsAbout

LEMMA EnvMissed ==
  ASSUME IInv, MissedOrder, BlueAlsa
  PROVE  MissedOrder'
<1>1. ASSUME NEW sig \in Signals, Emit(sig), LibraryUnchanged, raced' = raced,
             stopped => stopped', owner => owner' \/ stopped' \/ "added" \notin matched,
             missed' = missed \/ (missed' = {} /\ missed # {}) \/
               /\ owner' \/ stopped' \/ "added" \notin matched
               /\ matched # Kinds
               /\ \A p \in missed' : p \in missed \/ AddedFrom(1, p)
      PROVE  MissedOrder'
  <2>1. phase' = phase /\ matched' = matched
    BY <1>1 DEF LibraryUnchanged, boot
  <2>2. \A p : AddedFrom(1, p) => AddedFrom(1, p)' /\ "added" \in matched
    <3> TAKE p
    <3>1. AddedFrom(1, p) => AddedFrom(1, p)'
      BY <1>1, AppendAdded DEF IInv
    <3>2. AddedFrom(1, p) => "added" \in matched
      BY DEF AddedFrom, IsAbout, IInv, InitOrder, QueueMatched
    <3> QED
      BY <3>1, <3>2
  <2>3. missed' # {} => "added" \in matched
    BY <1>1, <2>2 DEF MissedOrder
  <2>4. missed' # {} => owner' \/ stopped'
    BY <1>1, <2>3 DEF MissedOrder
  <2>5. phase \in {"new", "matched", "listed"} => \A p \in missed' : AddedFrom(1, p)'
    BY <1>1, <2>2 DEF MissedOrder
  <2>6. phase \in {"loading", "run"} /\ ~ raced /\ ~ stopped' => missed' = {}
    BY <1>1 DEF MissedOrder, IInv, InitOrder
  <2> QED
    BY <1>1, <2>1, <2>3, <2>4, <2>5, <2>6 DEF MissedOrder
<1>s. /\ \A k \in {"added", "removed", "props"} : \A p \in Paths : \A v \in Volumes :
           [kind |-> k, pcm_path |-> p, vol |-> v] \in Signals
      /\ \A k \in {"start", "stop"} : [kind |-> k] \in Signals
      /\ \A p \in Paths : volume[p] \in Volumes
  BY DEF Signals, IInv, TypeOK
<1>2. ASSUME NEW p \in Paths, Export(p) PROVE MissedOrder'
  BY <1>1, <1>2, <1>s DEF Export, hist
<1>3. ASSUME NEW p \in Paths, Withdraw(p) PROVE MissedOrder'
  <2> DEFINE sig == [kind |-> "removed", pcm_path |-> p, vol |-> volume[p]]
  <2>1. sig \in Signals
    BY <1>s
  <2>2. owner
    BY <1>3 DEF Withdraw, IInv, InitOrder
  <2>3. /\ Emit(sig) /\ LibraryUnchanged /\ raced' = raced /\ stopped' = stopped
        /\ owner' = owner
    BY <1>3 DEF Withdraw
  <2>4. CASE AddedFrom(1, p) /\ "removed" \notin matched
    <3>1. missed' = missed \cup {p} /\ matched # Kinds
      BY <1>3, <2>4 DEF Withdraw, Subscribed, Kinds
    <3> HIDE DEF sig
    <3> QED
      BY <1>1, <2>1, <2>2, <2>3, <2>4, <3>1
  <2>5. CASE ~ (AddedFrom(1, p) /\ "removed" \notin matched)
    <3>1. missed' = missed
      BY <1>3, <2>5 DEF Withdraw, Subscribed
    <3> HIDE DEF sig
    <3> QED
      BY <1>1, <2>1, <2>2, <2>3, <3>1
  <2> QED
    BY <2>4, <2>5
<1>4. ASSUME NEW p \in Paths, NEW v \in Volumes, SetVolume(p, v) PROVE MissedOrder'
  BY <1>1, <1>4, <1>s DEF SetVolume, hist
<1>5. CASE StopService
  <2>1. /\ Emit([kind |-> "stop"]) /\ LibraryUnchanged /\ raced' = raced
        /\ stopped => stopped'
        /\ "added" \in matched => stopped'
    BY <1>5 DEF StopService, Subscribed
  <2>2. CASE "stop" \in matched
    <3>1. missed' = missed
      BY <1>5, <2>2 DEF StopService, Subscribed
    <3> QED
      BY <1>1, <1>s, <2>1, <3>1
  <2>3. CASE "stop" \notin matched
    <3>1. /\ matched # Kinds
          /\ \A p \in missed' : p \in missed \/ AddedFrom(1, p)
      BY <1>5, <2>3 DEF StopService, Subscribed, Kinds
    <3> QED
      BY <1>1, <1>s, <2>1, <3>1
  <2> QED
    BY <2>2, <2>3
<1>6. CASE StartService
  BY <1>1, <1>6, <1>s DEF StartService
<1> QED
  BY <1>2, <1>3, <1>4, <1>5, <1>6 DEF BlueAlsa

LEMMA MissedStep == IInv /\ MissedOrder /\ [Next]_vars => MissedOrder'
<1> SUFFICES ASSUME IInv, MissedOrder, [Next]_vars PROVE MissedOrder'
  OBVIOUS
<1>k. ASSUME UNCHANGED <<bus, owner, matched, missed, raced, stopped>>,
             phase' = phase \/ (phase = "new" /\ phase' = "matched") \/
             (phase = "matched" /\ phase' = "listed") \/ (phase = "loading" /\ phase' = "run")
      PROVE  MissedOrder'
  BY <1>k DEF MissedOrder, AddedFrom, IsAbout
<1>d. ASSUME UNCHANGED <<owner, matched, raced, stopped, phase>>, phase = "run",
             missed' \subseteq missed
      PROVE  MissedOrder'
  BY <1>d DEF MissedOrder
<1>1. CASE UNCHANGED vars
  BY <1>1, <1>k DEF vars, env, boot, hist
<1>2. CASE BlueAlsa
  BY <1>2, EnvMissed
<1>3. CASE a2dp_ctl_init
  <2>1. CASE BeginInit
    BY <1>k, <2>1 DEF BeginInit, env, hist
  <2>2. CASE AddMatch
    <3>1. /\ UNCHANGED <<bus, owner, missed, raced, stopped, phase>> /\ matched \subseteq matched'
          /\ phase = "matched"
      BY <2>2 DEF AddMatch, Match, ReadsAhead, env, hist
    <3> QED
      BY <3>1 DEF MissedOrder, AddedFrom, IsAbout
  <2>3. CASE ListNames
    <3>1. /\ UNCHANGED <<bus, owner, matched, missed, raced, stopped>> /\ phase = "matched"
          /\ phase' = IF owner THEN "listed" ELSE "loading"
      BY <2>3 DEF ListNames, ReadsAhead, env, hist
    <3>2. CASE owner
      BY <1>k, <3>1, <3>2
    <3>3. CASE ~ owner
      BY <3>1, <3>3 DEF MissedOrder
    <3> QED
      BY <3>2, <3>3
  <2>4. CASE GetPcms
    <3>1. /\ UNCHANGED <<bus, owner, matched, missed, stopped>> /\ phase = "listed"
          /\ phase' = "loading"
      BY <2>4 DEF GetPcms, ReadsAhead, env
    <3>2. missed # {} => raced'
      BY <2>4, <3>1 DEF GetPcms, MissedOrder, AddedFrom, IsAbout
    <3> QED
      BY <3>1, <3>2 DEF MissedOrder
  <2>5. CASE LoadPcm
    BY <1>k, <2>5 DEF LoadPcm, env
  <2>6. CASE StartThread
    BY <1>k, <2>6 DEF StartThread, env, hist
  <2>7. CASE InitFails
    BY <2>7 DEF InitFails, MissedOrder
  <2> QED
    BY <1>3, <2>1, <2>2, <2>3, <2>4, <2>5, <2>6, <2>7 DEF a2dp_ctl_init
<1>4. CASE dbus_thread
  <2>h. hand.kind \in {"added", "removed"} => phase = "run"
    BY DEF IInv, InitOrder, NoSig
  <2>1. CASE HandleAdded
    BY <1>d, <2>1 DEF HandleAdded, Dispatching, env, boot
  <2>2. CASE HandleRemoved
    <3>1. missed' \subseteq missed /\ phase = "run"
      BY <2>2 DEF HandleRemoved, Dispatching
    <3>2. UNCHANGED <<owner, matched, raced, stopped, phase>>
      BY <2>2 DEF HandleRemoved, env, boot
    <3> QED
      BY <1>d, <3>1, <3>2
  <2>3. CASE HandleProps
    BY <1>d, <2>3 DEF HandleProps, Dispatching, env, boot, hist
  <2>4. CASE HandleStart
    BY <1>d, <2>4 DEF HandleStart, Dispatching, env, boot, hist
  <2>5. CASE HandleStop
    <3>1. missed' \subseteq missed /\ phase = "run"
      BY <2>5 DEF HandleStop, Dispatching
    <3>2. UNCHANGED <<owner, matched, raced, stopped, phase>>
      BY <2>5 DEF HandleStop, env, boot
    <3> QED
      BY <1>d, <3>1, <3>2
  <2>6. CASE FinishAdded
    BY <1>d, <2>h, <2>6 DEF FinishAdded, env, boot
  <2>7. CASE ReadPcmFails
    BY <1>d, <2>h, <2>7 DEF ReadPcmFails, env, boot
  <2>8. CASE FinishRemoved
    BY <1>d, <2>h, <2>8 DEF FinishRemoved, env, boot
  <2>9. ASSUME Wake \/ Sleep PROVE MissedOrder'
    BY <1>k, <2>9 DEF Wake, Sleep, env, boot, hist
  <2> QED
    BY <1>4, <2>1, <2>2, <2>3, <2>4, <2>5, <2>6, <2>7, <2>8, <2>9 DEF dbus_thread
<1>5. CASE ReadAhead
  BY <1>k, <1>5 DEF ReadAhead, env, boot, hist
<1> QED
  BY <1>1, <1>2, <1>3, <1>4, <1>5 DEF Next

LEMMA InitMissed == Init => MissedOrder
  BY DEF Init, MissedOrder

-----------------------------------------------------------------------------
(* The table of a clean run *)

OnItsWay(p) == p \in Connected \/ InSnap(p)

\* p will be in the table when the signal in hand has been dealt with.
Expected(p) ==
  IF IsAbout(hand, "added", p) THEN TRUE
  ELSE ~ IsAbout(hand, "removed", p) /\ OnItsWay(p)

\* The first queued signal about p adds it only if it is not in the table.
AddsOnce(p) ==
  \A j \in 1 .. Len(bus) :
    /\ IsAbout(bus[j], "added", p) /\ \A k \in 1 .. j - 1 : ~ Concerns(bus[k], p)
    => ~ Expected(p)

\* With no signal about p in the queue, the table is right to have it.
Settled(p) == Expected(p) /\ SilentFrom(1, p) => p \in exported

SnapIsNew ==
  /\ \A i, j \in 1 .. Len(snap) : snap[i].pcm_path = snap[j].pcm_path => i = j
  /\ \A i \in 1 .. Len(snap) : snap[i].pcm_path \notin Connected

Faithful ==
  /\ OneEntryPerPcm /\ SnapIsNew /\ Connected \subseteq Paths
  /\ hand.kind = "added" => hand.pcm_path \notin Connected
  /\ \A p \in Paths : AddsOnce(p) /\ Settled(p)

\* Before the list was taken there is no entry; a stop in the queue was a stop of the
\* service.
TableOrder ==
  /\ phase \in {"new", "matched", "listed"} => Connected = {}
  /\ \A i \in 1 .. Len(bus) : bus[i].kind = "stop" => stopped

TableInv == TableOrder /\ (CleanRun => Faithful)

\* add_pcm of a PCM that has no entry gives it at most one and leaves the others.
LEMMA AddPcmClean ==
  ASSUME TypeOK, OneEntryPerPcm, NEW pcm, AddPcm(pcm), ~ smashed',
         pcm.pcm_path \notin Connected
  PROVE  OneEntryPerPcm' /\ Connected' \subseteq Connected \cup {pcm.pcm_path}
<1>1. ASSUME NEW idx, NEW S, S = Indices', idx \in S,
             pcms'[idx].pcm_path = pcm.pcm_path,
             \A j \in S : j # idx /\ pcms'[j].connect_flag =>
               /\ j \in Indices /\ pcms[j].connect_flag
               /\ pcms'[j].pcm_path = pcms[j].pcm_path
      PROVE  OneEntryPerPcm' /\ Connected' \subseteq Connected \cup {pcm.pcm_path}
  <2>1. \A j \in S : j # idx /\ pcms'[j].connect_flag =>
          pcms'[j].pcm_path \in Connected /\ pcms'[j].pcm_path # pcm.pcm_path
    BY <1>1 DEF Connected
  <2>2. Connected' \subseteq Connected \cup {pcm.pcm_path}
    BY <1>1, <2>1 DEF Connected
  <2>3. ASSUME NEW i \in S, NEW j \in S, pcms'[i].connect_flag, pcms'[j].connect_flag,
               pcms'[i].pcm_path = pcms'[j].pcm_path
        PROVE  i = j
    <3>1. CASE i = idx \/ j = idx
      BY <1>1, <2>1, <2>3, <3>1
    <3>2. CASE i # idx /\ j # idx
      <4>1. /\ i \in Indices /\ pcms[i].connect_flag
            /\ j \in Indices /\ pcms[j].connect_flag
            /\ pcms[i].pcm_path = pcms[j].pcm_path
        BY <1>1, <2>3, <3>2
      <4> QED
        BY <4>1 DEF OneEntryPerPcm
    <3> QED
      BY <3>1, <3>2
  <2>4. OneEntryPerPcm'
    BY <1>1, <2>3 DEF OneEntryPerPcm
  <2> QED
    BY <2>2, <2>4
<1>2. ASSUME NEW s \in Stray, UseFreeSlot(pcm, s)
      PROVE  OneEntryPerPcm' /\ Connected' \subseteq Connected \cup {pcm.pcm_path}
  <2>1. PICK idx \in Indices :
          /\ pcms' = [j \in Indices |->
                 CASE j = idx     -> Entry(pcm)
                   [] j = idx + 1 -> [pcms[j] EXCEPT !.connect_flag = StrayFlag(s, @)]
                   [] OTHER       -> pcms[j]]
          /\ smashed' = (smashed \/ (idx + 1 \in Indices
                     /\ pcms'[idx + 1].connect_flag # pcms[idx + 1].connect_flag))
          /\ UNCHANGED max_alloc_num
    BY <1>2 DEF UseFreeSlot, PutAt
  <2>2. Indices' = Indices
    BY <2>1 DEF Indices
  <2>3. pcms'[idx].pcm_path = pcm.pcm_path
    <3>1. pcms'[idx] = Entry(pcm)
      BY <2>1 DEF Indices
    <3> QED
      BY <3>1 DEF Entry
  <2>4. ASSUME NEW j \in Indices, j # idx, pcms'[j].connect_flag
        PROVE  pcms[j].connect_flag /\ pcms'[j].pcm_path = pcms[j].pcm_path
    <3>1. CASE j = idx + 1
      <4>1. pcms'[j].connect_flag = pcms[j].connect_flag
        BY <2>1, <3>1
      <4>2. pcms'[j] = [pcms[j] EXCEPT !.connect_flag = StrayFlag(s, @)]
        BY <2>1, <3>1
      <4>3. pcms[j] \in Slots
        BY DEF TypeOK
      <4> QED
        BY <2>4, <4>1, <4>2, <4>3 DEF Slots
    <3>2. CASE j # idx + 1
      BY <2>1, <2>4, <3>2
    <3> QED
      BY <3>1, <3>2
  <2> QED
    BY <1>1, <2>2, <2>3, <2>4
<1>3. ASSUME NEW s \in Stray, GrowTable(pcm, s)
      PROVE  OneEntryPerPcm' /\ Connected' \subseteq Connected \cup {pcm.pcm_path}
  <2>1. max_alloc_num \in Nat /\ max_alloc_num' = max_alloc_num + 2
    BY <1>3 DEF GrowTable, TypeOK
  <2>2. Indices' = 0 .. max_alloc_num + 1 /\ Indices = 0 .. max_alloc_num - 1
    BY <2>1 DEF Indices
  <2>3. ~ StrayFlag(s, FALSE)
    BY <1>3 DEF GrowTable
  <2>4. pcms' = [j \in 0 .. max_alloc_num + 1 |->
                   CASE j < max_alloc_num -> pcms[j]
                     [] j = max_alloc_num -> Entry(pcm)
                     [] OTHER             -> Blank(StrayFlag(s, FALSE))]
    BY <1>3 DEF GrowTable
  <2>5. max_alloc_num \in Indices' /\ pcms'[max_alloc_num].pcm_path = pcm.pcm_path
    BY <2>1, <2>2, <2>4 DEF Entry
  <2>6. ASSUME NEW j \in 0 .. max_alloc_num + 1, j # max_alloc_num, pcms'[j].connect_flag
        PROVE  /\ j \in Indices /\ pcms[j].connect_flag
               /\ pcms'[j].pcm_path = pcms[j].pcm_path
    <3>1. CASE j < max_alloc_num
      <4>1. j \in Indices
        BY <2>1, <2>2, <3>1
      <4>2. j < max_alloc_num /\ j # max_alloc_num
        BY <3>1, <2>1
      <4>3. pcms'[j] = pcms[j]
        BY <2>4, <4>2
      <4> QED
        BY <2>6, <4>1, <4>3
    <3>2. CASE ~ (j < max_alloc_num)
      <4>1. pcms'[j] = Blank(StrayFlag(s, FALSE))
        BY <2>4, <2>6, <3>2
      <4>2. Blank(StrayFlag(s, FALSE)).connect_flag = StrayFlag(s, FALSE)
        BY DEF Blank
      <4> QED
        BY <2>3, <2>6, <4>1, <4>2
    <3> QED
      BY <3>1, <3>2
  <2> QED
    BY <1>1, <2>2, <2>5, <2>6
<1>4. CASE GrowFails(pcm)
  BY <1>4 DEF GrowFails, tbl, OneEntryPerPcm, Connected, Indices
<1> QED
  BY <1>2, <1>3, <1>4 DEF AddPcm

\* remove_pcm of a PCM with one entry leaves none.
LEMMA RemovePcmClean ==
  ASSUME TypeOK, OneEntryPerPcm, NEW p, RemovePcm(p)
  PROVE  OneEntryPerPcm' /\ Connected' \subseteq Connected \ {p}
<1>1. Indices' = Indices
  BY DEF RemovePcm, Indices
<1>2. ASSUME NEW i \in Indices, pcms'[i].connect_flag
      PROVE  pcms[i].connect_flag /\ pcms'[i] = pcms[i] /\ pcms[i].pcm_path # p
  <2>1. pcms[i] \in Slots
    BY DEF TypeOK
  <2>2. ~ FirstMatch(p, i)
    BY <1>2, <2>1 DEF RemovePcm, Slots
  <2>3. pcms'[i] = pcms[i]
    BY <2>2 DEF RemovePcm
  <2>4. ~ (pcms[i].connect_flag /\ pcms[i].pcm_path = p)
    <3> SUFFICES ASSUME pcms[i].connect_flag, pcms[i].pcm_path = p PROVE FALSE
      OBVIOUS
    <3>1. \A j \in Indices : j < i => ~ (pcms[j].connect_flag /\ pcms[j].pcm_path = p)
      BY DEF OneEntryPerPcm, Indices
    <3> QED
      BY <2>2, <3>1 DEF FirstMatch
  <2> QED
    BY <1>2, <2>3, <2>4
<1>3. OneEntryPerPcm'
  BY <1>1, <1>2 DEF OneEntryPerPcm
<1>4. Connected' \subseteq Connected \ {p}
  BY <1>1, <1>2 DEF Connected
<1> QED
  BY <1>3, <1>4

\* A signal at the end of the queue that adds p finds it not expected.
LEMMA AppendTable ==
  ASSUME bus \in Seq(Signals), NEW sig \in Signals, bus' = Append(bus, sig),
         UNCHANGED <<hand, snap, max_alloc_num, pcms>>,
         NEW p, AddsOnce(p), Settled(p), SpeaksTruly(sig, p)
  PROVE  AddsOnce(p)' /\ Settled(p)'
<1> DEFINE n == Len(bus)
<1>1. n \in Nat /\ Len(bus') = n + 1
  OBVIOUS
<1>2. \A i \in 1 .. n : bus'[i] = bus[i]
  OBVIOUS
<1>3. bus'[n + 1] = sig
  OBVIOUS
<1> HIDE DEF n
<1>4. Expected(p)' <=> Expected(p)
  BY DEF Expected, IsAbout, OnItsWay, Connected, Indices, InSnap
<1>5. AddsOnce(p)'
  <2> SUFFICES ASSUME NEW j \in 1 .. n + 1, IsAbout(bus'[j], "added", p),
                      \A k \in 1 .. j - 1 : ~ Concerns(bus'[k], p)
               PROVE  ~ Expected(p)
    BY <1>1, <1>4 DEF AddsOnce, Concerns, IsAbout
  <2>1. \A k \in 1 .. j - 1 : k \in 1 .. n
    BY <1>1
  <2>2. \A k \in 1 .. j - 1 : ~ Concerns(bus[k], p)
    BY <1>2, <2>1
  <2>3. CASE j # n + 1
    <3>1. j \in 1 .. n
      BY <1>1, <2>3
    <3>2. bus'[j] = bus[j]
      BY <1>2, <3>1
    <3> QED
      BY <2>2, <3>1, <3>2 DEF AddsOnce, n
  <2>4. CASE j = n + 1
    <3>1. IsAbout(sig, "added", p)
      BY <1>3, <2>4
    <3>2. SilentFrom(1, p)
      BY <1>1, <2>2, <2>4 DEF SilentFrom, n
    <3>3. p \notin exported
      BY <3>1 DEF SpeaksTruly, Concerns, IsAbout
    <3> QED
      BY <3>2, <3>3 DEF Settled
  <2> QED
    BY <2>3, <2>4
<1>6. Settled(p)'
  <2> SUFFICES ASSUME Expected(p)', SilentFrom(1, p)' PROVE p \in exported'
    BY DEF Settled
  <2>1. \A j \in 1 .. n + 1 : ~ Concerns(bus'[j], p)
    BY <1>1 DEF SilentFrom, Concerns, IsAbout
  <2>2. ~ Concerns(sig, p)
    BY <1>1, <1>3, <2>1
  <2>3. SilentFrom(1, p)
    BY <1>1, <1>2, <2>1 DEF SilentFrom, n
  <2> QED
    BY <1>4, <2>2, <2>3 DEF Settled, SpeaksTruly, Concerns
<1> QED
  BY <1>5, <1>6

\* The first signal leaves the queue and is not about p.
LEMMA TakeTable ==
  ASSUME bus \in Seq(Signals), bus # <<>>, bus' = Tail(bus), exported' = exported,
         NEW p, AddsOnce(p), Settled(p), ~ Concerns(Head(bus), p),
         Expected(p)' <=> Expected(p)
  PROVE  AddsOnce(p)' /\ Settled(p)'
<1> DEFINE n == Len(bus)
<1>1. n \in Nat \ {0} /\ Len(bus') = n - 1 /\ Head(bus) = bus[1]
  BY HeadTailProperties
<1>2. \A i \in 1 .. n - 1 : bus'[i] = bus[i + 1]
  BY <1>1, HeadTailProperties
<1> HIDE DEF n
<1>3. ASSUME NEW j \in 1 .. n, \A k \in 1 .. j - 1 : ~ Concerns(bus'[k], p)
      PROVE  \A k \in 1 .. j : ~ Concerns(bus[k], p)
  <2> SUFFICES ASSUME NEW k \in 1 .. j, k # 1 PROVE ~ Concerns(bus[k], p)
    BY <1>1
  <2>1. k - 1 \in 1 .. j - 1 /\ k - 1 \in 1 .. n - 1 /\ (k - 1) + 1 = k
    BY <1>1
  <2> QED
    BY <1>2, <1>3, <2>1
<1>4. AddsOnce(p)'
  <2> SUFFICES ASSUME NEW j \in 1 .. n - 1, IsAbout(bus'[j], "added", p),
                      \A k \in 1 .. j - 1 : ~ Concerns(bus'[k], p)
               PROVE  ~ Expected(p)
    BY <1>1 DEF AddsOnce, Concerns, IsAbout
  <2>1. j \in 1 .. n /\ j + 1 \in 1 .. n /\ (j + 1) - 1 = j /\ bus'[j] = bus[j + 1]
    BY <1>1, <1>2
  <2>2. \A k \in 1 .. (j + 1) - 1 : ~ Concerns(bus[k], p)
    BY <1>3, <2>1
  <2> QED
    BY <2>1, <2>2 DEF AddsOnce, n
<1>5. Settled(p)'
  <2> SUFFICES ASSUME Expected(p)', SilentFrom(1, p)' PROVE p \in exported
    BY DEF Settled
  <2>1. \A k \in 1 .. n - 1 : ~ Concerns(bus'[k], p)
    BY <1>1 DEF SilentFrom, Concerns, IsAbout
  <2>2. n \in 1 .. n
    BY <1>1
  <2>3. \A k \in 1 .. n : ~ Concerns(bus[k], p)
    BY <1>3, <2>1, <2>2
  <2> QED
    BY <2>3 DEF Settled, SilentFrom, n
<1> QED
  BY <1>4, <1>5

\* Without an entry, a list to load or a signal in hand there is nothing to be wrong
\* after a step.
LEMMA NothingYet ==
  ASSUME Connected' = {}, snap' = <<>>, hand' = NoSig
  PROVE  Faithful'
<1>1. Len(snap') = 0
  BY EmptySeq
<1>2. \A p : ~ Expected(p)'
  BY <1>1 DEF Expected, IsAbout, NoSig, OnItsWay, InSnap
<1>3. OneEntryPerPcm'
  BY DEF OneEntryPerPcm, Connected
<1> QED
  BY <1>1, <1>2, <1>3 DEF Faithful, SnapIsNew, AddsOnce, Settled, NoSig

LEMMA EnvTable ==
  ASSUME IInv, TableInv, BlueAlsa
  PROVE  TableInv'
<1>t. bus \in Seq(Signals) /\ (phase = "new" => bus = <<>>) /\ (~ owner => exported = {})
      /\ (phase = "new" => snap = <<>> /\ hand = NoSig)
  BY DEF IInv, TypeOK, InitOrder
<1>1. ASSUME NEW sig \in Signals, Emit(sig), LibraryUnchanged, smashed' = smashed,
             raced' = raced, stopped => stopped',
             sig.kind = "stop" /\ "added" \in matched => stopped',
             ~ stopped' => \A p \in Paths : SpeaksTruly(sig, p)
      PROVE  TableInv'
  <2>1. /\ phase' = phase /\ snap' = snap /\ hand' = hand
        /\ max_alloc_num' = max_alloc_num /\ pcms' = pcms
    BY <1>1 DEF LibraryUnchanged, boot, tbl
  <2>2. Connected' = Connected
    BY <2>1 DEF Connected, Indices
  <2>3. CASE sig.kind \notin matched
    <3>1. bus' = bus
      BY <1>1, <2>3, EmitCases
    <3>2. sig.kind \in Kinds
      BY <1>1 DEF Signals, Kinds
    <3>3. phase \in {"new", "matched", "listed"} /\ snap = <<>> /\ hand = NoSig
      BY <2>3, <3>2 DEF IInv, InitOrder, TypeOK
    <3>4. Connected' = {}
      BY <2>2, <3>3 DEF TableInv, TableOrder
    <3>5. Faithful'
      BY <2>1, <3>3, <3>4, NothingYet
    <3>6. TableOrder'
      BY <1>1, <2>1, <2>2, <3>1 DEF TableInv, TableOrder
    <3> QED
      BY <3>5, <3>6 DEF TableInv
  <2>4. CASE sig.kind \in matched
    <3>1. bus' = Append(bus, sig)
      BY <1>1, <2>4, EmitCases
    <3>2. TableOrder'
      <4>1. \A i \in 1 .. Len(bus') : bus'[i].kind = "stop" => stopped'
        <5>1. Len(bus) \in Nat /\ Len(bus') = Len(bus) + 1 /\ bus'[Len(bus) + 1] = sig
          BY <1>t, <3>1
        <5>2. \A i \in 1 .. Len(bus) : bus'[i] = bus[i]
          BY <1>t, <3>1
        <5>3. sig.kind = "stop" => stopped'
          BY <1>1, <2>4 DEF IInv, InitOrder, Stages, Kinds
        <5> QED
          BY <1>1, <5>1, <5>2, <5>3 DEF TableInv, TableOrder
      <4> QED
        BY <2>1, <2>2, <4>1 DEF TableInv, TableOrder
    <3>3. ASSUME CleanRun' PROVE Faithful'
      <4>1. Faithful /\ ~ stopped'
        BY <1>1, <3>3 DEF CleanRun, TableInv
      <4>2. ASSUME NEW p \in Paths PROVE AddsOnce(p)' /\ Settled(p)'
        BY <1>1, <1>t, <2>1, <2>4, <3>1, <4>1, AppendTable DEF Faithful
      <4>3. OneEntryPerPcm' /\ SnapIsNew'
        BY <2>1, <2>2, <4>1 DEF Faithful, OneEntryPerPcm, Indices, SnapIsNew
      <4> QED
        BY <2>1, <2>2, <4>1, <4>2, <4>3 DEF Faithful
    <3> QED
      BY <3>2, <3>3 DEF TableInv
  <2> QED
    BY <2>3, <2>4
<1>2. ASSUME NEW q \in Paths, Export(q) PROVE TableInv'
  <2> DEFINE sig == [kind |-> "added", pcm_path |-> q, vol |-> volume[q]]
  <2>1. sig \in Signals
    BY DEF IInv, TypeOK, Signals
  <2>2. ASSUME NEW p \in Paths PROVE SpeaksTruly(sig, p)
    BY <1>2 DEF Export, SpeaksTruly, Concerns, IsAbout
  <2> QED
    BY <1>1, <1>2, <2>1, <2>2 DEF Export, hist
<1>3. ASSUME NEW q \in Paths, Withdraw(q) PROVE TableInv'
  <2> DEFINE sig == [kind |-> "removed", pcm_path |-> q, vol |-> volume[q]]
  <2>1. sig \in Signals
    BY DEF IInv, TypeOK, Signals
  <2>2. ASSUME NEW p \in Paths PROVE SpeaksTruly(sig, p)
    BY <1>3 DEF Withdraw, SpeaksTruly, Concerns, IsAbout
  <2> QED
    BY <1>1, <1>3, <2>1, <2>2 DEF Withdraw
<1>4. ASSUME NEW q \in Paths, NEW v \in Volumes, SetVolume(q, v) PROVE TableInv'
  <2> DEFINE sig == [kind |-> "props", pcm_path |-> q, vol |-> v]
  <2>1. sig \in Signals
    BY DEF Signals
  <2>2. ASSUME NEW p \in Paths PROVE SpeaksTruly(sig, p)
    BY <1>4 DEF SetVolume, SpeaksTruly, Concerns, IsAbout
  <2> QED
    BY <1>1, <1>4, <2>1, <2>2 DEF SetVolume, hist
<1>5. CASE StopService
  <2> DEFINE sig == [kind |-> "stop"]
  <2>1. sig \in Signals
    BY DEF Signals
  <2>2. /\ Emit(sig) /\ LibraryUnchanged /\ exported' = {}
        /\ stopped' = (stopped \/ "added" \in matched)
        /\ smashed' = smashed /\ raced' = raced
    BY <1>5 DEF StopService, Subscribed
  <2>3. stopped => stopped'
    BY <2>2
  <2>4. "added" \in matched => stopped'
    BY <2>2
  <2>5. \A p \in Paths : SpeaksTruly(sig, p)
    BY <2>2 DEF SpeaksTruly
  <2> HIDE DEF sig
  <2> QED
    BY <1>1, <2>1, <2>2, <2>3, <2>4, <2>5
<1>6. CASE StartService
  <2> DEFINE sig == [kind |-> "start"]
  <2>1. sig \in Signals
    BY DEF Signals
  <2>2. ASSUME NEW p \in Paths PROVE SpeaksTruly(sig, p)
    BY <1>6 DEF StartService, SpeaksTruly, Concerns, IsAbout
  <2> QED
    BY <1>1, <1>6, <2>1, <2>2 DEF StartService
<1> QED
  BY <1>2, <1>3, <1>4, <1>5, <1>6 DEF BlueAlsa

\* The list of PCMs names none twice.
LEMMA SnapshotDistinct ==
  ASSUME TypeOK, NEW s \in SetToSeqs(exported)
  PROVE  \A i, j \in DOMAIN s : s[i] = s[j] => i = j
<1> DEFINE n == Cardinality(exported)
<1>1. s \in [1 .. n -> exported] /\ \A i, j \in 1 .. n : i # j => s[i] # s[j]
  BY DEF SetToSeqs
<1> HIDE DEF n
<1> QED
  BY <1>1

LEMMA InitStepsTable ==
  ASSUME IInv, TableInv, a2dp_ctl_init
  PROVE  TableInv'
<1>t. /\ phase # "loading" => snap = <<>>
      /\ phase # "run" => hand = NoSig
      /\ phase = "new" => bus = <<>>
  BY DEF IInv, InitOrder
<1>e. ASSUME Connected' = {}, snap' = <<>>, hand' = NoSig,
             bus' = <<>> \/ (bus' = bus /\ stopped' = stopped)
      PROVE  TableInv'
  <2>1. Faithful'
    BY <1>e, NothingYet
  <2>2. \A i \in 1 .. Len(bus') : bus'[i].kind = "stop" => stopped'
    <3>1. CASE bus' = <<>>
      <4>1. Len(bus') = 0
        BY <3>1, EmptySeq
      <4> QED
        BY <4>1
    <3>2. CASE bus' = bus /\ stopped' = stopped
      BY <3>2 DEF TableInv, TableOrder
    <3> QED
      BY <1>e, <3>1, <3>2
  <2> QED
    BY <1>e, <2>1, <2>2 DEF TableInv, TableOrder
<1>1. CASE BeginInit
  <2>1. \A i \in Indices' : ~ pcms'[i].connect_flag
    BY <1>1 DEF BeginInit, Indices, Blank
  <2>2. Connected' = {}
    BY <2>1 DEF Connected
  <2> QED
    BY <1>1, <1>e, <1>t, <2>2 DEF BeginInit, hist
<1>2. CASE ListNames
  <2>1. Connected' = {}
    BY <1>2 DEF ListNames, tbl, Connected, Indices, TableInv, TableOrder
  <2> QED
    BY <1>2, <1>e, <1>t, <2>1 DEF ListNames, ReadsAhead, hist
<1>7. CASE AddMatch
  <2>1. Connected' = {}
    BY <1>7 DEF AddMatch, tbl, Connected, Indices, TableInv, TableOrder
  <2> QED
    BY <1>7, <1>e, <1>t, <2>1 DEF AddMatch, ReadsAhead, hist
<1>3. CASE GetPcms
  <2>1. /\ phase' = "loading" /\ bus' = bus /\ stopped' = stopped /\ hand' = NoSig
        /\ exported' = exported /\ max_alloc_num' = max_alloc_num /\ pcms' = pcms
    BY <1>3, <1>t DEF GetPcms, ReadsAhead, env, tbl
  <2>2. Connected' = {}
    BY <1>3, <2>1 DEF GetPcms, Connected, Indices, TableInv, TableOrder
  <2>3. TableOrder'
    BY <2>1, <2>2 DEF TableInv, TableOrder
  <2>4. PICK s \in SetToSeqs(exported) :
          snap' = [i \in DOMAIN s |-> [pcm_path |-> s[i], vol |-> volume[s[i]]]]
    BY <1>3 DEF GetPcms
  <2>5. TypeOK
    BY DEF IInv
  <2>6. 1 .. Len(snap') = DOMAIN s
    <3>1. snap' \in Seq(Pcm)
      BY <2>4, <2>5, SnapshotType
    <3> QED
      BY <2>4, <3>1, LenProperties
  <2>7. s \in [1 .. Cardinality(exported) -> exported]
    BY DEF SetToSeqs
  <2>8. \A i \in DOMAIN s : s[i] \in exported /\ snap'[i].pcm_path = s[i]
    BY <2>4, <2>7
  <2>9. SnapIsNew'
    BY <2>2, <2>5, <2>6, <2>8, SnapshotDistinct DEF SnapIsNew
  <2>10. \A p : Expected(p)' => p \in exported
    BY <2>1, <2>2, <2>6, <2>8 DEF Expected, IsAbout, NoSig, OnItsWay, InSnap
  <2>11. OneEntryPerPcm'
    BY <2>2 DEF OneEntryPerPcm, Connected
  <2>12. ASSUME CleanRun' PROVE Faithful'
    <3>1. \A i \in 1 .. Len(bus) : bus[i].kind \notin {"added", "removed"}
      BY <1>3, <2>12 DEF GetPcms, CleanRun
    <3>2. \A p : AddsOnce(p)' /\ Settled(p)'
      BY <2>1, <2>10, <3>1 DEF AddsOnce, Settled, IsAbout
    <3> QED
      BY <2>1, <2>2, <2>9, <2>11, <3>2 DEF Faithful, NoSig
  <2> QED
    BY <2>3, <2>12 DEF TableInv
<1>4. CASE LoadPcm
  <2>1. /\ phase = "loading" /\ snap # <<>> /\ snap' = Tail(snap) /\ AddPcm(Head(snap))
        /\ phase' = phase /\ bus' = bus /\ hand' = hand /\ hand = NoSig
        /\ exported' = exported /\ raced' = raced /\ stopped' = stopped
    BY <1>4, <1>t DEF LoadPcm, env
  <2>2. TableOrder'
    BY <2>1 DEF TableInv, TableOrder
  <2>3. ASSUME CleanRun' PROVE Faithful'
    <3>0. ~ smashed' => ~ smashed
      BY <2>1 DEF AddPcm, UseFreeSlot, PutAt, GrowTable, GrowFails
    <3>1. Faithful /\ ~ smashed'
      BY <2>1, <2>3, <3>0 DEF CleanRun, TableInv
    <3> DEFINE h == Head(snap).pcm_path
    <3>2. snap \in Seq(Pcm) /\ TypeOK
      BY DEF IInv, TypeOK
    <3>3. /\ Len(snap) \in Nat \ {0} /\ Len(snap') = Len(snap) - 1
          /\ Head(snap) = snap[1]
          /\ \A j \in 1 .. Len(snap') : snap'[j] = snap[j + 1]
      BY <2>1, <3>2, HeadTailProperties
    <3>4. 1 \in 1 .. Len(snap) /\ h \notin Connected /\ h \in Paths
      <4>1. Head(snap) \in Pcm
        BY <2>1, <3>2, HeadTailProperties
      <4> QED
        BY <3>1, <3>3, <4>1 DEF Faithful, SnapIsNew, Pcm
    <3>5. OneEntryPerPcm' /\ Connected' \subseteq Connected \cup {h}
      BY <2>1, <3>1, <3>2, <3>4, AddPcmClean DEF Faithful
    <3>6. \A j \in 1 .. Len(snap') :
            j + 1 \in 1 .. Len(snap) /\ j + 1 # 1 /\ snap'[j] = snap[j + 1]
      BY <3>3
    <3>7. SnapIsNew'
      <4>1. ASSUME NEW i \in 1 .. Len(snap'), NEW j \in 1 .. Len(snap'),
                   snap'[i].pcm_path = snap'[j].pcm_path
            PROVE  i = j
        <5>1. i + 1 = j + 1
          BY <3>1, <3>6, <4>1 DEF Faithful, SnapIsNew
        <5> QED
          BY <5>1
      <4>2. ASSUME NEW i \in 1 .. Len(snap') PROVE snap'[i].pcm_path \notin Connected'
        <5>1. snap'[i].pcm_path # h
          BY <3>1, <3>3, <3>4, <3>6 DEF Faithful, SnapIsNew
        <5>2. snap'[i].pcm_path \notin Connected
          BY <3>1, <3>6 DEF Faithful, SnapIsNew
        <5> QED
          BY <3>5, <5>1, <5>2
      <4> QED
        BY <4>1, <4>2 DEF SnapIsNew
    <3>8. ASSUME NEW p, Expected(p)' PROVE Expected(p)
      <4>1. OnItsWay(p)'
        BY <2>1, <3>8 DEF Expected, IsAbout, NoSig
      <4>2. InSnap(p)' => InSnap(p)
        BY <3>6 DEF InSnap
      <4>3. InSnap(h)
        BY <3>3, <3>4 DEF InSnap
      <4> QED
        BY <2>1, <3>5, <4>1, <4>2, <4>3 DEF Expected, IsAbout, NoSig, OnItsWay
    <3>9. ASSUME NEW p \in Paths PROVE AddsOnce(p)' /\ Settled(p)'
      BY <2>1, <3>1, <3>8 DEF Faithful, AddsOnce, Settled, SilentFrom, Concerns, IsAbout
    <3> QED
      BY <2>1, <3>1, <3>4, <3>5, <3>7, <3>9 DEF Faithful, NoSig
  <2> QED
    BY <2>2, <2>3 DEF TableInv
<1>5. CASE StartThread
  <2>1. /\ phase = "loading" /\ phase' = "run"
        /\ UNCHANGED <<bus, snap, hand, max_alloc_num, pcms, exported, smashed, raced, stopped>>
    BY <1>5 DEF StartThread, env, tbl, hist
  <2>2. ASSUME NEW p, AddsOnce(p), Settled(p) PROVE AddsOnce(p)' /\ Settled(p)'
    <3>1. Expected(p)' <=> Expected(p)
      BY <2>1 DEF Expected, IsAbout, OnItsWay, Connected, Indices, InSnap
    <3>2. AddsOnce(p)'
      BY <2>1, <2>2, <3>1 DEF AddsOnce, Concerns, IsAbout
    <3>3. Settled(p)'
      BY <2>1, <2>2, <3>1 DEF Settled, SilentFrom, Concerns, IsAbout
    <3> QED
      BY <3>2, <3>3
  <2>3. Faithful => Faithful'
    BY <2>1, <2>2 DEF Faithful, SnapIsNew, OneEntryPerPcm, Connected, Indices
  <2> QED
    BY <2>1, <2>3 DEF TableInv, TableOrder, CleanRun
<1>6. CASE InitFails
  <2>1. bus' = <<>> /\ snap' = <<>> /\ hand' = NoSig
    BY <1>6, <1>t DEF InitFails
  <2>2. Connected' = {}
    BY <1>6 DEF InitFails, Connected, Indices
  <2> QED
    BY <1>e, <2>1, <2>2
<1> QED
  BY <1>1, <1>2, <1>3, <1>4, <1>5, <1>6, <1>7 DEF a2dp_ctl_init

\* The signal in hand is dealt with and leaves at most what was expected.
LEMMA HandTable ==
  ASSUME Faithful, snap = <<>>, hand' = NoSig, OneEntryPerPcm',
         Connected' \subseteq Paths, UNCHANGED <<bus, exported, snap>>,
         \A p \in Connected' : Expected(p)
  PROVE  Faithful'
<1>1. Len(snap) = 0
  BY EmptySeq
<1>2. \A p : Expected(p)' => Expected(p)
  BY <1>1 DEF Expected, IsAbout, NoSig, OnItsWay, InSnap
<1>3. ASSUME NEW p \in Paths PROVE AddsOnce(p)' /\ Settled(p)'
  <2>1. AddsOnce(p)'
    BY <1>2 DEF Faithful, AddsOnce, Concerns, IsAbout
  <2>2. Settled(p)'
    BY <1>2 DEF Faithful, Settled, SilentFrom, Concerns, IsAbout
  <2> QED
    BY <2>1, <2>2
<1> QED
  BY <1>1, <1>3 DEF Faithful, SnapIsNew, NoSig

LEMMA DispatchTable ==
  ASSUME IInv, ToldInv, ToldInv', MissedOrder', TableInv, dbus_thread, ~ (Wake \/ Sleep)
  PROVE  TableInv'
<1>t. TypeOK /\ bus \in Seq(Signals)
  BY DEF IInv, TypeOK
<1>r. hand.kind \in {"added", "removed"} => phase = "run" /\ snap = <<>>
  BY DEF IInv, InitOrder, NoSig
<1>d. ASSUME NEW k, Dispatching(k),
             UNCHANGED <<exported, phase, snap, max_alloc_num, pcms, smashed, raced, stopped>>
      PROVE  /\ phase = "run" /\ snap = <<>> /\ hand = NoSig
             /\ bus # <<>> /\ bus' = Tail(bus) /\ Head(bus) = bus[1] /\ bus[1].kind = k
             /\ 1 \in 1 .. Len(bus) /\ bus[1] \in Signals
             /\ Connected' = Connected
             /\ TableOrder'
  <2>1. phase = "run" /\ snap = <<>> /\ hand = NoSig /\ bus # <<>> /\ bus' = Tail(bus)
    BY <1>d, <1>t, Dispatched DEF IInv, InitOrder
  <2>2. /\ Len(bus) \in Nat \ {0} /\ Len(bus') = Len(bus) - 1 /\ Head(bus) = bus[1]
        /\ \A j \in 1 .. Len(bus') : bus'[j] = bus[j + 1]
    BY <1>t, <2>1, HeadTailProperties
  <2>3. \A j \in 1 .. Len(bus') : j + 1 \in 1 .. Len(bus)
    BY <2>2
  <2>4. Connected' = Connected
    BY <1>d DEF Connected, Indices
  <2>5. TableOrder'
    BY <1>d, <2>1, <2>2, <2>3 DEF TableInv, TableOrder
  <2>6. 1 \in 1 .. Len(bus) /\ bus[1] \in Signals
    BY <1>t, <2>2
  <2> QED
    BY <1>d, <2>1, <2>2, <2>4, <2>5, <2>6 DEF Dispatching
<1>s. ASSUME NEW k, Dispatching(k), Faithful,
             UNCHANGED <<exported, phase, snap, max_alloc_num, pcms, smashed, raced, stopped>>,
             NEW p \in Paths, ~ Concerns(Head(bus), p),
             hand' = Head(bus) \/ hand' = NoSig
      PROVE  AddsOnce(p)' /\ Settled(p)'
  <2>1. /\ hand = NoSig /\ bus # <<>> /\ bus' = Tail(bus) /\ Connected' = Connected
    BY <1>d, <1>s
  <2>2. OnItsWay(p)' <=> OnItsWay(p)
    BY <1>s, <2>1 DEF OnItsWay, InSnap
  <2>3. Expected(p)' <=> Expected(p)
    BY <1>s, <2>1, <2>2 DEF Expected, Concerns, IsAbout, NoSig
  <2> QED
    BY <1>s, <1>t, <2>1, <2>3, TakeTable DEF Faithful
<1>f. ASSUME NEW k, Dispatching(k), Faithful,
             UNCHANGED <<exported, phase, snap, max_alloc_num, pcms, smashed, raced, stopped>>
      PROVE  OneEntryPerPcm' /\ SnapIsNew' /\ Connected' \subseteq Paths
  BY <1>d, <1>f DEF Faithful, OneEntryPerPcm, Indices, SnapIsNew
<1>1. CASE HandleAdded
  <2>1. /\ Dispatching("added") /\ hand' = Head(bus)
        /\ UNCHANGED <<exported, phase, snap, max_alloc_num, pcms, smashed, raced, stopped>>
        /\ told' = [told EXCEPT ![Head(bus).pcm_path] = "connected"]
    BY <1>1 DEF HandleAdded, env, boot, tbl
  <2>2. PICK q \in Paths : q = Head(bus).pcm_path /\ Head(bus).kind = "added"
    BY <1>d, <2>1, PcmSignal
  <2>3. ASSUME CleanRun' PROVE Faithful'
    <3>1. Faithful
      BY <2>1, <2>3 DEF CleanRun, TableInv
    <3>m. missed' = {}
      BY <1>d, <2>1, <2>3 DEF CleanRun, MissedOrder
    <3>2. ~ Expected(q)
      <4>1. /\ 1 \in 1 .. Len(bus) /\ bus[1] = Head(bus)
            /\ \A k \in 1 .. 1 - 1 : ~ Concerns(bus[k], q)
        BY <1>d, <2>1
      <4>2. IsAbout(bus[1], "added", q)
        BY <2>2, <4>1 DEF IsAbout
      <4> QED
        BY <2>2, <3>1, <4>1, <4>2 DEF Faithful, AddsOnce
    <3>3. q \notin Connected'
      BY <1>d, <2>1, <3>2 DEF Expected, OnItsWay, IsAbout, NoSig
    <3>4. AddsOnce(q)'
      <4> SUFFICES ASSUME NEW j \in 1 .. Len(bus'), IsAbout(bus'[j], "added", q),
                          \A k \in 1 .. j - 1 : ~ Concerns(bus'[k], q)
                   PROVE  FALSE
        BY DEF AddsOnce, Concerns, IsAbout
      <4>1. told'[q] = "connected"
        BY <1>t, <2>1, <2>2 DEF TypeOK
      <4>2. Concerns(bus'[j], q) /\ bus'[j].kind = "added"
        BY DEF Concerns, IsAbout
      <4>3. IsNews(q)'
        BY <2>2 DEF ToldInv
      <4> QED
        BY <3>m, <4>1, <4>2, <4>3 DEF IsNews, Concerns, IsAbout
    <3>5. Settled(q)'
      <4> SUFFICES ASSUME SilentFrom(1, q)' PROVE q \in exported
        BY <2>1 DEF Settled
      <4>1. told'[q] = "connected"
        BY <1>t, <2>1, <2>2 DEF TypeOK
      <4>2. ~ LastWord(q)'
        BY DEF LastWord, SilentFrom, Concerns, IsAbout
      <4>3. Pictured(q)'
        BY <2>2 DEF ToldInv
      <4> QED
        BY <2>1, <3>m, <4>1, <4>2, <4>3 DEF Pictured, ToldTruly
    <3>6. ASSUME NEW p \in Paths PROVE AddsOnce(p)' /\ Settled(p)'
      <4>1. CASE p = q
        BY <3>4, <3>5, <4>1
      <4>2. CASE p # q
        <5>1. ~ Concerns(Head(bus), p)
          BY <2>2, <4>2 DEF Concerns, IsAbout
        <5> QED
          BY <1>s, <2>1, <3>1, <5>1
      <4> QED
        BY <4>1, <4>2
    <3> QED
      BY <1>f, <2>1, <2>2, <3>1, <3>3, <3>6 DEF Faithful
  <2> QED
    BY <1>d, <2>1, <2>3 DEF TableInv
<1>2. CASE HandleRemoved
  <2>1. /\ Dispatching("removed") /\ hand' = Head(bus)
        /\ UNCHANGED <<exported, phase, snap, max_alloc_num, pcms, smashed, raced, stopped>>
    BY <1>2 DEF HandleRemoved, env, boot, tbl
  <2>2. PICK q \in Paths : q = Head(bus).pcm_path /\ Head(bus).kind = "removed"
    BY <1>d, <2>1, PcmSignal
  <2>3. ASSUME CleanRun' PROVE Faithful'
    <3>1. Faithful
      BY <2>1, <2>3 DEF CleanRun, TableInv
    <3>2. ~ Expected(q)'
      BY <2>1, <2>2 DEF Expected, IsAbout
    <3>3. ASSUME NEW p \in Paths PROVE AddsOnce(p)' /\ Settled(p)'
      <4>1. CASE p = q
        BY <3>2, <4>1 DEF AddsOnce, Settled
      <4>2. CASE p # q
        <5>1. ~ Concerns(Head(bus), p)
          BY <2>2, <4>2 DEF Concerns, IsAbout
        <5> QED
          BY <1>s, <2>1, <3>1, <5>1
      <4> QED
        BY <4>1, <4>2
    <3> QED
      BY <1>f, <2>1, <2>2, <3>1, <3>3 DEF Faithful
  <2> QED
    BY <1>d, <2>1, <2>3 DEF TableInv
<1>3. CASE HandleProps \/ HandleStart
  <2>1. PICK k \in {"props", "start"} : Dispatching(k)
    BY <1>3 DEF HandleProps, HandleStart
  <2>2. /\ hand' = NoSig
        /\ UNCHANGED <<exported, phase, snap, max_alloc_num, pcms, smashed, raced, stopped>>
    BY <1>3, <2>1 DEF HandleProps, HandleStart, Dispatching, env, boot, tbl, hist
  <2>3. ASSUME CleanRun' PROVE Faithful'
    <3>1. Faithful
      BY <2>2, <2>3 DEF CleanRun, TableInv
    <3>2. \A p : ~ Concerns(Head(bus), p)
      BY <2>1 DEF Dispatching, Concerns, IsAbout
    <3>3. ASSUME NEW p \in Paths PROVE AddsOnce(p)' /\ Settled(p)'
      BY <1>s, <2>1, <2>2, <3>1, <3>2
    <3> QED
      BY <1>f, <2>1, <2>2, <3>1, <3>3 DEF Faithful, NoSig
  <2> QED
    BY <1>d, <2>1, <2>2, <2>3 DEF TableInv
<1>4. CASE HandleStop
  <2>1. /\ Dispatching("stop")
        /\ UNCHANGED <<exported, phase, snap, max_alloc_num, pcms, smashed, raced, stopped>>
    BY <1>4 DEF HandleStop, env, boot, tbl
  <2>2. stopped'
    BY <1>d, <2>1 DEF TableInv, TableOrder
  <2> QED
    BY <1>d, <2>1, <2>2 DEF TableInv, CleanRun
<1>5. CASE FinishAdded
  <2>1. /\ hand.kind = "added" /\ hand' = NoSig /\ AddPcm(hand)
        /\ UNCHANGED <<bus, exported, phase, snap, raced, stopped>>
    BY <1>5 DEF FinishAdded, env, boot
  <2>2. phase = "run" /\ snap = <<>>
    BY <1>r, <2>1
  <2>3. ASSUME CleanRun' PROVE Faithful'
    <3>0. ~ smashed' => ~ smashed
      BY <2>1 DEF AddPcm, UseFreeSlot, PutAt, GrowTable, GrowFails
    <3>1. Faithful /\ ~ smashed'
      BY <2>1, <2>3, <3>0 DEF CleanRun, TableInv
    <3>2. OneEntryPerPcm' /\ Connected' \subseteq Connected \cup {hand.pcm_path}
      BY <1>t, <2>1, <3>1, AddPcmClean DEF Faithful
    <3>3. Connected' \subseteq Paths
      BY <1>t, <2>1, <3>1, <3>2, HandType DEF Faithful
    <3>4. \A p \in Connected' : Expected(p)
      BY <2>1, <3>2 DEF Expected, IsAbout, OnItsWay
    <3> QED
      BY <2>1, <2>2, <3>1, <3>2, <3>3, <3>4, HandTable
  <2> QED
    BY <2>1, <2>2, <2>3 DEF TableInv, TableOrder
<1>6. CASE ReadPcmFails
  <2>1. /\ hand.kind = "added" /\ hand' = NoSig
        /\ UNCHANGED <<bus, exported, phase, snap, max_alloc_num, pcms, smashed, raced, stopped>>
    BY <1>6 DEF ReadPcmFails, env, boot, tbl
  <2>2. phase = "run" /\ snap = <<>>
    BY <1>r, <2>1
  <2>3. Connected' = Connected /\ Indices' = Indices
    BY <2>1 DEF Connected, Indices
  <2>4. ASSUME CleanRun' PROVE Faithful'
    <3>1. Faithful
      BY <2>1, <2>4 DEF CleanRun, TableInv
    <3>2. OneEntryPerPcm'
      BY <2>1, <2>3, <3>1 DEF Faithful, OneEntryPerPcm
    <3>3. Connected' \subseteq Paths
      BY <2>3, <3>1 DEF Faithful
    <3>4. \A p \in Connected' : Expected(p)
      BY <2>1, <2>3 DEF Expected, IsAbout, OnItsWay
    <3> QED
      BY <2>1, <2>2, <3>1, <3>2, <3>3, <3>4, HandTable
  <2> QED
    BY <2>1, <2>2, <2>4 DEF TableInv, TableOrder
<1>7. CASE FinishRemoved
  <2>1. /\ hand.kind = "removed" /\ hand' = NoSig /\ RemovePcm(hand.pcm_path)
        /\ UNCHANGED <<bus, exported, phase, snap, smashed, raced, stopped>>
    BY <1>7 DEF FinishRemoved, RemovePcm, env, boot
  <2>2. phase = "run" /\ snap = <<>>
    BY <1>r, <2>1
  <2>3. ASSUME CleanRun' PROVE Faithful'
    <3>1. Faithful
      BY <2>1, <2>3 DEF CleanRun, TableInv
    <3>2. OneEntryPerPcm' /\ Connected' \subseteq Connected \ {hand.pcm_path}
      BY <1>t, <2>1, <3>1, RemovePcmClean DEF Faithful
    <3>3. Connected' \subseteq Paths
      BY <3>1, <3>2 DEF Faithful
    <3>4. \A p \in Connected' : Expected(p)
      BY <2>1, <3>2 DEF Expected, IsAbout, OnItsWay
    <3> QED
      BY <2>1, <2>2, <3>1, <3>2, <3>3, <3>4, HandTable
  <2> QED
    BY <2>1, <2>2, <2>3 DEF TableInv, TableOrder
<1> QED
  BY <1>1, <1>2, <1>3, <1>4, <1>5, <1>6, <1>7 DEF dbus_thread

LEMMA CleanTableStep ==
  IInv /\ ToldInv /\ ToldInv' /\ MissedOrder' /\ TableInv /\ [Next]_vars => TableInv'
<1> SUFFICES ASSUME IInv, ToldInv, ToldInv', MissedOrder', TableInv, [Next]_vars PROVE TableInv'
  OBVIOUS
<1>1. ASSUME UNCHANGED vars \/ ReadAhead \/ Wake \/ Sleep PROVE TableInv'
  <2>1. UNCHANGED <<bus, snap, hand, max_alloc_num, pcms, exported, phase, smashed, raced, stopped>>
    BY <1>1 DEF vars, ReadAhead, Wake, Sleep, env, boot, tbl, hist
  <2>2. ASSUME NEW p, AddsOnce(p), Settled(p) PROVE AddsOnce(p)' /\ Settled(p)'
    <3>1. Expected(p)' <=> Expected(p)
      BY <2>1 DEF Expected, IsAbout, OnItsWay, Connected, Indices, InSnap
    <3>2. AddsOnce(p)'
      BY <2>1, <2>2, <3>1 DEF AddsOnce, Concerns, IsAbout
    <3>3. Settled(p)'
      BY <2>1, <2>2, <3>1 DEF Settled, SilentFrom, Concerns, IsAbout
    <3> QED
      BY <3>2, <3>3
  <2>3. Faithful => Faithful'
    BY <2>1, <2>2 DEF Faithful, SnapIsNew, OneEntryPerPcm, Connected, Indices
  <2> QED
    BY <2>1, <2>3 DEF TableInv, TableOrder, CleanRun, Connected, Indices
<1> QED
  BY <1>1, EnvTable, InitStepsTable, DispatchTable DEF Next

LEMMA InitTable == Init => TableInv
<1> SUFFICES ASSUME Init PROVE TableInv
  OBVIOUS
<1>1. Len(bus) = 0 /\ Len(snap) = 0 /\ hand = NoSig /\ Indices = {}
  BY EmptySeq DEF Init, Indices
<1>2. Connected = {}
  BY <1>1 DEF Connected
<1>3. \A p : ~ Expected(p)
  BY <1>1, <1>2 DEF Expected, IsAbout, NoSig, OnItsWay, InSnap
<1> QED
  BY <1>1, <1>2, <1>3
     DEF TableInv, TableOrder, Faithful, OneEntryPerPcm, SnapIsNew, AddsOnce, Settled, NoSig

\* In a clean run no PCM has two entries, and once the queue is drained the table
\* holds no device that is gone, for any number of devices, slots and changes.
THEOREM NoDeviceIsInvented == Spec => []ReportedIsExported
<1>1. IInv /\ TableInv => ReportedIsExported
  <2> SUFFICES ASSUME IInv, TableInv, CleanRun
               PROVE  OneEntryPerPcm /\ (Quiescent => Connected \subseteq exported)
    BY DEF ReportedIsExported
  <2>1. Faithful
    BY DEF TableInv
  <2>2. ASSUME Quiescent, NEW p \in Connected PROVE p \in exported
    <3>1. hand = NoSig /\ Len(bus) = 0
      BY <2>2, EmptySeq DEF Quiescent
    <3>2. p \in Paths
      BY <2>1, <2>2 DEF Faithful
    <3>3. Expected(p) /\ SilentFrom(1, p)
      BY <2>2, <3>1 DEF Expected, IsAbout, NoSig, OnItsWay, SilentFrom
    <3> QED
      BY <2>1, <3>2, <3>3 DEF Faithful, Settled
  <2> QED
    BY <2>1, <2>2 DEF Faithful
<1> QED
  BY <1>1, InitIInv, Inductive, InitTold, ToldStep, InitMissed, MissedStep, InitTable,
     CleanTableStep, PTL DEF Spec

-----------------------------------------------------------------------------
(* The table implements a bag of paths *)

Known == [p \in Paths |-> Cardinality(SlotsOf(p))]

LEMMA SlotsFinite ==
  ASSUME TypeOK, NEW p
  PROVE  IsFiniteSet(SlotsOf(p)) /\ Cardinality(SlotsOf(p)) \in Nat
<1>1. IsFiniteSet(Indices)
  BY FS_Interval DEF Indices, TypeOK
<1>2. SlotsOf(p) \in SUBSET Indices
  BY DEF SlotsOf
<1> QED
  BY <1>1, <1>2, FS_Subset, FS_CardinalityType

\* When no flag past the PCM is changed, add_pcm gives it one more slot.
LEMMA AddPcmSlots ==
  ASSUME TypeOK, ~ smashed', NEW pcm, pcm.pcm_path \in Paths, AddPcm(pcm)
  PROVE  \/ \A p \in Paths : SlotsOf(p)' = SlotsOf(p)
         \/ \E idx : \A p \in Paths :
              /\ idx \notin SlotsOf(p)
              /\ SlotsOf(p)' = SlotsOf(p) \cup (IF p = pcm.pcm_path THEN {idx} ELSE {})
<1>1. ASSUME NEW idx, idx \in Indices', pcms'[idx] = Entry(pcm),
             \A j \in Indices' : j # idx /\ pcms'[j].connect_flag =>
               /\ j \in Indices /\ pcms[j].connect_flag
               /\ pcms'[j].pcm_path = pcms[j].pcm_path,
             \A j \in Indices : pcms[j].connect_flag =>
               /\ j # idx /\ j \in Indices' /\ pcms'[j].connect_flag
               /\ pcms'[j].pcm_path = pcms[j].pcm_path
      PROVE  \A p \in Paths :
              /\ idx \notin SlotsOf(p)
              /\ SlotsOf(p)' = SlotsOf(p) \cup (IF p = pcm.pcm_path THEN {idx} ELSE {})
  <2>1. pcms'[idx].connect_flag /\ pcms'[idx].pcm_path = pcm.pcm_path
    BY <1>1 DEF Entry
  <2> TAKE p \in Paths
  <2>2. idx \notin SlotsOf(p)
    BY <1>1 DEF SlotsOf
  <2>3. \A j : j # idx => (j \in SlotsOf(p)' <=> j \in SlotsOf(p))
    BY <1>1 DEF SlotsOf
  <2>4. idx \in SlotsOf(p)' <=> p = pcm.pcm_path
    BY <1>1, <2>1 DEF SlotsOf
  <2> QED
    BY <2>2, <2>3, <2>4
<1>2. ASSUME NEW s \in Stray, UseFreeSlot(pcm, s)
      PROVE  \E idx : \A p \in Paths :
               /\ idx \notin SlotsOf(p)
               /\ SlotsOf(p)' = SlotsOf(p) \cup (IF p = pcm.pcm_path THEN {idx} ELSE {})
  <2>1. PICK idx \in Indices :
          /\ FirstFree(idx)
          /\ pcms' = [j \in Indices |->
                 CASE j = idx     -> Entry(pcm)
                   [] j = idx + 1 -> [pcms[j] EXCEPT !.connect_flag = StrayFlag(s, @)]
                   [] OTHER       -> pcms[j]]
          /\ smashed' = (smashed \/ (idx + 1 \in Indices
                /\ pcms'[idx + 1].connect_flag # pcms[idx + 1].connect_flag))
          /\ UNCHANGED max_alloc_num
    BY <1>2 DEF UseFreeSlot, PutAt
  <2>2. Indices' = Indices
    BY <2>1 DEF Indices
  <2>3. pcms'[idx] = Entry(pcm)
    BY <2>1 DEF Indices
  <2>4. ASSUME NEW j \in Indices, j # idx PROVE pcms'[j] = pcms[j]
    <3>1. pcms[j] \in Slots
      BY DEF TypeOK
    <3>2. CASE j = idx + 1
      <4>1. pcms'[j] = [pcms[j] EXCEPT !.connect_flag = StrayFlag(s, @)]
        BY <2>1, <2>4, <3>2
      <4>2. pcms'[j].connect_flag = pcms[j].connect_flag
        BY <2>1, <3>2
      <4> QED
        BY <3>1, <4>1, <4>2 DEF Slots
    <3>3. CASE j # idx + 1
      BY <2>1, <2>4, <3>3
    <3> QED
      BY <3>2, <3>3
  <2>5. ~ pcms[idx].connect_flag
    BY <2>1 DEF FirstFree
  <2> QED
    BY <1>1, <2>2, <2>3, <2>4, <2>5
<1>3. ASSUME NEW s \in Stray, GrowTable(pcm, s)
      PROVE  \E idx : \A p \in Paths :
               /\ idx \notin SlotsOf(p)
               /\ SlotsOf(p)' = SlotsOf(p) \cup (IF p = pcm.pcm_path THEN {idx} ELSE {})
  <2>1. max_alloc_num \in Nat /\ max_alloc_num' = max_alloc_num + 2
    BY <1>3 DEF GrowTable, TypeOK
  <2>2. Indices' = 0 .. max_alloc_num + 1 /\ Indices = 0 .. max_alloc_num - 1
    BY <2>1 DEF Indices
  <2>3. pcms' = [j \in 0 .. max_alloc_num + 1 |->
                   CASE j < max_alloc_num -> pcms[j]
                     [] j = max_alloc_num -> Entry(pcm)
                     [] OTHER             -> Blank(StrayFlag(s, FALSE))]
    BY <1>3 DEF GrowTable
  <2>4. max_alloc_num \in Indices' /\ pcms'[max_alloc_num] = Entry(pcm)
    BY <2>1, <2>2, <2>3
  <2>5. \A j \in Indices : j # max_alloc_num /\ j \in Indices' /\ j < max_alloc_num
    BY <2>1, <2>2
  <2>6. \A j \in Indices : pcms'[j] = pcms[j]
    BY <2>2, <2>3, <2>5
  <2>7. ASSUME NEW j \in Indices', j # max_alloc_num, pcms'[j].connect_flag
        PROVE  j \in Indices
    <3>1. CASE j < max_alloc_num
      BY <2>1, <2>2, <3>1
    <3>2. CASE ~ (j < max_alloc_num)
      <4>1. pcms'[j] = Blank(StrayFlag(s, FALSE))
        BY <2>2, <2>3, <2>7, <3>2
      <4>2. Blank(StrayFlag(s, FALSE)).connect_flag = StrayFlag(s, FALSE)
        BY DEF Blank
      <4>3. ~ StrayFlag(s, FALSE)
        BY <1>3 DEF GrowTable
      <4> QED
        BY <2>7, <4>1, <4>2, <4>3
    <3> QED
      BY <3>1, <3>2
  <2>8. \A j \in Indices' : j # max_alloc_num /\ pcms'[j].connect_flag =>
               /\ j \in Indices /\ pcms[j].connect_flag
               /\ pcms'[j].pcm_path = pcms[j].pcm_path
    BY <2>6, <2>7
  <2> QED
    BY <1>1, <2>4, <2>5, <2>6, <2>8
<1>4. CASE GrowFails(pcm)
  BY <1>4 DEF GrowFails, tbl, SlotsOf, Indices
<1> QED
  BY <1>2, <1>3, <1>4 DEF AddPcm

LEMMA AddPcmKnown ==
  ASSUME TypeOK, ~ smashed', NEW pcm, pcm.pcm_path \in Paths, AddPcm(pcm)
  PROVE  Known' = Known \/ Known' = [Known EXCEPT ![pcm.pcm_path] = @ + 1]
<1>1. CASE \A p \in Paths : SlotsOf(p)' = SlotsOf(p)
  BY <1>1 DEF Known
<1>2. ASSUME NEW idx, \A p \in Paths :
              /\ idx \notin SlotsOf(p)
              /\ SlotsOf(p)' = SlotsOf(p) \cup (IF p = pcm.pcm_path THEN {idx} ELSE {})
      PROVE  Known' = [Known EXCEPT ![pcm.pcm_path] = @ + 1]
  <2>1. ASSUME NEW p \in Paths, p # pcm.pcm_path PROVE SlotsOf(p)' = SlotsOf(p)
    BY <1>2, <2>1
  <2>2. Cardinality(SlotsOf(pcm.pcm_path) \cup {idx}) = Cardinality(SlotsOf(pcm.pcm_path)) + 1
    BY <1>2, SlotsFinite, FS_AddElement
  <2>3. ASSUME NEW p, p = pcm.pcm_path, p \in Paths
        PROVE  Cardinality(SlotsOf(p)') = Cardinality(SlotsOf(p)) + 1
    BY <1>2, <2>2, <2>3
  <2>4. PICK q \in Paths : q = pcm.pcm_path
    OBVIOUS
  <2> QED
    BY <2>1, <2>3, <2>4 DEF Known
<1> QED
  BY <1>1, <1>2, AddPcmSlots

LEMMA RemovePcmKnown ==
  ASSUME TypeOK, NEW q \in Paths, RemovePcm(q)
  PROVE  \/ Known' = Known
         \/ Known[q] > 0 /\ Known' = [Known EXCEPT ![q] = @ - 1]
<1>1. Indices' = Indices
  BY DEF RemovePcm, Indices
<1>2. \A i \in Indices : pcms[i] \in Slots
  BY DEF TypeOK
<1>3. ASSUME NEW i \in Indices, FirstMatch(q, i)
      PROVE  Known[q] > 0 /\ Known' = [Known EXCEPT ![q] = @ - 1]
  <2>1. \A j \in Indices : FirstMatch(q, j) <=> j = i
    BY <1>3 DEF FirstMatch, Indices
  <2>2. \A j \in Indices : j # i => pcms'[j] = pcms[j]
    BY <2>1 DEF RemovePcm
  <2>3. ~ pcms'[i].connect_flag
    BY <1>2, <1>3 DEF RemovePcm, Slots
  <2>4. i \in SlotsOf(q) /\ \A p : p # q => i \notin SlotsOf(p)
    BY <1>3 DEF FirstMatch, SlotsOf
  <2>5. \A p : SlotsOf(p)' = SlotsOf(p) \ {i}
    BY <1>1, <2>2, <2>3 DEF SlotsOf
  <2>6. \A p : p # q => SlotsOf(p)' = SlotsOf(p)
    BY <2>4, <2>5
  <2>7. /\ Cardinality(SlotsOf(q) \ {i}) = Cardinality(SlotsOf(q)) - 1
        /\ Cardinality(SlotsOf(q) \ {i}) \in Nat /\ Cardinality(SlotsOf(q)) \in Nat
    BY <2>4, SlotsFinite, FS_RemoveElement, FS_CardinalityType
  <2>8. Known[q] > 0
    BY <2>7 DEF Known
  <2>9. ASSUME NEW p \in Paths
        PROVE  Cardinality(SlotsOf(p))'
                 = IF p = q THEN Cardinality(SlotsOf(q)) - 1 ELSE Cardinality(SlotsOf(p))
    <3>1. CASE p = q
      BY <2>5, <2>7, <3>1
    <3>2. CASE p # q
      BY <2>6, <3>2
    <3> QED
      BY <3>1, <3>2
  <2> QED
    BY <2>8, <2>9 DEF Known
<1>4. CASE \A i \in Indices : ~ FirstMatch(q, i)
  <2>1. \A i \in Indices : pcms'[i] = pcms[i]
    BY <1>4 DEF RemovePcm
  <2>2. \A p : SlotsOf(p)' = SlotsOf(p)
    BY <1>1, <2>1 DEF SlotsOf
  <2> QED
    BY <2>2 DEF Known
<1> QED
  BY <1>3, <1>4

LEMMA RegistryStep ==
  ASSUME TypeOK, ~ smashed', [Next]_vars
  PROVE  [Registry!Next]_Known
<1>k. ASSUME UNCHANGED <<max_alloc_num, pcms>> PROVE Known' = Known
  BY <1>k DEF Known, SlotsOf, Indices
<1>r. ASSUME Connected' = {} PROVE Registry!Reset
  <2>1. \A p : SlotsOf(p)' = {}
    BY <1>r DEF SlotsOf, Connected
  <2> QED
    BY <2>1, FS_EmptySet DEF Registry!Reset
<1>a. ASSUME NEW pcm, pcm.pcm_path \in Paths, AddPcm(pcm) PROVE [Registry!Next]_Known
  BY <1>a, AddPcmKnown DEF Registry!Next, Registry!Add, Known
<1>1. CASE UNCHANGED vars
  BY <1>1, <1>k DEF vars, tbl
<1>2. CASE BlueAlsa
  <2>1. LibraryUnchanged
    BY <1>2 DEF BlueAlsa, Export, Withdraw, SetVolume, StopService, StartService
  <2> QED
    BY <1>k, <2>1 DEF LibraryUnchanged, tbl
<1>3. CASE a2dp_ctl_init
  <2>1. CASE BeginInit
    <3>1. \A i \in Indices' : ~ pcms'[i].connect_flag
      BY <2>1 DEF BeginInit, Indices, Blank
    <3>2. Connected' = {}
      BY <3>1 DEF Connected
    <3> QED
      BY <1>r, <3>2 DEF Registry!Next
  <2>2. CASE AddMatch \/ ListNames \/ GetPcms \/ StartThread
    BY <1>k, <2>2 DEF AddMatch, ListNames, GetPcms, StartThread, tbl
  <2>3. CASE LoadPcm
    <3>1. Head(snap) \in Pcm
      BY <2>3, HeadTailProperties DEF LoadPcm, TypeOK
    <3> QED
      BY <1>a, <2>3, <3>1 DEF LoadPcm, Pcm
  <2>4. CASE InitFails
    <3>1. Connected' = {}
      BY <2>4 DEF InitFails, Connected, Indices
    <3> QED
      BY <1>r, <3>1 DEF Registry!Next
  <2> QED
    BY <1>3, <2>1, <2>2, <2>3, <2>4 DEF a2dp_ctl_init
<1>4. CASE dbus_thread
  <2>1. CASE HandleAdded \/ HandleRemoved \/ HandleProps \/ HandleStart \/ HandleStop
              \/ ReadPcmFails \/ Wake \/ Sleep
    BY <1>k, <2>1 DEF HandleAdded, HandleRemoved, HandleProps, HandleStart, HandleStop,
                      ReadPcmFails, Wake, Sleep, tbl
  <2>2. CASE FinishAdded
    BY <1>a, <2>2, HandType DEF FinishAdded
  <2>3. CASE FinishRemoved
    <3>1. PICK q \in Paths : q = hand.pcm_path /\ RemovePcm(q)
      BY <2>3, HandType DEF FinishRemoved
    <3>2. Known' = Known \/ (Known[q] > 0 /\ Known' = [Known EXCEPT ![q] = @ - 1])
      BY <3>1, RemovePcmKnown
    <3> QED
      BY <3>2 DEF Registry!Next, Registry!Drop, Known
  <2> QED
    BY <1>4, <2>1, <2>2, <2>3 DEF dbus_thread
<1>5. CASE ReadAhead
  BY <1>k, <1>5 DEF ReadAhead, tbl
<1> QED
  BY <1>1, <1>2, <1>3, <1>4, <1>5 DEF Next

LEMMA RegistryInit == Init => Registry!Init
<1> SUFFICES ASSUME Init PROVE Registry!Init
  OBVIOUS
<1>1. Indices = {}
  BY DEF Init, Indices
<1>2. \A p : SlotsOf(p) = {}
  BY <1>1 DEF SlotsOf
<1> QED
  BY <1>2, FS_EmptySet DEF Registry!Init

\* As long as no flag is overwritten, the table with its free slots, its growth and its
\* scans implements the bag of paths, for any initial size, any devices and any order
\* of signals.
THEOREM TableIsABag == Spec => ([] ~ smashed => ImplementsRegistry)
<1>1. TypeOK /\ (~ smashed)' /\ [Next]_vars => [Registry!Next]_Known
  BY RegistryStep
<1> QED
  BY <1>1, RegistryInit, InitType, TypeStep, PTL DEF Spec, ImplementsRegistry, Registry!Spec, Known
=============================================================================
