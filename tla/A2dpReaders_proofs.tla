------------------------- MODULE A2dpReaders_proofs -------------------------
(***************************************************************************)
(* Theorems about A2dpReaders, for any number of threads, calls, devices   *)
(* and changes: the readers change nothing, so what is proved of A2dpCtl   *)
(* holds next to them; and as long as the table stays where it is, a walk  *)
(* over it without the mutex reports only devices that were connected at   *)
(* some time of the call, and the two passes of get_connect_status differ  *)
(* by the slots that changed while it ran.  Nor do they keep the dispatch  *)
(* thread from its queue.                                                  *)
(***************************************************************************)
EXTENDS A2dpReaders, A2dpCtl_proofs

-----------------------------------------------------------------------------
(* The readers change nothing *)

LEMMA ReadersReadOnly == ASSUME NEW r \in Readers, Reader(r) PROVE UNCHANGED vars
  BY DEF Reader, get_connect_status, connect_dev, a2dp_control, Return, Call, Fresh, Leave,
         CountSlot, EndCount, StartFill, TestSlot, CopySlot, EndFill, ComparePath, EndScan,
         PickPlayer

LEMMA StepOfTable == [ReadersNext]_rvars => [Next]_vars
  BY ReadersReadOnly DEF ReadersNext, Writers, rvars

\* Every behaviour with readers is one of A2dpCtl.
THEOREM ReadersImplementTable == ReadersSpec => Spec
<1>1. ReadersInit => Init
  BY DEF ReadersInit
<1> QED
  BY <1>1, StepOfTable, PTL DEF ReadersSpec, Spec

\* So no call of the API can make the registry miss a device.
THEOREM NoDeviceIsMissedByReaders == ReadersSpec => []ExportedIsReported
  BY ReadersImplementTable, NoDeviceIsMissed

\* And the table they read is a bag of paths.
THEOREM ReadersReadABag == ReadersSpec => ([] ~ smashed => ImplementsRegistry)
  BY ReadersImplementTable, TableIsABag

-----------------------------------------------------------------------------
(* The invariant *)

\* There is a table from pcm_info_init until a `goto fail`, and the dispatch thread
\* only after them.
Sized ==
  /\ phase = "new" <=> max_alloc_num = 0
  /\ phase # "run" => hand = NoSig

\* A walk is inside the table it took the address of, and what it knows of a slot
\* is still true or was at some time of the call.
Walk(r) ==
  /\ rpc[r] \in {"copy", "compare"} => i[r] < size[r]
  /\ rpc[r] = "idle" => out[r] = <<>>
  /\ rpc[r] # "idle" /\ ~ moved[r] => size[r] = max_alloc_num /\ Connected \subseteq present[r]
  /\ Undisturbed(r) =>
       /\ ToSet(out[r]) \subseteq present[r] \cup {Torn}
       /\ Torn \in ToSet(out[r]) => refilled[r] # {}
       /\ rpc[r] \in {"copy", "compare"} => pcms[i[r]].pcm_path \in present[r]
       /\ rpc[r] = "already" => arg[r] \in present[r] \/ refilled[r] # {}
       /\ rpc[r] = "send" => arg[r] \in present[r]

ReadersIInv == TypeOK /\ Sized /\ ReadersTypeOK /\ \A r \in Readers : Walk(r)

\* A step that leaves the table in its place, and no stray byte, gives a slot
\* another path only together with its connect_flag.
LEMMA TableStep ==
  ASSUME TypeOK, Sized, Next
  PROVE  /\ Sized'
         /\ max_alloc_num' = max_alloc_num /\ ~ smashed' =>
              /\ ~ smashed
              /\ \A k \in Indices : pcms'[k].pcm_path = pcms[k].pcm_path \/ pcms'[k].connect_flag
<1> DEFINE Kept == /\ ~ smashed
                   /\ \A k \in Indices :
                        pcms'[k].pcm_path = pcms[k].pcm_path \/ pcms'[k].connect_flag
<1> DEFINE Goal == Sized' /\ (max_alloc_num' = max_alloc_num /\ ~ smashed' => Kept)
<1>1. ASSUME NEW pcm, AddPcm(pcm), phase' = phase, phase # "new", hand' \in {hand, NoSig}
      PROVE  Goal
  <2>1. ASSUME NEW s \in Stray, NEW idx \in Indices, PutAt(idx, pcm, s)
        PROVE  Goal
    <3>1. \A k \in Indices : pcms'[k].pcm_path = pcms[k].pcm_path \/ pcms'[k].connect_flag
      BY <2>1 DEF PutAt, Entry, TypeOK, Slots
    <3>2. ~ smashed' => ~ smashed
      BY <2>1 DEF PutAt
    <3>3. Sized'
      BY <1>1, <2>1 DEF PutAt, Sized
    <3> QED
      BY <3>1, <3>2, <3>3
  <2>2. ASSUME NEW s \in Stray, GrowTable(pcm, s)
        PROVE  Goal
    <3>1. max_alloc_num \in Nat /\ max_alloc_num' = max_alloc_num + 2
      BY <2>2 DEF GrowTable, TypeOK
    <3>2. max_alloc_num' # max_alloc_num /\ max_alloc_num' # 0
      BY <3>1
    <3> QED
      BY <1>1, <3>2 DEF Sized
  <2>3. CASE GrowFails(pcm)
    BY <1>1, <2>3 DEF GrowFails, Sized, tbl
  <2> QED
    BY <1>1, <2>1, <2>2, <2>3 DEF AddPcm, UseFreeSlot
<1>2. ASSUME UNCHANGED <<max_alloc_num, pcms, smashed, phase>>,
             hand' \in {hand, NoSig} \/ phase = "run"
      PROVE  Goal
  BY <1>2 DEF Sized
<1>3. CASE BlueAlsa
  <2>1. UNCHANGED <<max_alloc_num, pcms, smashed, phase, hand>>
    BY <1>3 DEF BlueAlsa, Export, Withdraw, SetVolume, StopService, StartService,
                LibraryUnchanged, boot, tbl, hist
  <2> QED
    BY <1>2, <2>1
<1>4. CASE BeginInit
  BY <1>4, SlotsAssumption DEF BeginInit, Sized
<1>5. CASE InitFails
  BY <1>5 DEF InitFails, Sized
<1>6. CASE AddMatch \/ ListNames \/ GetPcms \/ StartThread
  <2>1. /\ UNCHANGED <<max_alloc_num, pcms, smashed, hand>>
        /\ phase \in {"matched", "listed", "loading"}
        /\ phase' \in {"matched", "listed", "loading", "run"}
        /\ phase' = "matched" => phase = "matched"
    BY <1>6 DEF AddMatch, ListNames, GetPcms, StartThread, tbl, hist
  <2> QED
    BY <2>1 DEF Sized
<1>7. CASE LoadPcm
  BY <1>1, <1>7 DEF LoadPcm
<1>8. CASE FinishAdded
  <2>1. phase = "run"
    BY <1>8 DEF FinishAdded, Sized, NoSig
  <2>2. AddPcm(hand) /\ phase' = phase /\ phase # "new" /\ hand' = NoSig
    BY <1>8, <2>1 DEF FinishAdded, boot
  <2> QED
    BY <1>1, <2>2
<1>9. CASE FinishRemoved
  <2>1. /\ UNCHANGED <<max_alloc_num, smashed, phase>> /\ hand' = NoSig
        /\ \A k \in Indices : pcms'[k] \in {pcms[k], [pcms[k] EXCEPT !.connect_flag = FALSE]}
    BY <1>9 DEF FinishRemoved, RemovePcm, boot
  <2>2. \A k \in Indices : pcms[k] \in Slots
    BY DEF TypeOK
  <2>3. \A k \in Indices : pcms'[k].pcm_path = pcms[k].pcm_path
    BY <2>1, <2>2 DEF Slots
  <2> QED
    BY <2>1, <2>3 DEF Sized
<1>10. CASE \/ HandleAdded \/ ReadPcmFails \/ HandleRemoved \/ HandleProps
            \/ HandleStart \/ HandleStop \/ Wake \/ Sleep \/ ReadAhead
  <2>1. /\ UNCHANGED <<max_alloc_num, pcms, smashed, phase>>
        /\ hand' \in {hand, NoSig} \/ phase = "run"
    BY <1>10 DEF Dispatching, HandleAdded, ReadPcmFails, HandleRemoved, HandleProps,
                 HandleStart, HandleStop, Wake, Sleep, ReadAhead, tbl, boot, hist
  <2> QED
    BY <2>1, <1>2
<1> QED
  BY <1>3, <1>4, <1>5, <1>6, <1>7, <1>8, <1>9, <1>10 DEF Next, a2dp_ctl_init, dbus_thread

\* A path that is in the table.
LEMMA ConnectedType == TypeOK => Connected \subseteq Paths \cup {NoPath}
  BY DEF TypeOK, Connected, Slots

\* Counters of slots are numbers.
LEMMA CountType ==
  ASSUME NEW n \in Nat, NEW m \in Nat, NEW c \in Nat, NEW S \in SUBSET (0 .. n + m)
  PROVE  c + Cardinality(S) \in Nat
<1>1. IsFiniteSet(0 .. n + m)
  BY FS_Interval
<1>2. Cardinality(S) \in Nat
  BY <1>1, FS_Subset, FS_CardinalityType
<1> QED
  BY <1>2

LEMMA WritersType ==
  ASSUME TypeOK, ReadersTypeOK, Writers
  PROVE  TypeOK' /\ ReadersTypeOK'
<1>1. TypeOK'
  BY TypeStep DEF Writers
<1>2. max_alloc_num \in Nat /\ max_alloc_num' \in Nat
  BY <1>1 DEF TypeOK
<1>3. Connected' \subseteq Paths \cup {NoPath}
  <2>1. (TypeOK => Connected \subseteq Paths \cup {NoPath})'
    BY ConnectedType, PTL
  <2> QED
    BY <1>1, <2>1
<1>4. present' \in [Readers -> SUBSET (Paths \cup {NoPath})]
  <2>1. \A r \in Readers : present[r] \in SUBSET (Paths \cup {NoPath})
    BY DEF ReadersTypeOK
  <2>2. \A r \in Readers : present[r] \cup Connected' \in SUBSET (Paths \cup {NoPath})
    BY <1>3, <2>1
  <2> HIDE DEF Connected
  <2>3. DOMAIN present' = Readers
    BY DEF Writers
  <2>4. \A r \in Readers : present'[r] \in {present[r], {}, present[r] \cup Connected'}
    BY DEF Writers
  <2>5. present' = [r \in Readers |-> present'[r]]
    BY DEF Writers
  <2> QED
    BY <2>1, <2>2, <2>4, <2>5
<1>5. arrived' \in [Readers -> Nat]
  <2> DEFINE up == {k \in 0 .. max_alloc_num + max_alloc_num' : Slot(k)' /\ ~ Slot(k)}
  <2>1. \A r \in Readers : arrived[r] + Cardinality(up) \in Nat
    BY <1>2, CountType DEF ReadersTypeOK
  <2> QED
    BY <2>1 DEF Writers, ReadersTypeOK
<1>6. gone' \in [Readers -> Nat]
  <2> DEFINE down == {k \in 0 .. max_alloc_num + max_alloc_num' : Slot(k) /\ ~ Slot(k)'}
  <2>1. \A r \in Readers : gone[r] + Cardinality(down) \in Nat
    BY <1>2, CountType DEF ReadersTypeOK
  <2> QED
    BY <2>1 DEF Writers, ReadersTypeOK
<1>7. moved' \in [Readers -> BOOLEAN]
  BY DEF Writers, ReadersTypeOK
<1>8. refilled' \in [Readers -> SUBSET Nat]
  <2> DEFINE other == {k \in Indices : pcms'[k].pcm_path # pcms[k].pcm_path}
  <2>1. other \in SUBSET Nat
    BY <1>2 DEF Indices
  <2>2. /\ DOMAIN refilled' = Readers /\ refilled' = [r \in Readers |-> refilled'[r]]
        /\ \A r \in Readers : refilled'[r] \in {{}, refilled[r] \cup other}
    BY DEF Writers
  <2> HIDE DEF other
  <2>3. \A r \in Readers : refilled[r] \cup other \in SUBSET Nat
    BY <2>1 DEF ReadersTypeOK
  <2> QED
    BY <2>2, <2>3
<1> QED
  BY <1>1, <1>4, <1>5, <1>6, <1>7, <1>8 DEF Writers, ReadersTypeOK, local

LEMMA WritersKeepWalks ==
  ASSUME ReadersIInv, Writers
  PROVE  ReadersIInv'
<1>1. TypeOK' /\ ReadersTypeOK'
  BY WritersType DEF ReadersIInv
<1>2. /\ Sized'
      /\ max_alloc_num' = max_alloc_num /\ ~ smashed' =>
           /\ ~ smashed
           /\ \A k \in Indices : pcms'[k].pcm_path = pcms[k].pcm_path \/ pcms'[k].connect_flag
  BY TableStep DEF ReadersIInv, Writers
<1>3. ASSUME NEW r \in Readers PROVE Walk(r)'
  <2>1. UNCHANGED <<rpc, i, size, out, arg>>
    BY DEF Writers, local
  <2>2. CASE rpc[r] = "idle"
    <3>1. out[r] = <<>>
      BY <2>2 DEF ReadersIInv, Walk
    <3>2. ToSet(out[r]) = {}
      BY <3>1 DEF ToSet
    <3> QED
      BY <2>1, <2>2, <3>2, <3>1 DEF Walk
  <2>3. CASE rpc[r] # "idle" /\ (moved[r] \/ max_alloc_num' # max_alloc_num)
    <3>1. moved'[r]
      BY <2>3 DEF Writers
    <3> QED
      BY <2>1, <2>3, <3>1 DEF Walk, Undisturbed, ReadersIInv
  <2>4. CASE rpc[r] # "idle" /\ ~ moved[r] /\ max_alloc_num' = max_alloc_num
    <3>1. present'[r] = present[r] \cup Connected' /\ ~ moved'[r]
      BY <2>4 DEF Writers
    <3>5. refilled[r] # {} => refilled'[r] # {}
      BY <2>4 DEF Writers
    <3>2. size[r] = max_alloc_num
      BY <2>4 DEF ReadersIInv, Walk
    <3>3. ASSUME ~ smashed', rpc[r] \in {"copy", "compare"}
          PROVE  pcms'[i[r]].pcm_path \in present'[r]
      <4>1. i[r] \in Indices /\ i[r] \in Indices'
        <5>1. i[r] \in Nat /\ max_alloc_num \in Nat /\ i[r] < max_alloc_num
          BY <3>2, <3>3 DEF ReadersIInv, Walk, ReadersTypeOK, TypeOK
        <5> QED
          BY <2>4, <5>1 DEF Indices
      <4>2. pcms[i[r]].pcm_path \in present[r]
        BY <1>2, <2>4, <3>3 DEF ReadersIInv, Walk, Undisturbed
      <4>3. pcms'[i[r]].connect_flag => pcms'[i[r]].pcm_path \in Connected'
        BY <4>1 DEF Connected
      <4> QED
        BY <1>2, <2>4, <3>1, <3>3, <4>1, <4>2, <4>3
    <3>4. Undisturbed(r)' => ~ smashed' /\ Undisturbed(r)
      BY <1>2, <2>4 DEF Undisturbed
    <3> QED
      BY <2>1, <2>4, <3>1, <3>2, <3>3, <3>4, <3>5 DEF Walk, ReadersIInv
  <2> QED
    BY <2>2, <2>3, <2>4
<1> QED
  BY <1>1, <1>2, <1>3 DEF ReadersIInv

\* The variables of a call are its own.
LEMMA OthersUnchanged ==
  ASSUME ReadersTypeOK, NEW r \in Readers, Reader(r), NEW q \in Readers, q # r
  PROVE  /\ rpc'[q] = rpc[q] /\ i'[q] = i[q] /\ size'[q] = size[q]
         /\ out'[q] = out[q] /\ arg'[q] = arg[q] /\ cnt'[q] = cnt[q]
         /\ present'[q] = present[q] /\ moved'[q] = moved[q] /\ refilled'[q] = refilled[q]
         /\ arrived'[q] = arrived[q] /\ gone'[q] = gone[q]
<1> USE DEF ReadersTypeOK, Move, Step, Fresh, Leave, seen
<1>1. CASE get_connect_status(r)
  BY <1>1 DEF get_connect_status, Call, CountSlot, EndCount, StartFill, TestSlot, CopySlot, EndFill
<1>2. CASE connect_dev(r)
  BY <1>2 DEF connect_dev, Call, TestSlot, ComparePath, EndScan
<1>3. CASE a2dp_control(r) \/ Return(r)
  BY <1>3 DEF a2dp_control, Call, PickPlayer, Return
<1> QED
  BY <1>1, <1>2, <1>3 DEF Reader

LEMMA OtherWalks ==
  ASSUME ReadersIInv, NEW r \in Readers, Reader(r), NEW q \in Readers, q # r
  PROVE  Walk(q)'
<1>1. UNCHANGED <<pcms, max_alloc_num, smashed>> /\ Connected' = Connected
  BY ReadersReadOnly DEF vars, tbl, hist, Connected, Indices
<1>2. /\ rpc'[q] = rpc[q] /\ i'[q] = i[q] /\ size'[q] = size[q]
      /\ out'[q] = out[q] /\ arg'[q] = arg[q]
      /\ present'[q] = present[q] /\ moved'[q] = moved[q] /\ refilled'[q] = refilled[q]
  BY OthersUnchanged DEF ReadersIInv
<1>3. Walk(q)
  BY DEF ReadersIInv
<1> QED
  BY <1>1, <1>2, <1>3 DEF Walk, Undisturbed

\* Where a call starts and where it ends.
LEMMA FreshType ==
  ASSUME ReadersTypeOK, NEW r \in Readers, NEW l \in ReaderLabels \ {"fill", "copy", "list"},
         NEW n \in Nat, NEW p \in Paths \cup {NoPath},
         NEW now \in SUBSET (Paths \cup {NoPath}),
         Move(r, l), Fresh(r, n, p, now), reads' \in [Readers -> 0 .. MaxReads]
  PROVE  ReadersTypeOK'
<1>1. /\ rpc' \in [Readers -> ReaderLabels] /\ arg' \in [Readers -> Paths \cup {NoPath}]
      /\ present' \in [Readers -> SUBSET (Paths \cup {NoPath})]
      /\ moved' \in [Readers -> BOOLEAN] /\ refilled' \in [Readers -> SUBSET Nat]
  BY DEF ReadersTypeOK, Move, Fresh
<1>2. /\ i' \in [Readers -> Nat] /\ size' \in [Readers -> Nat] /\ cnt' \in [Readers -> Nat]
      /\ arrived' \in [Readers -> Nat] /\ gone' \in [Readers -> Nat]
  BY DEF ReadersTypeOK, Fresh
<1>3. out' \in [Readers -> Seq(Paths \cup {NoPath, Torn})]
  BY EmptySeq DEF ReadersTypeOK, Fresh
<1>4. \A q \in Readers : rpc'[q] \in {"fill", "copy", "list"} => cnt'[q] > 0
  <2> TAKE q \in Readers
  <2>1. CASE q = r
    BY <2>1 DEF Move, ReadersTypeOK
  <2>2. CASE q # r
    BY <2>2 DEF Move, Fresh, ReadersTypeOK
  <2> QED
    BY <2>1, <2>2
<1> QED
  BY <1>1, <1>2, <1>3, <1>4 DEF ReadersTypeOK

LEMMA FreshWalk ==
  ASSUME ReadersIInv, NEW r \in Readers,
         NEW l \in {"count", "scan", "control", "idle"}, NEW n, NEW p, NEW now,
         Move(r, l), Fresh(r, n, p, now),
         l # "idle" => n = max_alloc_num /\ Connected \subseteq now
  PROVE  Walk(r)'
<1>1. /\ rpc'[r] = l /\ out'[r] = <<>> /\ size'[r] = n /\ present'[r] = now
      /\ moved'[r] = FALSE
  BY DEF ReadersIInv, ReadersTypeOK, Move, Fresh
<1>2. ToSet(out'[r]) = {}
  BY <1>1 DEF ToSet
<1>3. max_alloc_num' = max_alloc_num /\ Connected' = Connected
  BY DEF Fresh, vars, tbl, Connected, Indices
<1> QED
  BY <1>1, <1>2, <1>3 DEF Walk, Undisturbed

LEMMA CallPreserves ==
  ASSUME ReadersIInv, NEW r \in Readers, NEW l \in {"count", "scan", "control"},
         NEW p \in Paths \cup {NoPath}, Call(r, l, p)
  PROVE  ReadersTypeOK' /\ Walk(r)'
<1>1. Connected \in SUBSET (Paths \cup {NoPath}) /\ max_alloc_num \in Nat
  BY ConnectedType DEF ReadersIInv, TypeOK
<1>2. reads' \in [Readers -> 0 .. MaxReads]
  BY ReadsAssumption DEF ReadersIInv, ReadersTypeOK, Call
<1>3. Move(r, l) /\ Fresh(r, max_alloc_num, p, Connected)
  BY DEF Call
<1>4. ReadersTypeOK'
  BY <1>1, <1>2, <1>3, FreshType DEF ReadersIInv, ReaderLabels
<1>5. Walk(r)'
  BY <1>3, FreshWalk
<1> QED
  BY <1>4, <1>5

LEMMA LeavePreserves ==
  ASSUME ReadersIInv, NEW r \in Readers, Leave(r)
  PROVE  ReadersTypeOK' /\ Walk(r)'
<1>1. reads' \in [Readers -> 0 .. MaxReads]
  BY DEF ReadersIInv, ReadersTypeOK, Leave
<1>2. Move(r, "idle") /\ Fresh(r, 0, NoPath, {})
  BY DEF Leave
<1>3. ReadersTypeOK'
  BY <1>1, <1>2, FreshType DEF ReadersIInv, ReaderLabels
<1>4. Walk(r)'
  BY <1>2, FreshWalk
<1> QED
  BY <1>3, <1>4

\* What a call that goes on sees of the table it has not left.
LEMMA StillThere ==
  ASSUME ReadersIInv, NEW r \in Readers, Reader(r)
  PROVE  /\ pcms' = pcms /\ max_alloc_num' = max_alloc_num /\ smashed' = smashed
         /\ Connected' = Connected /\ TypeOK' /\ Sized'
<1>1. UNCHANGED vars
  BY ReadersReadOnly
<1>2. TypeOK'
  BY <1>1, TypeStep DEF ReadersIInv
<1>3. /\ pcms' = pcms /\ max_alloc_num' = max_alloc_num /\ smashed' = smashed
      /\ phase' = phase /\ hand' = hand
  BY <1>1 DEF vars, boot, tbl, hist
<1>4. Connected' = Connected
  BY <1>3 DEF Connected, Indices
<1>5. Sized'
  BY <1>3 DEF Sized, ReadersIInv
<1> QED
  BY <1>2, <1>3, <1>4, <1>5

LEMMA CountPreserves ==
  ASSUME ReadersIInv, NEW r \in Readers,
         CountSlot(r) \/ (StartFill(r) /\ rpc[r] = "count" /\ cnt[r] # 0),
         pcms' = pcms, max_alloc_num' = max_alloc_num, smashed' = smashed, Connected' = Connected
  PROVE  ReadersTypeOK' /\ Walk(r)'
<1>1. CASE CountSlot(r)
  <2>1. cnt' \in [Readers -> Nat] /\ i' \in [Readers -> Nat]
    BY <1>1 DEF CountSlot, Step, ReadersIInv, ReadersTypeOK
  <2>2. \A q \in Readers : rpc[q] \in {"fill", "copy", "list"} => cnt'[q] > 0
    BY <1>1 DEF CountSlot, ReadersIInv, ReadersTypeOK
  <2>3. ReadersTypeOK'
    BY <1>1, <2>1, <2>2 DEF CountSlot, ReadersIInv, ReadersTypeOK, seen
  <2>4. Walk(r)'
    BY <1>1 DEF CountSlot, ReadersIInv, Walk, Undisturbed, seen
  <2> QED
    BY <2>3, <2>4
<1>2. CASE StartFill(r) /\ rpc[r] = "count" /\ cnt[r] # 0
  <2>1. rpc' \in [Readers -> ReaderLabels] /\ i' \in [Readers -> Nat]
    BY <1>2 DEF StartFill, Move, ReadersIInv, ReadersTypeOK, ReaderLabels
  <2>2. \A q \in Readers : rpc'[q] \in {"fill", "copy", "list"} => cnt[q] > 0
    BY <1>2 DEF StartFill, Move, ReadersIInv, ReadersTypeOK
  <2>3. ReadersTypeOK'
    BY <1>2, <2>1, <2>2 DEF StartFill, ReadersIInv, ReadersTypeOK, seen
  <2>4. rpc'[r] = "fill"
    BY <1>2 DEF StartFill, Move, ReadersIInv, ReadersTypeOK
  <2>5. Walk(r)'
    BY <1>2, <2>4 DEF StartFill, ReadersIInv, Walk, Undisturbed, seen
  <2> QED
    BY <2>3, <2>5
<1> QED
  BY <1>1, <1>2

LEMMA TestPreserves ==
  ASSUME ReadersIInv, NEW r \in Readers,
         NEW from \in {"fill", "scan"}, NEW to \in {"copy", "compare"},
         from = "fill" <=> to = "copy", TestSlot(r, from, to),
         pcms' = pcms, max_alloc_num' = max_alloc_num, smashed' = smashed, Connected' = Connected
  PROVE  ReadersTypeOK' /\ Walk(r)'
<1>0. max_alloc_num \in Nat /\ i[r] \in Nat /\ rpc[r] = from
  BY DEF ReadersIInv, ReadersTypeOK, TypeOK, TestSlot
<1>6. /\ rpc \in [Readers -> ReaderLabels] /\ i \in [Readers -> Nat]
      /\ size \in [Readers -> Nat] /\ to \in ReaderLabels
  BY DEF ReadersIInv, ReadersTypeOK, ReaderLabels
<1>7. size' \in [Readers -> Nat] /\ size'[r] = max_alloc_num
  BY <1>0, <1>6 DEF TestSlot
<1>1. /\ rpc' \in [Readers -> ReaderLabels] /\ i' \in [Readers -> Nat]
      /\ size' \in [Readers -> Nat] /\ size'[r] = max_alloc_num
  <2>1. CASE pcms[i[r]].connect_flag
    BY <1>6, <1>7, <2>1 DEF TestSlot, Move
  <2>2. CASE ~ pcms[i[r]].connect_flag
    BY <1>0, <1>6, <1>7, <2>2 DEF TestSlot, Step
  <2> QED
    BY <2>1, <2>2
<1>2. \A q \in Readers : rpc'[q] \in {"fill", "copy", "list"} => cnt[q] > 0
  BY DEF TestSlot, Move, ReadersIInv, ReadersTypeOK
<1>3. ReadersTypeOK'
  BY <1>1, <1>2 DEF TestSlot, ReadersIInv, ReadersTypeOK, seen
<1>4. CASE pcms[i[r]].connect_flag
  <2>1. rpc'[r] = to /\ i'[r] = i[r]
    BY <1>4 DEF TestSlot, Move, ReadersIInv, ReadersTypeOK
  <2>2. i[r] < max_alloc_num /\ i[r] \in Indices
    BY <1>0 DEF TestSlot, Indices
  <2>3. pcms[i[r]].pcm_path \in Connected
    BY <1>4, <2>2 DEF Connected
  <2>4. ~ moved[r] => Connected \subseteq present[r]
    BY <1>0 DEF ReadersIInv, Walk
  <2>5. UNCHANGED <<out, arg, present, moved, refilled>>
    BY DEF TestSlot, seen
  <2>6. Walk(r)
    BY DEF ReadersIInv
  <2> QED
    BY <1>1, <1>3, <2>1, <2>2, <2>3, <2>4, <2>5, <2>6 DEF Walk, Undisturbed
<1>5. CASE ~ pcms[i[r]].connect_flag
  <2>1. rpc'[r] = from
    BY <1>5, <1>0 DEF TestSlot
  <2>2. UNCHANGED <<out, arg, present, moved, refilled>>
    BY DEF TestSlot, seen
  <2>3. Walk(r)
    BY DEF ReadersIInv
  <2> QED
    BY <1>0, <1>1, <1>3, <2>1, <2>2, <2>3 DEF Walk, Undisturbed
<1> QED
  BY <1>3, <1>4, <1>5

\* What parse_pcm_path finds in the slot that was tested.
LEMMA ReadType ==
  ASSUME ReadersIInv, NEW r \in Readers, rpc[r] \in {"copy", "compare"}, NEW p \in PathRead(r)
  PROVE  /\ p \in Paths \cup {NoPath, Torn}
         /\ Undisturbed(r) => p \in present[r] \/ (p = Torn /\ refilled[r] # {})
<1>1. Walk(r) /\ i[r] \in Nat /\ size[r] \in Nat
  BY DEF ReadersIInv, ReadersTypeOK
<1>2. CASE size[r] = max_alloc_num
  <2>1. i[r] \in Indices
    BY <1>1, <1>2 DEF Walk, Indices
  <2>2. pcms[i[r]].pcm_path \in Paths \cup {NoPath}
    BY <2>1 DEF ReadersIInv, TypeOK, Slots
  <2>3. p = pcms[i[r]].pcm_path \/ (p = Torn /\ refilled[r] # {})
    BY <1>2 DEF PathRead
  <2> QED
    BY <1>1, <1>2, <2>2, <2>3 DEF Walk
<1>3. CASE size[r] # max_alloc_num
  BY <1>1, <1>3 DEF PathRead, Walk, Undisturbed
<1> QED
  BY <1>2, <1>3

LEMMA ToSetAppend ==
  ASSUME NEW S, NEW s \in Seq(S), NEW e \in S
  PROVE  ToSet(Append(s, e)) = ToSet(s) \cup {e}
<1>1. Append(s, e) \in Seq(S) /\ Len(Append(s, e)) = Len(s) + 1 /\ Len(s) \in Nat
  OBVIOUS
<1>2. \A k \in 1 .. Len(s) : Append(s, e)[k] = s[k]
  OBVIOUS
<1>3. Append(s, e)[Len(s) + 1] = e
  OBVIOUS
<1>4. 1 .. (Len(s) + 1) = (1 .. Len(s)) \cup {Len(s) + 1}
  BY <1>1
<1>5. DOMAIN s = 1 .. Len(s) /\ DOMAIN Append(s, e) = 1 .. (Len(s) + 1)
  BY <1>1
<1> QED
  BY <1>2, <1>3, <1>4, <1>5 DEF ToSet

LEMMA CopyPreserves ==
  ASSUME ReadersIInv, NEW r \in Readers, CopySlot(r),
         pcms' = pcms, max_alloc_num' = max_alloc_num, smashed' = smashed, Connected' = Connected
  PROVE  ReadersTypeOK' /\ Walk(r)'
<1>1. /\ rpc \in [Readers -> ReaderLabels] /\ i \in [Readers -> Nat]
      /\ out \in [Readers -> Seq(Paths \cup {NoPath, Torn})] /\ rpc[r] = "copy"
  BY DEF ReadersIInv, ReadersTypeOK, CopySlot
<1>2. PICK p \in PathRead(r) : out' = [out EXCEPT ![r] = Append(@, p)]
  BY DEF CopySlot
<1>3. /\ p \in Paths \cup {NoPath, Torn}
      /\ Undisturbed(r) => p \in present[r] \/ (p = Torn /\ refilled[r] # {})
  BY <1>1, <1>2, ReadType
<1>4. out'[r] = Append(out[r], p) /\ out[r] \in Seq(Paths \cup {NoPath, Torn})
  BY <1>1, <1>2
<1>5. out' \in [Readers -> Seq(Paths \cup {NoPath, Torn})]
  <2>1. Append(out[r], p) \in Seq(Paths \cup {NoPath, Torn})
    BY <1>3, <1>4
  <2> QED
    BY <1>1, <1>2, <2>1
<1>6. ToSet(out'[r]) = ToSet(out[r]) \cup {p}
  BY <1>3, <1>4, ToSetAppend
<1>7. /\ rpc' \in [Readers -> ReaderLabels] /\ i' \in [Readers -> Nat] /\ rpc'[r] = "fill"
  BY <1>1 DEF CopySlot, Move, Step, ReaderLabels
<1>8. \A q \in Readers : rpc'[q] \in {"fill", "copy", "list"} => cnt[q] > 0
  BY DEF CopySlot, Move, ReadersIInv, ReadersTypeOK
<1>9. ReadersTypeOK'
  BY <1>5, <1>7, <1>8 DEF CopySlot, ReadersIInv, ReadersTypeOK, seen
<1>10. UNCHANGED <<size, arg, present, moved, refilled>>
  BY DEF CopySlot, seen
<1>11. Walk(r)
  BY DEF ReadersIInv
<1>12. Walk(r)'
  <2>1. Undisturbed(r)' => Undisturbed(r)
    BY <1>10 DEF Undisturbed
  <2>2. ASSUME Undisturbed(r)
        PROVE  /\ ToSet(out'[r]) \subseteq present[r] \cup {Torn}
               /\ Torn \in ToSet(out'[r]) => refilled[r] # {}
    <3>1. /\ ToSet(out[r]) \subseteq present[r] \cup {Torn}
          /\ Torn \in ToSet(out[r]) => refilled[r] # {}
      BY <1>11, <2>2 DEF Walk
    <3>2. present[r] \subseteq Paths \cup {NoPath}
      BY DEF ReadersIInv, ReadersTypeOK
    <3> QED
      BY <1>3, <1>6, <2>2, <3>1, <3>2, TornAssumption
  <2> QED
    BY <1>1, <1>7, <1>10, <1>11, <2>1, <2>2 DEF Walk, Undisturbed
<1> QED
  BY <1>9, <1>12

LEMMA FilledPreserves ==
  ASSUME ReadersIInv, NEW r \in Readers, EndFill(r),
         pcms' = pcms, max_alloc_num' = max_alloc_num, smashed' = smashed, Connected' = Connected
  PROVE  ReadersTypeOK' /\ Walk(r)'
<1>1. rpc \in [Readers -> ReaderLabels] /\ rpc[r] = "fill"
  BY DEF ReadersIInv, ReadersTypeOK, EndFill
<1>2. rpc' \in [Readers -> ReaderLabels] /\ rpc'[r] = "list"
  BY <1>1 DEF EndFill, Move, ReaderLabels
<1>3. \A q \in Readers : rpc'[q] \in {"fill", "copy", "list"} => cnt[q] > 0
  BY DEF EndFill, Move, ReadersIInv, ReadersTypeOK
<1>4. UNCHANGED <<i, size, cnt, out, arg, reads, present, arrived, gone, moved, refilled>>
  BY DEF EndFill, seen
<1>5. ReadersTypeOK'
  BY <1>2, <1>3, <1>4 DEF ReadersIInv, ReadersTypeOK
<1>6. Walk(r)
  BY DEF ReadersIInv
<1>7. Walk(r)'
  BY <1>1, <1>2, <1>4, <1>6 DEF Walk, Undisturbed
<1> QED
  BY <1>5, <1>7

LEMMA ComparePreserves ==
  ASSUME ReadersIInv, NEW r \in Readers, ComparePath(r),
         pcms' = pcms, max_alloc_num' = max_alloc_num, smashed' = smashed, Connected' = Connected
  PROVE  ReadersTypeOK' /\ Walk(r)'
<1>1. /\ rpc \in [Readers -> ReaderLabels] /\ i \in [Readers -> Nat] /\ rpc[r] = "compare"
  BY DEF ReadersIInv, ReadersTypeOK, ComparePath
<1>2. PICK p \in PathRead(r) :
        \/ p \in {arg[r], Torn} /\ Move(r, "already") /\ UNCHANGED i
        \/ p # arg[r] /\ Move(r, "scan") /\ Step(r)
  BY DEF ComparePath
<1>3. Undisturbed(r) => p \in present[r] \/ (p = Torn /\ refilled[r] # {})
  BY <1>1, <1>2, ReadType
<1>4. /\ rpc' \in [Readers -> ReaderLabels] /\ i' \in [Readers -> Nat]
      /\ (rpc'[r] = "already" /\ p \in {arg[r], Torn}) \/ rpc'[r] = "scan"
  <2>1. CASE p \in {arg[r], Torn} /\ Move(r, "already") /\ UNCHANGED i
    BY <1>1, <2>1 DEF Move, ReaderLabels
  <2>2. CASE Move(r, "scan") /\ Step(r)
    BY <1>1, <2>2 DEF Move, Step, ReaderLabels
  <2> QED
    BY <1>2, <2>1, <2>2
<1>5. UNCHANGED <<size, cnt, out, arg, reads, present, arrived, gone, moved, refilled>>
  BY DEF ComparePath, seen
<1>6. \A q \in Readers : rpc'[q] \in {"fill", "copy", "list"} => cnt[q] > 0
  BY <1>1, <1>2 DEF Move, ReadersIInv, ReadersTypeOK
<1>7. ReadersTypeOK'
  BY <1>4, <1>5, <1>6 DEF ReadersIInv, ReadersTypeOK
<1>8. Walk(r)
  BY DEF ReadersIInv
<1>10. ASSUME Undisturbed(r), p \in {arg[r], Torn}
       PROVE  arg[r] \in present[r] \/ refilled[r] # {}
  <2>1. present[r] \subseteq Paths \cup {NoPath}
    BY DEF ReadersIInv, ReadersTypeOK
  <2> QED
    BY <1>3, <1>10, <2>1, TornAssumption
<1>9. Walk(r)'
  BY <1>1, <1>4, <1>5, <1>8, <1>10 DEF Walk, Undisturbed
<1> QED
  BY <1>7, <1>9

LEMMA PickPreserves ==
  ASSUME ReadersIInv, NEW r \in Readers, PickPlayer(r),
         pcms' = pcms, max_alloc_num' = max_alloc_num, smashed' = smashed, Connected' = Connected
  PROVE  ReadersTypeOK' /\ Walk(r)'
<1>1. CASE Leave(r)
  BY <1>1, LeavePreserves
<1>2. CASE ~ Leave(r)
  <2>1. PICK p \in Connected \ {NoPath} : arg' = [arg EXCEPT ![r] = p]
    BY <1>2 DEF PickPlayer
  <2>2. rpc \in [Readers -> ReaderLabels] /\ rpc[r] = "control"
    BY DEF ReadersIInv, ReadersTypeOK, PickPlayer
  <2>3. Move(r, "send") /\ UNCHANGED <<i, size, cnt, out, reads, present, arrived, gone, moved, refilled>>
    BY <1>2 DEF PickPlayer, seen
  <2>4. rpc' \in [Readers -> ReaderLabels] /\ rpc'[r] = "send"
    BY <2>2, <2>3 DEF Move, ReaderLabels
  <2>5. arg' \in [Readers -> Paths \cup {NoPath}] /\ arg'[r] = p
    BY <2>1, ConnectedType DEF ReadersIInv, ReadersTypeOK
  <2>6. \A q \in Readers : rpc'[q] \in {"fill", "copy", "list"} => cnt[q] > 0
    BY <2>3 DEF Move, ReadersIInv, ReadersTypeOK
  <2>7. ReadersTypeOK'
    BY <2>3, <2>4, <2>5, <2>6 DEF ReadersIInv, ReadersTypeOK
  <2>8. Walk(r)
    BY DEF ReadersIInv
  <2>9. Walk(r)'
    BY <2>1, <2>2, <2>3, <2>4, <2>5, <2>8 DEF Walk, Undisturbed
  <2> QED
    BY <2>7, <2>9
<1> QED
  BY <1>1, <1>2

LEMMA ReaderPreserves ==
  ASSUME ReadersIInv, NEW r \in Readers, Reader(r)
  PROVE  ReadersIInv'
<1>1. /\ pcms' = pcms /\ max_alloc_num' = max_alloc_num /\ smashed' = smashed
      /\ Connected' = Connected /\ TypeOK' /\ Sized'
  BY StillThere
<1>2. ReadersTypeOK' /\ Walk(r)'
  <2>1. CASE get_connect_status(r)
    <3>1. CASE EndCount(r)
      <4>1. CASE cnt[r] = 0
        <5>1. Leave(r)
          BY <3>1, <4>1 DEF EndCount
        <5> QED
          BY <5>1, LeavePreserves
      <4>2. CASE cnt[r] # 0
        <5>1. StartFill(r) /\ rpc[r] = "count"
          BY <3>1, <4>2 DEF EndCount
        <5> QED
          BY <1>1, <4>2, <5>1, CountPreserves
      <4> QED
        BY <4>1, <4>2
    <3>2. CASE TestSlot(r, "fill", "copy")
      BY <1>1, <3>2, TestPreserves
    <3>3. CASE Call(r, "count", NoPath)
      BY <3>3, CallPreserves
    <3>4. CASE CountSlot(r)
      BY <1>1, <3>4, CountPreserves
    <3>5. CASE CopySlot(r)
      BY <1>1, <3>5, CopyPreserves
    <3>6. CASE EndFill(r)
      BY <1>1, <3>6, FilledPreserves
    <3> QED
      BY <2>1, <3>1, <3>2, <3>3, <3>4, <3>5, <3>6 DEF get_connect_status
  <2>2. CASE connect_dev(r)
    <3>1. CASE TestSlot(r, "scan", "compare")
      BY <1>1, <3>1, TestPreserves
    <3>2. CASE \E p \in Paths : Call(r, "scan", p)
      BY <3>2, CallPreserves
    <3> QED
      BY <1>1, <2>2, <3>1, <3>2, ComparePreserves, LeavePreserves DEF connect_dev, EndScan
  <2>3. CASE a2dp_control(r)
    BY <1>1, <2>3, CallPreserves, PickPreserves DEF a2dp_control
  <2>4. CASE Return(r)
    BY <2>4, LeavePreserves DEF Return
  <2> QED
    BY <2>1, <2>2, <2>3, <2>4 DEF Reader
<1>3. \A q \in Readers : Walk(q)'
  BY <1>2, OtherWalks
<1> QED
  BY <1>1, <1>2, <1>3 DEF ReadersIInv

LEMMA ReadersStart == ReadersInit => ReadersIInv
<1> SUFFICES ASSUME ReadersInit PROVE ReadersIInv
  OBVIOUS
<1>1. TypeOK
  BY InitType DEF ReadersInit
<1>2. Sized
  BY DEF ReadersInit, Init, Sized
<1>3. ReadersTypeOK
  BY ReadsAssumption, EmptySeq DEF ReadersInit, ReadersTypeOK, ReaderLabels
<1>4. ASSUME NEW r \in Readers PROVE Walk(r)
  <2>1. rpc[r] = "idle" /\ out[r] = <<>>
    BY DEF ReadersInit
  <2>2. ToSet(out[r]) = {}
    BY <2>1 DEF ToSet
  <2> QED
    BY <2>1, <2>2 DEF Walk
<1> QED
  BY <1>1, <1>2, <1>3, <1>4 DEF ReadersIInv

\* Whatever the writers and the other readers do, a walk stays inside the table it
\* took the address of, and what it knows was true at some time of the call.
THEOREM ReadersInvariant == ReadersSpec => []ReadersIInv
<1>1. ASSUME ReadersIInv, [ReadersNext]_rvars PROVE ReadersIInv'
  <2>1. CASE Writers
    BY <1>1, <2>1, WritersKeepWalks
  <2>2. CASE \E r \in Readers : Reader(r)
    BY <1>1, <2>2, ReaderPreserves
  <2>3. CASE UNCHANGED rvars
    <3>1. TypeOK'
      BY <1>1, <2>3, TypeStep DEF ReadersIInv, rvars
    <3>2. Sized'
      BY <1>1, <2>3 DEF ReadersIInv, Sized, rvars, vars, boot, tbl, hist
    <3>3. ReadersTypeOK'
      BY <1>1, <2>3 DEF ReadersIInv, ReadersTypeOK, rvars, local, seen
    <3>4. Connected' = Connected /\ UNCHANGED <<pcms, max_alloc_num, smashed>>
      BY <2>3 DEF rvars, vars, tbl, hist, Connected, Indices
    <3>5. \A r \in Readers : Walk(r)'
      BY <1>1, <2>3, <3>4 DEF ReadersIInv, Walk, Undisturbed, rvars, local, seen
    <3> QED
      BY <3>1, <3>2, <3>3, <3>5 DEF ReadersIInv
  <2> QED
    BY <1>1, <2>1, <2>2, <2>3 DEF ReadersNext
<1> QED
  BY <1>1, ReadersStart, PTL DEF ReadersSpec

\* The variables of a call have their types, and a list that is being filled was
\* allocated with room for something.
THEOREM ReadersTypeCorrect == ReadersSpec => []ReadersTypeOK
<1>1. ReadersIInv => ReadersTypeOK
  BY DEF ReadersIInv
<1> QED
  BY <1>1, ReadersInvariant, PTL

\* A walk over the table without mtx reports only devices that were connected at
\* some time of the call, whatever the other threads do, unless the table was moved
\* or a stray byte hit it; an address that is not one of theirs takes a slot that got
\* another path while the call ran.
THEOREM ReadersAreTruthful == ReadersSpec => []ReadersSeeRealDevices
<1>1. ReadersIInv => ReadersSeeRealDevices
  BY DEF ReadersIInv, Walk, ReadersSeeRealDevices
<1> QED
  BY <1>1, ReadersInvariant, PTL

-----------------------------------------------------------------------------
(* get_connect_status counts in one pass and fills in another *)

\* The connected slots from lo up to hi.
Full(lo, hi) == {k \in lo .. hi - 1 : Slot(k)}

\* The connected slots that the count has passed, or that the second pass has to
\* come to.
InView(r) == IF rpc[r] = "count" THEN Full(0, i[r])
             ELSE Full(IF rpc[r] = "copy" THEN i[r] + 1 ELSE i[r], max_alloc_num)

\* The entries written, and the one about to be.
Taken(r) == Len(out[r]) + (IF rpc[r] = "copy" THEN 1 ELSE 0)

\* What is written and what is in view is what was counted, give or take the slots
\* that changed.
Balance(r) ==
  /\ rpc[r] \notin {"fill", "copy", "list"} => out[r] = <<>>
  /\ Undisturbed(r) /\ rpc[r] \in {"count", "fill", "copy"} =>
       /\ Taken(r) + Cardinality(InView(r)) <= cnt[r] + arrived[r]
       /\ cnt[r] <= Taken(r) + Cardinality(InView(r)) + gone[r]
  /\ Undisturbed(r) /\ rpc[r] = "list" =>
       /\ Len(out[r]) <= cnt[r] + arrived[r]
       /\ cnt[r] <= Len(out[r]) + gone[r]

LEMMA FullFinite ==
  ASSUME NEW lo \in Int, NEW hi \in Int
  PROVE  IsFiniteSet(Full(lo, hi)) /\ Cardinality(Full(lo, hi)) \in Nat
<1>1. IsFiniteSet(lo .. hi - 1)
  BY FS_Interval
<1>2. Full(lo, hi) \in SUBSET (lo .. hi - 1)
  BY DEF Full
<1>3. IsFiniteSet(Full(lo, hi))
  BY <1>1, <1>2, FS_Subset
<1> QED
  BY <1>3, FS_CardinalityType

LEMMA ViewFinite ==
  ASSUME TypeOK, ReadersTypeOK, NEW r \in Readers
  PROVE  IsFiniteSet(InView(r)) /\ Cardinality(InView(r)) \in Nat
<1>1. PICK k \in Nat, n \in Nat : k = i[r] /\ n = max_alloc_num
  BY DEF TypeOK, ReadersTypeOK
<1>2. IsFiniteSet(Full(0, k)) /\ Cardinality(Full(0, k)) \in Nat
  BY FullFinite
<1>3. IsFiniteSet(Full(k, n)) /\ Cardinality(Full(k, n)) \in Nat
  BY FullFinite
<1>4. IsFiniteSet(Full(k + 1, n)) /\ Cardinality(Full(k + 1, n)) \in Nat
  BY FullFinite
<1>5. InView(r) \in {Full(0, k), Full(k, n), Full(k + 1, n)}
  BY <1>1 DEF InView, Full
<1> QED
  BY <1>2, <1>3, <1>4, <1>5

\* Counting what is in one of two sets.
LEMMA CoverBound ==
  ASSUME NEW A, NEW B, NEW C, IsFiniteSet(B), IsFiniteSet(C), A \subseteq B \cup C
  PROVE  Cardinality(A) <= Cardinality(B) + Cardinality(C)
<1>1. IsFiniteSet(B \cup C) /\ IsFiniteSet(B \cap C)
  BY FS_Union, FS_Intersection
<1>2. Cardinality(B \cup C) = Cardinality(B) + Cardinality(C) - Cardinality(B \cap C)
  BY FS_Union
<1>3. IsFiniteSet(A) /\ Cardinality(A) <= Cardinality(B \cup C)
  BY <1>1, FS_Subset
<1>4. /\ Cardinality(A) \in Nat /\ Cardinality(B) \in Nat /\ Cardinality(C) \in Nat
      /\ Cardinality(B \cap C) \in Nat
  BY <1>1, <1>3, FS_CardinalityType
<1> QED
  BY <1>2, <1>3, <1>4

LEMMA Sums ==
  ASSUME NEW t \in Nat, NEW v \in Nat, NEW w \in Nat, NEW c \in Nat,
         NEW a \in Nat, NEW g \in Nat, NEW u \in Nat, NEW d \in Nat,
         t + v <= c + a, c <= t + v + g, w <= v + u, v <= w + d
  PROVE  t + w <= c + (a + u) /\ c <= t + w + (g + d)
  OBVIOUS

\* The writers change what is in view by slots that arrived and slots that went.
LEMMA WritersKeepBalance ==
  ASSUME ReadersIInv, Writers, ReadersIInv', NEW r \in Readers, Balance(r)
  PROVE  Balance(r)'
<1> DEFINE all  == 0 .. max_alloc_num + max_alloc_num'
           up   == {k \in all : Slot(k)' /\ ~ Slot(k)}
           down == {k \in all : Slot(k) /\ ~ Slot(k)'}
<1>1. UNCHANGED <<rpc, i, size, cnt, out, arg>>
  BY DEF Writers, local
<1>2. CASE rpc[r] = "idle" \/ moved[r] \/ max_alloc_num' # max_alloc_num
  <2>1. rpc[r] # "idle" => moved'[r]
    BY <1>2 DEF Writers
  <2> QED
    BY <1>1, <2>1 DEF Balance, Undisturbed
<1>3. CASE rpc[r] # "idle" /\ ~ moved[r] /\ max_alloc_num' = max_alloc_num
  <2>1. /\ arrived'[r] = arrived[r] + Cardinality(up)
        /\ gone'[r] = gone[r] + Cardinality(down)
    BY <1>3 DEF Writers
  <2>2. ~ smashed' => ~ smashed
    BY <1>3, TableStep DEF ReadersIInv, Writers
  <2>3. /\ i[r] \in Nat /\ max_alloc_num \in Nat /\ cnt[r] \in Nat
        /\ arrived[r] \in Nat /\ gone[r] \in Nat /\ Len(out[r]) \in Nat
    BY DEF ReadersIInv, ReadersTypeOK, TypeOK
  <2>4. IsFiniteSet(up) /\ IsFiniteSet(down)
    <3>1. max_alloc_num' \in Nat
      BY DEF ReadersIInv, TypeOK
    <3>2. IsFiniteSet(all)
      BY <2>3, <3>1, FS_Interval
    <3> QED
      BY <3>2, FS_Subset
  <2>5. ASSUME NEW lo \in Nat, NEW hi \in Int
        PROVE  Full(lo, hi)' \subseteq Full(lo, hi) \cup up /\ Full(lo, hi) \subseteq Full(lo, hi)' \cup down
    <3>1. \A k \in lo .. hi - 1 : (Slot(k) \/ Slot(k)') => k \in all
      BY <1>3, <2>3 DEF Slot, Indices
    <3> QED
      BY <3>1 DEF Full
  <2>6. InView(r)' \subseteq InView(r) \cup up /\ InView(r) \subseteq InView(r)' \cup down
    BY <1>1, <1>3, <2>3, <2>5 DEF InView
  <2>7. /\ IsFiniteSet(InView(r)) /\ Cardinality(InView(r)) \in Nat
        /\ IsFiniteSet(InView(r)') /\ Cardinality(InView(r)') \in Nat
    <3>1. (TypeOK /\ ReadersTypeOK => IsFiniteSet(InView(r)) /\ Cardinality(InView(r)) \in Nat)'
      BY ViewFinite, PTL
    <3> QED
      BY <3>1, ViewFinite DEF ReadersIInv
  <2> HIDE DEF up, down
  <2>8. /\ Cardinality(InView(r)') <= Cardinality(InView(r)) + Cardinality(up)
        /\ Cardinality(InView(r)) <= Cardinality(InView(r)') + Cardinality(down)
    BY <2>4, <2>6, <2>7, CoverBound
  <2>9. Cardinality(up) \in Nat /\ Cardinality(down) \in Nat
    BY <2>4, FS_CardinalityType
  <2>10. Taken(r)' = Taken(r) /\ Taken(r) \in Nat
    <3>1. (rpc'[r] = "copy" <=> rpc[r] = "copy") /\ Len(out'[r]) = Len(out[r])
      BY <1>1
    <3>2. CASE rpc[r] = "copy"
      <4>1. Taken(r) = Len(out[r]) + 1 /\ Taken(r)' = Len(out'[r]) + 1
        BY <3>1, <3>2 DEF Taken
      <4> QED
        BY <2>3, <3>1, <4>1
    <3>3. CASE rpc[r] # "copy"
      <4>1. Taken(r) = Len(out[r]) + 0 /\ Taken(r)' = Len(out'[r]) + 0
        BY <3>1, <3>3 DEF Taken
      <4> QED
        BY <2>3, <3>1, <4>1
    <3> QED
      BY <3>2, <3>3
  <2>11. Undisturbed(r)' => Undisturbed(r)
    BY <1>3, <2>2 DEF Undisturbed
  <2>12. /\ rpc'[r] = rpc[r] /\ out'[r] = out[r] /\ cnt'[r] = cnt[r]
         /\ Len(out'[r]) = Len(out[r])
    BY <1>1
  <2>13. ASSUME Undisturbed(r)', rpc[r] \in {"count", "fill", "copy"}
         PROVE  /\ Taken(r)' + Cardinality(InView(r)') <= cnt'[r] + arrived'[r]
                /\ cnt'[r] <= Taken(r)' + Cardinality(InView(r)') + gone'[r]
    <3>1. /\ Taken(r) + Cardinality(InView(r)) <= cnt[r] + arrived[r]
          /\ cnt[r] <= Taken(r) + Cardinality(InView(r)) + gone[r]
      BY <2>11, <2>13 DEF Balance
    <3> QED
      <4> HIDE DEF Taken, InView
      <4>1. /\ Taken(r) + Cardinality(InView(r)') <= cnt[r] + (arrived[r] + Cardinality(up))
            /\ cnt[r] <= Taken(r) + Cardinality(InView(r)') + (gone[r] + Cardinality(down))
        BY <2>3, <2>7, <2>8, <2>9, <2>10, <3>1, Sums, Zenon
      <4> QED
        BY <2>1, <2>10, <2>12, <4>1
  <2>14. ASSUME Undisturbed(r)', rpc[r] = "list"
         PROVE  Len(out'[r]) <= cnt'[r] + arrived'[r] /\ cnt'[r] <= Len(out'[r]) + gone'[r]
    <3>1. Len(out[r]) <= cnt[r] + arrived[r] /\ cnt[r] <= Len(out[r]) + gone[r]
      BY <2>11, <2>14 DEF Balance
    <3> QED
      BY <2>1, <2>3, <2>9, <2>12, <3>1
  <2> HIDE DEF Taken, InView
  <2> QED
    BY <2>12, <2>13, <2>14 DEF Balance
<1> QED
  BY <1>2, <1>3

\* Where a call starts, and where it leaves, nothing is counted or written.
LEMMA FreshBalance ==
  ASSUME ReadersIInv, NEW r \in Readers,
         NEW l \in {"count", "scan", "control", "idle"}, NEW n, NEW p, NEW now,
         Move(r, l), Fresh(r, n, p, now)
  PROVE  Balance(r)'
<1>1. /\ rpc'[r] = l /\ out'[r] = <<>> /\ cnt'[r] = 0 /\ arrived'[r] = 0 /\ gone'[r] = 0
      /\ i'[r] = 0
  BY DEF ReadersIInv, ReadersTypeOK, Move, Fresh
<1>2. l = "count" => InView(r)' = {}
  BY <1>1 DEF InView, Full
<1>3. Taken(r)' = 0
  BY <1>1 DEF Taken
<1>4. Cardinality({}) = 0
  BY FS_EmptySet
<1>5. ASSUME l = "count" PROVE Cardinality(InView(r)') = 0
  BY <1>2, <1>4, <1>5
<1> HIDE DEF Taken, InView
<1> QED
  BY <1>1, <1>3, <1>5 DEF Balance

LEMMA SlotHere ==
  ASSUME TypeOK, NEW k \in Nat, k < max_alloc_num
  PROVE  Slot(k) = pcms[k].connect_flag
<1>1. k \in Indices
  BY DEF Indices, TypeOK
<1> QED
  BY <1>1 DEF Slot

\* One slot more at the end, or one less at the beginning.
LEMMA FullStep ==
  ASSUME TypeOK, NEW k \in Nat, k < max_alloc_num
  PROVE  /\ Cardinality(Full(0, k + 1)) =
              Cardinality(Full(0, k)) + (IF pcms[k].connect_flag THEN 1 ELSE 0)
         /\ Cardinality(Full(k, max_alloc_num)) =
              Cardinality(Full(k + 1, max_alloc_num)) + (IF pcms[k].connect_flag THEN 1 ELSE 0)
<1>0. max_alloc_num \in Nat
  BY DEF TypeOK
<1>1. Slot(k) = pcms[k].connect_flag
  BY SlotHere
<1>2. /\ IsFiniteSet(Full(0, k)) /\ IsFiniteSet(Full(k + 1, max_alloc_num))
      /\ k \notin Full(0, k) /\ k \notin Full(k + 1, max_alloc_num)
      /\ Cardinality(Full(0, k)) \in Nat /\ Cardinality(Full(k + 1, max_alloc_num)) \in Nat
  <2>1. IsFiniteSet(Full(0, k)) /\ Cardinality(Full(0, k)) \in Nat
    BY FullFinite
  <2>2. /\ IsFiniteSet(Full(k + 1, max_alloc_num))
        /\ Cardinality(Full(k + 1, max_alloc_num)) \in Nat
    BY <1>0, FullFinite
  <2>3. k \notin Full(0, k) /\ k \notin Full(k + 1, max_alloc_num)
    BY DEF Full
  <2> QED
    BY <2>1, <2>2, <2>3
<1>3. CASE pcms[k].connect_flag
  <2>1. /\ Full(0, k + 1) = Full(0, k) \cup {k}
        /\ Full(k, max_alloc_num) = Full(k + 1, max_alloc_num) \cup {k}
    <3>1. Slot(k)
      BY <1>1, <1>3
    <3>2. 0 .. (k + 1) - 1 = (0 .. k - 1) \cup {k}
      OBVIOUS
    <3>3. k .. max_alloc_num - 1 = ((k + 1) .. max_alloc_num - 1) \cup {k}
      BY <1>0
    <3> QED
      BY <3>1, <3>2, <3>3 DEF Full
  <2>2. /\ Cardinality(Full(0, k) \cup {k}) = Cardinality(Full(0, k)) + 1
        /\ Cardinality(Full(k + 1, max_alloc_num) \cup {k}) =
             Cardinality(Full(k + 1, max_alloc_num)) + 1
    BY <1>2, FS_AddElement
  <2> QED
    BY <1>3, <2>1, <2>2
<1>4. CASE ~ pcms[k].connect_flag
  <2>1. Full(0, k + 1) = Full(0, k) /\ Full(k, max_alloc_num) = Full(k + 1, max_alloc_num)
    <3>1. ~ Slot(k)
      BY <1>1, <1>4
    <3>2. 0 .. (k + 1) - 1 = (0 .. k - 1) \cup {k}
      OBVIOUS
    <3>3. k .. max_alloc_num - 1 = ((k + 1) .. max_alloc_num - 1) \cup {k}
      BY <1>0
    <3> QED
      BY <3>1, <3>2, <3>3 DEF Full
  <2> QED
    BY <1>2, <1>4, <2>1
<1> QED
  BY <1>3, <1>4

LEMMA FullStays ==
  ASSUME pcms' = pcms, max_alloc_num' = max_alloc_num, NEW lo, NEW hi
  PROVE  Full(lo, hi)' = Full(lo, hi)
  BY DEF Full, Slot, Indices

LEMMA CountKeepsBalance ==
  ASSUME ReadersIInv, NEW r \in Readers, Balance(r), CountSlot(r),
         pcms' = pcms, max_alloc_num' = max_alloc_num, smashed' = smashed
  PROVE  Balance(r)'
<1>1. PICK k \in Nat, n \in Nat, c \in Nat : k = i[r] /\ n = max_alloc_num /\ c = cnt[r]
  BY DEF ReadersIInv, TypeOK, ReadersTypeOK
<1>2. /\ rpc[r] = "count" /\ rpc'[r] = "count" /\ out'[r] = out[r] /\ i'[r] = k + 1 /\ k < n
      /\ arrived'[r] = arrived[r] /\ gone'[r] = gone[r] /\ moved'[r] = moved[r]
  BY <1>1 DEF CountSlot, Step, seen, ReadersIInv, ReadersTypeOK
<1>3. out[r] = <<>> /\ out'[r] = <<>> /\ Taken(r) = 0 /\ Taken(r)' = 0
  BY <1>2 DEF Balance, Taken
<1>4. ASSUME Undisturbed(r)'
      PROVE  /\ Taken(r)' + Cardinality(InView(r)') <= cnt'[r] + arrived'[r]
             /\ cnt'[r] <= Taken(r)' + Cardinality(InView(r)') + gone'[r]
  <2>1. Undisturbed(r)
    BY <1>2, <1>4 DEF Undisturbed
  <2>2. size[r] = n
    BY <1>1, <1>2, <2>1 DEF Undisturbed, ReadersIInv, Walk
  <2>3. cnt'[r] = c + (IF pcms[k].connect_flag THEN 1 ELSE 0)
    <3>1. cnt' = [cnt EXCEPT ![r] = IF pcms[k].connect_flag THEN @ + 1 ELSE @]
      BY <1>1, <2>2 DEF CountSlot
    <3>2. cnt \in [Readers -> Nat]
      BY DEF ReadersIInv, ReadersTypeOK
    <3> QED
      BY <1>1, <3>1, <3>2
  <2>4. InView(r) = Full(0, k) /\ InView(r)' = Full(0, k + 1)
    <3>1. Full(0, k + 1)' = Full(0, k + 1)
      BY FullStays
    <3>2. InView(r)' = Full(0, k + 1)'
      BY <1>2 DEF InView, Full
    <3>3. InView(r) = Full(0, k)
      BY <1>1, <1>2 DEF InView, Full
    <3> QED
      BY <3>1, <3>2, <3>3
  <2>5. Cardinality(Full(0, k + 1)) =
          Cardinality(Full(0, k)) + (IF pcms[k].connect_flag THEN 1 ELSE 0)
    BY <1>1, <1>2, FullStep DEF ReadersIInv
  <2>6. Cardinality(Full(0, k)) \in Nat /\ arrived[r] \in Nat /\ gone[r] \in Nat
    <3>1. Cardinality(Full(0, k)) \in Nat
      BY FullFinite
    <3> QED
      BY <3>1 DEF ReadersIInv, ReadersTypeOK
  <2>7. Cardinality(Full(0, k)) <= c + arrived[r] /\ c <= Cardinality(Full(0, k)) + gone[r]
    BY <1>1, <1>2, <1>3, <2>1, <2>4, <2>6 DEF Balance
  <2>8. CASE pcms[k].connect_flag
    <3>1. cnt'[r] = c + 1 /\ Cardinality(InView(r)') = Cardinality(Full(0, k)) + 1
      BY <2>3, <2>4, <2>5, <2>8
    <3> QED
      BY <1>2, <1>3, <2>6, <2>7, <3>1
  <2>9. CASE ~ pcms[k].connect_flag
    <3>1. cnt'[r] = c /\ Cardinality(InView(r)') = Cardinality(Full(0, k))
      BY <2>3, <2>4, <2>5, <2>6, <2>9
    <3> QED
      BY <1>2, <1>3, <2>6, <2>7, <3>1
  <2> QED
    BY <2>8, <2>9
<1> HIDE DEF Taken, InView
<1> QED
  BY <1>2, <1>3, <1>4 DEF Balance

LEMMA StartFillKeepsBalance ==
  ASSUME ReadersIInv, NEW r \in Readers, Balance(r), EndCount(r), StartFill(r),
         pcms' = pcms, max_alloc_num' = max_alloc_num, smashed' = smashed
  PROVE  Balance(r)'
<1>1. PICK k \in Nat, n \in Nat : k = i[r] /\ n = max_alloc_num
  BY DEF ReadersIInv, TypeOK, ReadersTypeOK
<1>2. /\ rpc[r] = "count" /\ rpc'[r] = "fill" /\ out'[r] = out[r] /\ i'[r] = 0
      /\ cnt'[r] = cnt[r]
      /\ arrived'[r] = arrived[r] /\ gone'[r] = gone[r] /\ moved'[r] = moved[r]
  BY DEF EndCount, StartFill, Move, seen, ReadersIInv, ReadersTypeOK
<1>3. out[r] = <<>> /\ Taken(r) = 0 /\ Taken(r)' = 0
  BY <1>2 DEF Balance, Taken
<1>4. ASSUME Undisturbed(r)'
      PROVE  /\ Taken(r)' + Cardinality(InView(r)') <= cnt'[r] + arrived'[r]
             /\ cnt'[r] <= Taken(r)' + Cardinality(InView(r)') + gone'[r]
  <2>1. Undisturbed(r)
    BY <1>2, <1>4 DEF Undisturbed
  <2>2. k >= n
    BY <1>1, <1>2, <2>1 DEF Undisturbed, ReadersIInv, Walk, EndCount
  <2>3. Full(0, n)' = Full(0, k)
    <3>1. Full(0, n) = Full(0, k)
      BY <1>1, <2>2 DEF Full, Slot, Indices
    <3> QED
      BY <3>1, FullStays
  <2>4. InView(r) = Full(0, k) /\ InView(r)' = Full(0, n)'
    BY <1>1, <1>2 DEF InView, Full
  <2> QED
    BY <1>2, <1>3, <2>1, <2>3, <2>4 DEF Balance
<1> HIDE DEF Taken, InView
<1> QED
  BY <1>2, <1>4 DEF Balance

\* A slot that is passed over was not in view; one that is going to be copied is
\* counted as taken from then on, whatever becomes of it.
LEMMA TestKeepsBalance ==
  ASSUME ReadersIInv, NEW r \in Readers, Balance(r), TestSlot(r, "fill", "copy"),
         pcms' = pcms, max_alloc_num' = max_alloc_num, smashed' = smashed
  PROVE  Balance(r)'
<1>1. PICK k \in Nat, n \in Nat : k = i[r] /\ n = max_alloc_num
  BY DEF ReadersIInv, TypeOK, ReadersTypeOK
<1>2. /\ rpc[r] = "fill" /\ out'[r] = out[r] /\ cnt'[r] = cnt[r] /\ k < n
      /\ arrived'[r] = arrived[r] /\ gone'[r] = gone[r] /\ moved'[r] = moved[r]
  BY <1>1 DEF TestSlot, seen
<1>3. IF pcms[k].connect_flag THEN rpc'[r] = "copy" /\ i'[r] = k
                              ELSE rpc'[r] = "fill" /\ i'[r] = k + 1
  BY <1>1, <1>2 DEF TestSlot, Move, Step, ReadersIInv, ReadersTypeOK
<1>4. InView(r) = Full(k, n) /\ InView(r)' = Full(k + 1, n)
  <2>1. InView(r) = Full(k, n)
    BY <1>1, <1>2 DEF InView, Full
  <2>2. InView(r)' = Full(k + 1, n)'
    <3>1. CASE pcms[k].connect_flag
      BY <1>1, <1>3, <3>1 DEF InView, Full
    <3>2. CASE ~ pcms[k].connect_flag
      BY <1>1, <1>3, <3>2 DEF InView, Full
    <3> QED
      BY <3>1, <3>2
  <2> QED
    BY <2>1, <2>2, FullStays
<1>5. Cardinality(Full(k, n)) =
        Cardinality(Full(k + 1, n)) + (IF pcms[k].connect_flag THEN 1 ELSE 0)
  <2>1. Full(k, n) = Full(k, max_alloc_num) /\ Full(k + 1, n) = Full(k + 1, max_alloc_num)
    BY <1>1
  <2> QED
    BY <1>1, <1>2, <2>1, FullStep DEF ReadersIInv
<1>6. Cardinality(Full(k + 1, n)) \in Nat /\ Len(out[r]) \in Nat
  <2>1. Cardinality(Full(k + 1, n)) \in Nat
    BY FullFinite
  <2> QED
    BY <2>1 DEF ReadersIInv, ReadersTypeOK
<1>7. Taken(r)' + Cardinality(InView(r)') = Taken(r) + Cardinality(InView(r))
  <2>0. Taken(r) = Len(out[r]) + 0
    BY <1>2 DEF Taken
  <2>1. CASE pcms[k].connect_flag
    <3>1. Taken(r)' = Len(out[r]) + 1
      BY <1>2, <1>3, <2>1 DEF Taken
    <3> QED
      BY <1>4, <1>5, <1>6, <2>0, <2>1, <3>1
  <2>2. CASE ~ pcms[k].connect_flag
    <3>1. Taken(r)' = Len(out[r]) + 0
      BY <1>2, <1>3, <2>2 DEF Taken
    <3> QED
      BY <1>4, <1>5, <1>6, <2>0, <2>2, <3>1
  <2> QED
    BY <2>1, <2>2
<1>8. rpc'[r] \in {"fill", "copy"} /\ (Undisturbed(r)' => Undisturbed(r))
  BY <1>2, <1>3 DEF Undisturbed
<1> HIDE DEF Taken, InView
<1> QED
  BY <1>2, <1>7, <1>8 DEF Balance

LEMMA CopyKeepsBalance ==
  ASSUME ReadersIInv, NEW r \in Readers, Balance(r), CopySlot(r),
         pcms' = pcms, max_alloc_num' = max_alloc_num, smashed' = smashed
  PROVE  Balance(r)'
<1>1. PICK k \in Nat, n \in Nat : k = i[r] /\ n = max_alloc_num
  BY DEF ReadersIInv, TypeOK, ReadersTypeOK
<1>2. /\ rpc[r] = "copy" /\ rpc'[r] = "fill" /\ i'[r] = k + 1 /\ cnt'[r] = cnt[r]
      /\ arrived'[r] = arrived[r] /\ gone'[r] = gone[r] /\ moved'[r] = moved[r]
  BY <1>1 DEF CopySlot, Move, Step, seen, ReadersIInv, ReadersTypeOK
<1>3. Len(out'[r]) = Len(out[r]) + 1
  <2>1. PICK p \in PathRead(r) : out' = [out EXCEPT ![r] = Append(@, p)]
    BY DEF CopySlot
  <2>2. out \in [Readers -> Seq(Paths \cup {NoPath, Torn})] /\ p \in Paths \cup {NoPath, Torn}
    BY <1>2, <2>1, ReadType DEF ReadersIInv, ReadersTypeOK
  <2> QED
    BY <2>1, <2>2
<1>4. Taken(r)' = Taken(r)
  <2>1. Len(out[r]) \in Nat
    BY DEF ReadersIInv, ReadersTypeOK
  <2>2. Taken(r) = Len(out[r]) + 1 /\ Taken(r)' = Len(out'[r]) + 0
    BY <1>2 DEF Taken
  <2> QED
    BY <1>3, <2>1, <2>2
<1>5. InView(r)' = InView(r)
  <2>1. InView(r) = Full(k + 1, n) /\ InView(r)' = Full(k + 1, n)'
    BY <1>1, <1>2 DEF InView, Full
  <2> QED
    BY <2>1, FullStays
<1>6. Undisturbed(r)' => Undisturbed(r)
  BY <1>2 DEF Undisturbed
<1> HIDE DEF Taken, InView
<1> QED
  BY <1>2, <1>4, <1>5, <1>6 DEF Balance

LEMMA EndFillKeepsBalance ==
  ASSUME ReadersIInv, NEW r \in Readers, Balance(r), EndFill(r),
         smashed' = smashed
  PROVE  Balance(r)'
<1>1. PICK k \in Nat, n \in Nat : k = i[r] /\ n = max_alloc_num
  BY DEF ReadersIInv, TypeOK, ReadersTypeOK
<1>2. /\ rpc[r] = "fill" /\ rpc'[r] = "list" /\ k >= n /\ out'[r] = out[r] /\ cnt'[r] = cnt[r]
      /\ arrived'[r] = arrived[r] /\ gone'[r] = gone[r] /\ moved'[r] = moved[r]
  BY <1>1 DEF EndFill, Move, seen, ReadersIInv, ReadersTypeOK
<1>3. InView(r) = {}
  BY <1>1, <1>2 DEF InView, Full
<1>4. Cardinality(InView(r)) = 0
  BY <1>3, FS_EmptySet
<1>5. Taken(r) = Len(out[r]) + 0 /\ Len(out[r]) \in Nat /\ cnt[r] \in Nat
      /\ arrived[r] \in Nat /\ gone[r] \in Nat
  BY <1>2 DEF Taken, ReadersIInv, ReadersTypeOK
<1>6. Undisturbed(r)' => Undisturbed(r)
  BY <1>2 DEF Undisturbed
<1> HIDE DEF Taken, InView
<1> QED
  BY <1>2, <1>4, <1>5, <1>6 DEF Balance

\* The other two calls have no list.
LEMMA OtherCallsBalance ==
  ASSUME ReadersIInv, NEW r \in Readers, Balance(r),
         \/ TestSlot(r, "scan", "compare") \/ ComparePath(r)
         \/ PickPlayer(r) /\ ~ Leave(r)
  PROVE  Balance(r)'
<1>1. /\ rpc[r] \notin {"count", "fill", "copy", "list"}
      /\ rpc'[r] \notin {"count", "fill", "copy", "list"} /\ out'[r] = out[r]
  BY DEF TestSlot, ComparePath, PickPlayer, Move, Step, ReadersIInv, ReadersTypeOK
<1> QED
  BY <1>1 DEF Balance

LEMMA ReaderKeepsBalance ==
  ASSUME ReadersIInv, NEW r \in Readers, Reader(r), Balance(r)
  PROVE  Balance(r)'
<1>1. pcms' = pcms /\ max_alloc_num' = max_alloc_num /\ smashed' = smashed
  BY StillThere
<1>2. ASSUME NEW l \in {"count", "scan", "control"}, NEW p \in Paths \cup {NoPath}, Call(r, l, p)
      PROVE  Balance(r)'
  BY <1>2, FreshBalance DEF Call
<1>3. ASSUME Leave(r) PROVE Balance(r)'
  BY <1>3, FreshBalance DEF Leave
<1>4. CASE get_connect_status(r)
  <2>1. CASE EndCount(r)
    BY <1>1, <1>3, <2>1, StartFillKeepsBalance DEF EndCount
  <2>2. CASE Call(r, "count", NoPath) \/ CountSlot(r)
    BY <1>1, <1>2, <2>2, CountKeepsBalance
  <2>3. CASE TestSlot(r, "fill", "copy")
    BY <1>1, <2>3, TestKeepsBalance
  <2>4. CASE CopySlot(r) \/ EndFill(r)
    BY <1>1, <2>4, CopyKeepsBalance, EndFillKeepsBalance
  <2> QED
    BY <1>4, <2>1, <2>2, <2>3, <2>4 DEF get_connect_status
<1>5. CASE connect_dev(r)
  BY <1>2, <1>3, <1>5, OtherCallsBalance DEF connect_dev, EndScan
<1>6. CASE a2dp_control(r) \/ Return(r)
  <2>1. CASE Return(r) \/ Call(r, "control", NoPath)
    BY <1>2, <1>3, <2>1 DEF Return
  <2>2. CASE PickPlayer(r)
    BY <1>3, <2>2, OtherCallsBalance
  <2> QED
    BY <1>6, <2>1, <2>2 DEF a2dp_control
<1> QED
  BY <1>4, <1>5, <1>6 DEF Reader

LEMMA OthersKeepBalance ==
  ASSUME ReadersIInv, NEW r \in Readers, Reader(r), NEW q \in Readers, q # r, Balance(q)
  PROVE  Balance(q)'
<1>1. pcms' = pcms /\ max_alloc_num' = max_alloc_num /\ smashed' = smashed
  BY StillThere
<1>2. /\ rpc'[q] = rpc[q] /\ i'[q] = i[q] /\ out'[q] = out[q] /\ cnt'[q] = cnt[q]
      /\ arrived'[q] = arrived[q] /\ gone'[q] = gone[q] /\ moved'[q] = moved[q]
  BY OthersUnchanged DEF ReadersIInv
<1>3. InView(q)' = InView(q) /\ Taken(q)' = Taken(q)
  BY <1>1, <1>2 DEF InView, Taken, Full, Slot, Indices
<1> HIDE DEF Taken, InView
<1> QED
  BY <1>1, <1>2, <1>3 DEF Balance, Undisturbed

Balanced == \A r \in Readers : Balance(r)

\* Whatever connects and disconnects while get_connect_status runs, its two passes
\* differ by no more than that.
THEOREM PassesBalance == ReadersSpec => []Balanced
<1>1. ReadersInit => Balanced
  BY DEF ReadersInit, Balanced, Balance
<1>2. ASSUME ReadersIInv, ReadersIInv', Balanced, [ReadersNext]_rvars
      PROVE  Balanced'
  <2>1. CASE Writers
    BY <1>2, <2>1, WritersKeepBalance DEF Balanced
  <2>2. ASSUME NEW r \in Readers, Reader(r)
        PROVE  Balanced'
    <3>1. ASSUME NEW q \in Readers PROVE Balance(q)'
      BY <1>2, <2>2, ReaderKeepsBalance, OthersKeepBalance DEF Balanced
    <3> QED
      BY <3>1 DEF Balanced
  <2>3. CASE UNCHANGED rvars
    <3>1. ASSUME NEW r \in Readers
          PROVE  InView(r)' = InView(r) /\ Taken(r)' = Taken(r)
      BY <2>3 DEF InView, Taken, Full, Slot, Indices, rvars, vars, tbl, local
    <3> HIDE DEF Taken, InView
    <3> QED
      BY <1>2, <2>3, <3>1 DEF Balanced, Balance, Undisturbed, rvars, vars, hist, local, seen
  <2> QED
    BY <1>2, <2>1, <2>2, <2>3 DEF ReadersNext
<1> QED
  BY <1>1, <1>2, ReadersInvariant, PTL DEF ReadersSpec

\* get_connect_status writes past the end of dev_info by no more entries than slots
\* were filled while it ran, for any number of readers and writers' steps.
THEOREM OverrunsAreArrivals == ReadersSpec => []OverrunNeedsArrival
<1>1. ReadersIInv /\ Balanced => OverrunNeedsArrival
  <2> SUFFICES ASSUME ReadersIInv, Balanced, NEW r \in Readers, Undisturbed(r)
               PROVE  Len(out[r]) <= cnt[r] + arrived[r]
    BY DEF OverrunNeedsArrival
  <2>1. /\ Len(out[r]) \in Nat /\ cnt[r] \in Nat /\ arrived[r] \in Nat
        /\ Cardinality(InView(r)) \in Nat
    <3>1. Cardinality(InView(r)) \in Nat
      BY ViewFinite DEF ReadersIInv
    <3> QED
      BY <3>1 DEF ReadersIInv, ReadersTypeOK
  <2>2. Balance(r)
    BY DEF Balanced
  <2>3. CASE rpc[r] = "list"
    BY <2>2, <2>3 DEF Balance
  <2>4. CASE rpc[r] \in {"fill", "copy"}
    <3>1. Taken(r) \in Nat /\ Len(out[r]) <= Taken(r)
      <4>1. Taken(r) \in {Len(out[r]) + 0, Len(out[r]) + 1}
        BY DEF Taken
      <4> QED
        BY <2>1, <4>1
    <3>2. Taken(r) + Cardinality(InView(r)) <= cnt[r] + arrived[r]
      BY <2>2, <2>4 DEF Balance
    <3> QED
      BY <2>1, <3>1, <3>2
  <2>5. CASE rpc[r] \notin {"fill", "copy", "list"}
    <3>1. Len(out[r]) = 0
      BY <2>2, <2>5 DEF Balance
    <3> QED
      BY <2>1, <3>1
  <2> QED
    BY <2>3, <2>4, <2>5
<1> QED
  BY <1>1, ReadersInvariant, PassesBalance, PTL

\* The list it returns has no more blank entries than slots were emptied meanwhile.
THEOREM BlanksAreDepartures == ReadersSpec => []BlankNeedsDeparture
<1>1. Balanced => BlankNeedsDeparture
  BY DEF Balanced, Balance, BlankNeedsDeparture
<1> QED
  BY <1>1, PassesBalance, PTL

-----------------------------------------------------------------------------
(* Signals are taken from the queue, whatever the readers do, unless poll() *)
(* does not see them                                                        *)

Dispatch == HandleAdded \/ HandleRemoved \/ HandleProps \/ HandleStart \/ HandleStop

Queueing == phase = "run" /\ bus # <<>>

\* The thread can finish the signal in its hand, take the next one, go to sleep when
\* there is none, and come out of poll() when the socket has something.
DispatcherWayOn ==
  \/ hand # NoSig /\ ~ mtxHeld
  \/ hand = NoSig /\ phase = "run" /\ (awake \/ unread > 0)

\* Every action of the dispatch thread is a guard and assignments to all the variables,
\* so that where a guard is true there is a step.
GuardsSuffice == DispatcherWayOn => ENABLED <<Writers /\ dbus_thread>>_rvars

\* A queue that is not stranded: its head has been read and the thread is awake; or all
\* of it is in the socket, with the thread about to sleep; or in poll().
Ready   == Queueing /\ hand = NoSig /\ awake /\ Len(bus) > unread
AtEnd   == Queueing /\ hand = NoSig /\ awake /\ Len(bus) = unread
Polling == Queueing /\ hand = NoSig /\ ~ awake /\ unread > 0

\* Only a thread that is out of poll() has a signal in its hand.
HandAwake == hand # NoSig => awake

LEMMA Handles ==
  ASSUME dbus_thread
  PROVE  \/ Dispatch
         \/ hand # NoSig /\ hand' = NoSig /\ UNCHANGED <<phase, bus, awake, unread>>
         \/ Wake \/ Sleep
<1>1. ASSUME FinishAdded \/ ReadPcmFails \/ FinishRemoved
      PROVE  hand # NoSig /\ hand' = NoSig /\ UNCHANGED <<phase, bus, awake, unread>>
  BY <1>1 DEF FinishAdded, ReadPcmFails, FinishRemoved, NoSig, boot, sock
<1> QED
  BY <1>1 DEF dbus_thread, Dispatch

LEMMA DispatchWaits ==
  Dispatch => hand = NoSig /\ phase = "run" /\ awake /\ Len(bus) > unread /\ awake' = awake
  BY DEF Dispatch, HandleAdded, HandleRemoved, HandleProps, HandleStart, HandleStop,
         Dispatching, sock

\* What the queue looks like after a step of anyone else.
LEMMA OthersQueue ==
  ASSUME TypeOK, phase = "run", [Next]_vars, ~ dbus_thread
  PROVE  /\ phase' = phase /\ hand' = hand
         /\ \/ bus' = bus /\ unread' = unread /\ awake' = awake
            \/ bus' = bus /\ unread' = 0 /\ (awake => awake')
            \/ Len(bus') = Len(bus) + 1 /\ unread' = unread + 1 /\ awake' = awake
         /\ bus # <<>> => bus' # <<>>
<1>1. CASE BlueAlsa
  <2>1. phase' = phase /\ hand' = hand /\ awake' = awake
    BY <1>1 DEF BlueAlsa, Export, Withdraw, SetVolume, StopService, StartService,
                LibraryUnchanged, boot
  <2>2. ASSUME NEW sig, Emit(sig)
        PROVE  /\ \/ bus' = bus /\ unread' = unread
                  \/ Len(bus') = Len(bus) + 1 /\ unread' = unread + 1
               /\ bus # <<>> => bus' # <<>>
    <3>1. CASE Subscribed(sig.kind)
      <4>1. bus \in Seq(Signals) /\ bus' = Append(bus, sig) /\ unread' = unread + 1
        BY <2>2, <3>1 DEF TypeOK, Emit
      <4>2. Len(bus') = Len(bus) + 1 /\ Len(bus) \in Nat
        BY <4>1
      <4>3. bus' # <<>>
        BY <4>2
      <4> QED
        BY <4>1, <4>2, <4>3
    <3>2. CASE ~ Subscribed(sig.kind)
      BY <2>2, <3>2 DEF Emit
    <3> QED
      BY <3>1, <3>2
  <2>3. \E sig : Emit(sig)
    BY <1>1 DEF BlueAlsa, Export, Withdraw, SetVolume, StopService, StartService
  <2> QED
    BY <2>1, <2>2, <2>3
<1>2. ~ a2dp_ctl_init
  BY DEF a2dp_ctl_init, BeginInit, AddMatch, ListNames, GetPcms, LoadPcm, StartThread, InitFails
<1>3. CASE ReadAhead
  <2>1. bus' = bus /\ unread' = 0 /\ phase' = phase /\ hand' = hand
    BY <1>3 DEF ReadAhead, boot
  <2>2. awake => awake'
    BY <1>3, Zenon DEF ReadAhead
  <2> QED
    BY <2>1, <2>2
<1>4. CASE UNCHANGED vars
  BY <1>4 DEF vars, boot, sock
<1> QED
  BY <1>1, <1>2, <1>3, <1>4 DEF Next

\* Nobody else takes a signal, puts one into the hand, or ends the running state.
LEMMA QueueStays ==
  ASSUME TypeOK, Queueing, [ReadersNext]_rvars
  PROVE  \/ Dispatch
         \/ Queueing' /\ (hand = NoSig => hand' = NoSig)
<1>1. CASE dbus_thread
  BY <1>1, Handles DEF Queueing, Wake, Sleep, boot
<1>2. CASE ~ dbus_thread
  BY <1>2, OthersQueue, StepOfTable DEF Queueing
<1> QED
  BY <1>1, <1>2

LEMMA PollingStep ==
  ASSUME TypeOK, Queueing, [ReadersNext]_rvars
  PROVE  /\ Ready => Dispatch \/ Ready'
         /\ AtEnd => AtEnd' \/ Ready' \/ Polling'
         /\ Polling => Polling' \/ Ready' \/ Stranded'
<1>0. unread \in 0 .. Len(bus) /\ Len(bus) \in Nat /\ (bus # <<>> => Len(bus) > 0)
  BY DEF TypeOK
<1>1. CASE dbus_thread /\ Dispatch
  BY <1>1, DispatchWaits DEF Ready, AtEnd, Polling
<1>2. CASE dbus_thread /\ ~ Dispatch
  <2>1. CASE hand # NoSig
    BY <2>1 DEF Ready, AtEnd, Polling
  <2>2. CASE Wake
    <3>1. /\ ~ awake /\ awake' = TRUE /\ unread' = 0
          /\ phase' = phase /\ bus' = bus /\ hand' = hand
      BY <2>2 DEF Wake, boot
    <3> QED
      BY <1>0, <3>1 DEF Queueing, Ready, AtEnd, Polling
  <2>3. CASE Sleep
    <3>1. /\ awake /\ awake' = FALSE /\ unread' = unread /\ Len(bus) = unread
          /\ phase' = phase /\ bus' = bus /\ hand' = hand
      BY <2>3 DEF Sleep, boot
    <3> QED
      BY <1>0, <3>1 DEF Queueing, Ready, AtEnd, Polling
  <2> QED
    BY <1>2, <2>1, <2>2, <2>3, Handles
<1>3. CASE ~ dbus_thread
  <2>1. /\ phase' = phase /\ hand' = hand /\ bus' # <<>>
        /\ \/ bus' = bus /\ unread' = unread /\ awake' = awake
           \/ bus' = bus /\ unread' = 0 /\ (awake => awake')
           \/ Len(bus') = Len(bus) + 1 /\ unread' = unread + 1 /\ awake' = awake
    BY <1>3, OthersQueue, StepOfTable DEF Queueing
  <2>2. unread' \in Nat /\ Len(bus') \in Nat
    BY <1>0, <2>1
  <2>3. Queueing'
    BY <2>1 DEF Queueing
  <2>4. awake => awake'
    BY <2>1
  <2>5. hand = NoSig => hand' = NoSig
    BY <2>1
  <2>6. /\ Len(bus) > unread => Len(bus') > unread'
        /\ Len(bus) = unread => Len(bus') >= unread' /\ Len(bus') > 0
    BY <1>0, <2>1 DEF Queueing
  <2>7. Ready => Ready'
    BY <2>3, <2>4, <2>5, <2>6 DEF Ready
  <2>8. AtEnd => AtEnd' \/ Ready'
    BY <1>0, <2>2, <2>3, <2>4, <2>5, <2>6 DEF Ready, AtEnd
  <2>9. Polling => Polling' \/ Ready' \/ Stranded'
    <3>1. Len(bus') > 0
      BY <1>0, <2>1 DEF Queueing
    <3>2. ~ awake => ~ awake' \/ unread' = 0
      BY <2>1
    <3> QED
      BY <2>2, <2>3, <2>5, <3>1, <3>2 DEF Ready, Polling, Stranded, Queueing
  <2> QED
    BY <2>7, <2>8, <2>9
<1> QED
  BY <1>1, <1>2, <1>3

LEMMA ThreadSteps ==
  ASSUME TypeOK, HandAwake, Queueing, dbus_thread
  PROVE  /\ Ready => Dispatch
         /\ AtEnd => Polling'
         /\ Polling => Ready'
         /\ ~ (hand = NoSig) => (hand = NoSig)'
<1>0. unread \in 0 .. Len(bus) /\ Len(bus) \in Nat /\ (bus # <<>> => Len(bus) > 0)
  BY DEF TypeOK
<1>1. CASE Dispatch
  BY <1>1, DispatchWaits DEF Ready, AtEnd, Polling
<1>2. CASE hand # NoSig /\ hand' = NoSig
  BY <1>2 DEF Ready, AtEnd, Polling
<1>3. CASE Wake
  <2>1. /\ ~ awake /\ awake' = TRUE /\ unread' = 0
        /\ phase' = phase /\ bus' = bus /\ hand' = hand
    BY <1>3 DEF Wake, boot
  <2> QED
    BY <1>0, <2>1 DEF HandAwake, Queueing, Ready, AtEnd, Polling
<1>4. CASE Sleep
  <2>1. /\ awake /\ awake' = FALSE /\ unread' = unread /\ Len(bus) = unread
        /\ phase' = phase /\ bus' = bus /\ hand' = hand /\ hand = NoSig
    BY <1>4 DEF Sleep, boot
  <2> QED
    BY <1>0, <2>1 DEF Queueing, Ready, AtEnd, Polling
<1> QED
  BY <1>1, <1>2, <1>3, <1>4, Handles

LEMMA HandStep == HandAwake /\ [ReadersNext]_rvars => HandAwake'
<1> SUFFICES ASSUME HandAwake, [Next]_vars PROVE HandAwake'
  BY StepOfTable
<1>1. CASE BlueAlsa
  BY <1>1 DEF BlueAlsa, Export, Withdraw, SetVolume, StopService, StartService,
              LibraryUnchanged, HandAwake
<1>2. CASE a2dp_ctl_init
  BY <1>2 DEF a2dp_ctl_init, BeginInit, AddMatch, ReadsAhead, ListNames, GetPcms, LoadPcm,
              StartThread, InitFails, sock, HandAwake
<1>3. CASE dbus_thread
  BY <1>3, Handles, DispatchWaits DEF Wake, Sleep, HandAwake
<1>4. CASE ReadAhead \/ UNCHANGED vars
  BY <1>4 DEF ReadAhead, ReadsAhead, vars, sock, HandAwake
<1> QED
  BY <1>1, <1>2, <1>3, <1>4 DEF Next

\* While the mutex has not been lost to a failed realloc, a signal that is queued is
\* taken by the dispatch thread, unless a blocking call of another one reads the queue
\* while the thread is in poll().
THEOREM SignalsAreTaken ==
  FairReaders /\ []GuardsSuffice /\ [] ~ mtxHeld
    => [](phase = "run" /\ bus # <<>> => <><<Dispatch>>_rvars \/ <>Stranded)
<1>0. TypeOK /\ Queueing /\ Dispatch => <<Dispatch>>_rvars
  <2> SUFFICES ASSUME TypeOK, Queueing, Dispatch, rvars' = rvars
               PROVE  FALSE
    OBVIOUS
  <2>1. bus # <<>> /\ bus \in Seq(Signals) /\ bus' = Tail(bus) /\ bus' = bus
    BY DEF Dispatch, HandleAdded, HandleRemoved, HandleProps, HandleStart, HandleStop,
       Dispatching, Queueing, TypeOK, rvars, vars
  <2> QED
    BY <2>1
<1>1. TypeOK /\ Queueing /\ [ReadersNext]_rvars
        => <<Dispatch>>_rvars \/ (Queueing' /\ (hand = NoSig => (hand = NoSig)'))
  BY <1>0, QueueStays
<1>2. /\ TypeOK /\ Ready /\ [ReadersNext]_rvars => <<Dispatch>>_rvars \/ Ready'
      /\ TypeOK /\ AtEnd /\ [ReadersNext]_rvars => AtEnd' \/ Ready' \/ Polling'
      /\ TypeOK /\ Polling /\ [ReadersNext]_rvars => Polling' \/ Ready' \/ Stranded'
  <2>1. Ready \/ AtEnd \/ Polling => Queueing
    BY DEF Ready, AtEnd, Polling
  <2> QED
    BY <1>0, <2>1, PollingStep
<1>3. /\ TypeOK /\ HandAwake /\ Ready /\ <<Writers /\ dbus_thread>>_rvars => <<Dispatch>>_rvars
      /\ TypeOK /\ HandAwake /\ AtEnd /\ <<Writers /\ dbus_thread>>_rvars => Polling'
      /\ TypeOK /\ HandAwake /\ Polling /\ <<Writers /\ dbus_thread>>_rvars => Ready'
      /\ TypeOK /\ HandAwake /\ Queueing /\ ~ (hand = NoSig)
           /\ <<Writers /\ dbus_thread>>_rvars => (hand = NoSig)'
  <2>1. Ready \/ AtEnd \/ Polling => Queueing
    BY DEF Ready, AtEnd, Polling
  <2> QED
    BY <1>0, <2>1, ThreadSteps
<1>4. /\ TypeOK /\ Queueing /\ ~ mtxHeld /\ GuardsSuffice /\ ~ Stranded
           => ENABLED <<Writers /\ dbus_thread>>_rvars
      /\ Queueing /\ ~ mtxHeld /\ GuardsSuffice /\ ~ (hand = NoSig)
           => ENABLED <<Writers /\ dbus_thread>>_rvars
  <2>1. ASSUME TypeOK, Queueing, ~ Stranded PROVE awake \/ unread > 0
    BY <2>1 DEF TypeOK, Queueing, Stranded
  <2> QED
    BY <2>1 DEF DispatcherWayOn, GuardsSuffice, Queueing, Stranded
<1>5. /\ Queueing <=> phase = "run" /\ bus # <<>>
      /\ TypeOK /\ Queueing /\ (hand = NoSig) => Ready \/ AtEnd \/ Polling \/ Stranded
      /\ Ready \/ AtEnd \/ Polling => Queueing /\ (hand = NoSig)
  BY DEF Queueing, Ready, AtEnd, Polling, Stranded, TypeOK
<1>6. (ReadersIInv => TypeOK) /\ (ReadersInit => HandAwake)
  BY DEF ReadersIInv, ReadersInit, Init, HandAwake
<1> QED
  BY <1>1, <1>2, <1>3, <1>4, <1>5, <1>6, HandStep, ReadersInvariant, PTL
     DEF FairReaders, ReadersSpec
=============================================================================
