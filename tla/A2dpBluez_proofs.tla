-------------------------- MODULE A2dpBluez_proofs --------------------------
(***************************************************************************)
(* Theorems about A2dpBluez, for any transports, threads and changes:      *)
(* TRANSPORT_OBJECT names no transport that is gone once the signals are   *)
(* handled, a command crashes only over an empty one, and a command that   *)
(* nobody interferes with changes a volume by ten at most.                 *)
(***************************************************************************)
EXTENDS A2dpBluez, SequenceTheorems, TLAPS

-----------------------------------------------------------------------------
(* The invariant *)

\* How far init has come, for all that deinit can do about it.
BootInv ==
  /\ phase \notin {"new", "thread"} /\ ~ raced => initFlag /\ deinit = "none"
  /\ hand # NoObj => obj = NoObj
  /\ \A c \in Callers : /\ pc[c] # "idle" => phase = "up"
                        /\ pc[c] \in {"getcall", "setcall"} => conn \/ raced

Removes(k) == bus[k].kind = "removed"
RemovalOf(k, p) == Removes(k) /\ bus[k].path = p
RemovalQueued == \E k \in 1 .. Len(bus) : Removes(k)

\* A path that was announced is that of a transport there is, its removal is to come or
\* will never come.
Accounted(p) ==
  p \in exists \cup lost \cup {NoObj} \/ \E k \in 1 .. Len(bus) : RemovalOf(k, p)

LiveInv ==
  /\ Accounted(obj) /\ Accounted(hand)
  /\ \A k \in 1 .. Len(bus) : \/ Removes(k)
                           \/ bus[k].path \in exists \cup lost
                           \/ \E l \in 1 .. Len(bus) : l > k /\ RemovalOf(l, bus[k].path)

\* If there is a transport that was announced after the last removal, its path, or one
\* announced after it, is there or on its way.
KnownInv ==
  "added" \in subscribed /\ ~ (exists \subseteq blind) =>
    \/ \E k \in 1 .. Len(bus) : ~ Removes(k) /\ \A l \in 1 .. Len(bus) : l > k => ~ Removes(l)
    \/ (obj # NoObj \/ hand # NoObj) /\ ~ RemovalQueued

\* The transport that TRANSPORT_OBJECT names or will name.
Current == IF hand = NoObj THEN obj ELSE hand

Near(c, p) == p \in Transports /\ value[c] - vol[p] \in -10 .. 10

\* Until something is disturbed the question, and then the answer, goes to the transport
\* that TRANSPORT_OBJECT names, and the value to be written is within ten of its volume.
VolumeInv ==
  \A c \in Callers : ~ disturbed[c] =>
    /\ pc[c] = "getreply" => target[c] \in {Current, Torn}
    /\ pc[c] \in {"set", "setcall"} => Near(c, Current)
    /\ pc[c] = "setreply" => target[c] = Torn \/ Near(c, target[c])

IInv == TypeOK /\ BootInv /\ LiveInv /\ KnownInv /\ VolumeInv
-----------------------------------------------------------------------------
(* Types *)

Signals == [kind : {"added", "removed"}, path : Transports]

BluezType ==
  exists \in SUBSET Transports /\ vol \in [Transports -> 0 .. 127] /\ events \in 0 .. MaxEvents

BootType ==
  /\ phase \in {"new", "thread", "bluez", "connected", "half", "subscribed", "up"}
  /\ initFlag \in BOOLEAN /\ running \in BOOLEAN /\ conn \in BOOLEAN
  /\ subscribed \in SUBSET {"added", "removed"} /\ looping \in BOOLEAN
  /\ deinit \in {"none", "stop", "unsubscribe", "disconnect", "quit", "clear"}

TrackType ==
  /\ bus \in Seq(Signals)
  /\ obj \in Transports \cup {NoObj} /\ hand \in Transports \cup {NoObj}

PressType ==
  /\ pc \in [Callers -> {"idle", "get", "getcall", "getreply", "set", "setcall", "setreply"}]
  /\ up \in [Callers -> BOOLEAN] /\ value \in [Callers -> 0 .. 127]
  /\ target \in [Callers -> Transports \cup {NoObj, Torn}]

HistType ==
  /\ crashed \in {"no", "error", "heap"}
  /\ blind \in SUBSET Transports /\ lost \in SUBSET Transports /\ raced \in BOOLEAN
  /\ disturbed \in [Callers -> BOOLEAN]

LEMMA Parts == TypeOK <=> BluezType /\ BootType /\ TrackType /\ PressType /\ HistType
  BY DEF TypeOK, BluezType, BootType, TrackType, PressType, HistType, Signals

\* A command stays in the range and goes ten steps at most.
LEMMA StepOfVolume ==
  ASSUME NEW v \in 0 .. 127
  PROVE  /\ Louder(v) \in 0 .. 127 /\ Louder(v) - v \in -10 .. 10
         /\ Quieter(v) \in 0 .. 127 /\ Quieter(v) - v \in -10 .. 10
  BY DEF Louder, Quieter

\* The queue of signals, a step longer or shorter.
LEMMA AppendSignal ==
  ASSUME bus \in Seq(Signals), NEW k \in {"added", "removed"}, NEW t \in Transports,
         bus' = Append(bus, [kind |-> k, path |-> t])
  PROVE  /\ bus' \in Seq(Signals) /\ Len(bus) \in Nat /\ Len(bus') = Len(bus) + 1
         /\ \A n \in 1 .. Len(bus) : bus'[n] = bus[n]
         /\ bus'[Len(bus) + 1].kind = k /\ bus'[Len(bus) + 1].path = t
<1>1. [kind |-> k, path |-> t] \in Signals
  BY DEF Signals
<1> QED
  BY <1>1

LEMMA TakeSignal ==
  ASSUME bus \in Seq(Signals), bus # <<>>, bus' = Tail(bus)
  PROVE  /\ bus' \in Seq(Signals) /\ Head(bus) = bus[1] /\ Head(bus) \in Signals
         /\ Len(bus) \in Nat \ {0} /\ Len(bus') = Len(bus) - 1
         /\ \A n \in 1 .. Len(bus') : bus'[n] = bus[n + 1]
  BY HeadTailProperties


\* Steps that have no effect on most of the state, by what they have an effect on.
Boots ==
  \/ StartThread \/ SetInitFlag \/ Connect \/ SubscribeAdded \/ SubscribeRemoved
  \/ StartLoop \/ StartLoopFails \/ a2dp_ctl_deinit

Asks(c) ==
  \/ TestConn(c) \/ Crash(c) \/ OverUnref(c) \/ CallFails(c)
  \/ SendGet(c) \/ SendSet(c)

LEMMA Steps ==
  ASSUME [Next]_vars
  PROVE  \/ UNCHANGED vars \/ Boots \/ HandleAdded \/ FinishAdded \/ HandleRemoved \/ Die
         \/ \E t \in Transports : Appear(t) \/ Vanish(t) \/ TurnVolume(t)
         \/ \E c \in Callers : \/ \E u \in BOOLEAN : VolumeKey(c, u)
                             \/ Asks(c) \/ GetVolume(c) \/ SetVolume(c)
  BY DEF Next, BlueZ, Boots, bluez_init, bluez_dbus_thread, Asks, modify_tansport_volume_property

\* What init and deinit leave alone.
LEMMA BootsFrame ==
  ASSUME Boots
  PROVE  /\ UNCHANGED <<exists, vol, events, obj, hand, pc, up, value, target, crashed, disturbed>>
         /\ Unsubscribe \/ UNCHANGED <<bus, lost>>
         /\ SubscribeAdded \/ UNCHANGED blind
<1> USE DEF bluez, track, press, hist
<1>1. CASE \/ StartThread \/ SetInitFlag \/ Connect \/ SubscribeAdded \/ SubscribeRemoved
           \/ StartLoop \/ StartLoopFails
  BY <1>1 DEF StartThread, SetInitFlag, Connect, SubscribeAdded, SubscribeRemoved, StartLoop,
              StartLoopFails
<1>2. CASE a2dp_ctl_deinit
  BY <1>2 DEF a2dp_ctl_deinit, DeinitPasses, DeinitStops, DeinitUnsubscribes, DeinitDisconnects,
              DeinitQuitsLoop, DeinitClearsFlag
<1> QED
  BY <1>1, <1>2 DEF Boots

\* What a command leaves alone.
LEMMA AsksFrame ==
  ASSUME NEW c \in Callers, Asks(c)
  PROVE  UNCHANGED <<bluez, boot, track, up, value, blind, lost, raced>>
  BY DEF Asks, TestConn, Crash, OverUnref, CallFails, SendGet, SendSet, press, hist

LEMMA BluezStep ==
  ASSUME BluezType, PressType, [Next]_vars
  PROVE  BluezType'
<1> USE DEF BluezType, PressType, bluez
<1>1. CASE Boots
  BY <1>1, BootsFrame
<1>2. CASE HandleAdded \/ FinishAdded \/ HandleRemoved \/ UNCHANGED vars
  BY <1>2 DEF HandleAdded, FinishAdded, HandleRemoved, vars
<1>3. CASE Die \/ \E t \in Transports : Appear(t) \/ Vanish(t)
  BY <1>3, EventsAssumption DEF Die, Appear, Vanish, Change
<1>4. CASE \E t \in Transports : TurnVolume(t)
  BY <1>4, VolumesAssumption, EventsAssumption DEF TurnVolume, Change
<1>5. CASE \E c \in Callers : \E u \in BOOLEAN : VolumeKey(c, u)
  BY <1>5, EventsAssumption DEF VolumeKey, Change
<1>6. CASE \E c \in Callers : Asks(c)
  BY <1>6, AsksFrame
<1>7. CASE \E c \in Callers : GetVolume(c)
  BY <1>7 DEF GetVolume
<1>8. CASE \E c \in Callers : SetVolume(c)
  BY <1>8 DEF SetVolume
<1> QED
  BY <1>1, <1>2, <1>3, <1>4, <1>5, <1>6, <1>7, <1>8, Steps

LEMMA BootStep ==
  ASSUME BootType, [Next]_vars
  PROVE  BootType'
<1> USE DEF boot
<1>1. CASE \/ StartThread \/ SetInitFlag \/ Connect \/ SubscribeAdded \/ SubscribeRemoved
           \/ StartLoop
  BY <1>1 DEF BootType, StartThread, SetInitFlag, Connect, SubscribeAdded, SubscribeRemoved,
              StartLoop, Enter
<1>2. CASE StartLoopFails
  BY <1>2 DEF BootType, StartLoopFails, Unsubscribe, Enter
<1>3. CASE a2dp_ctl_deinit
  BY <1>3 DEF BootType, a2dp_ctl_deinit, DeinitPasses, DeinitStops, DeinitUnsubscribes,
              DeinitDisconnects, DeinitQuitsLoop, DeinitClearsFlag, Deinit, Unsubscribe
<1>4. CASE UNCHANGED boot
  BY <1>4 DEF BootType
<1>5. CASE \/ HandleAdded \/ FinishAdded \/ HandleRemoved \/ UNCHANGED vars \/ Die
           \/ \E t \in Transports : Appear(t) \/ Vanish(t) \/ TurnVolume(t)
  BY <1>4, <1>5 DEF HandleAdded, FinishAdded, HandleRemoved, vars, Die, Appear, Vanish, TurnVolume
<1>6. CASE \E c \in Callers : \/ \E u \in BOOLEAN : VolumeKey(c, u)
                             \/ Asks(c) \/ GetVolume(c) \/ SetVolume(c)
  BY <1>4, <1>6, AsksFrame DEF VolumeKey, GetVolume, SetVolume
<1> QED
  BY <1>1, <1>2, <1>3, <1>5, <1>6, Steps DEF Boots

LEMMA TrackStep ==
  ASSUME BluezType, TrackType, [Next]_vars
  PROVE  TrackType'
<1> USE DEF track
<1>1. ASSUME NEW t \in Transports, Appear(t) \/ Vanish(t)
      PROVE  TrackType'
  <2>1. obj' = obj /\ hand' = hand
    BY <1>1 DEF Appear, Vanish
  <2>2. PICK k \in {"added", "removed"} : bus' = bus \/ bus' = Append(bus, [kind |-> k, path |-> t])
    BY <1>1 DEF Appear, Vanish, Emit
  <2>3. bus \in Seq(Signals)
    BY DEF TrackType
  <2>4. bus' \in Seq(Signals)
    BY <2>2, <2>3, AppendSignal
  <2> QED
    BY <2>1, <2>4 DEF TrackType
<1>2. CASE Boots
  BY <1>2, BootsFrame, EmptySeq DEF Unsubscribe, TrackType
<1>3. CASE HandleAdded
  <2>1. bus # <<>> /\ bus' = Tail(bus) /\ obj' = NoObj /\ hand' = Head(bus).path
    BY <1>3 DEF HandleAdded, Dispatching, Forget
  <2>2. bus' \in Seq(Signals) /\ Head(bus) \in Signals
    BY <2>1, TakeSignal DEF TrackType
  <2> QED
    BY <2>1, <2>2 DEF TrackType, Signals
<1>4. CASE FinishAdded
  BY <1>4 DEF FinishAdded, TrackType
<1>5. CASE HandleRemoved
  <2>1. bus # <<>> /\ bus' = Tail(bus) /\ obj' = NoObj /\ hand' = hand
    BY <1>5 DEF HandleRemoved, Dispatching, Forget
  <2> QED
    BY <2>1, TakeSignal DEF TrackType
<1>6. CASE UNCHANGED vars \/ Die \/ \E t \in Transports : TurnVolume(t)
  BY <1>6 DEF vars, Die, TurnVolume, TrackType
<1>7. CASE \E c \in Callers : \/ \E u \in BOOLEAN : VolumeKey(c, u)
                             \/ Asks(c) \/ GetVolume(c) \/ SetVolume(c)
  BY <1>7, AsksFrame DEF VolumeKey, GetVolume, SetVolume, TrackType
<1> QED
  BY <1>1, <1>2, <1>3, <1>4, <1>5, <1>6, <1>7, Steps

LEMMA PressStep ==
  ASSUME BluezType, TrackType, PressType, [Next]_vars
  PROVE  PressType'
<1> USE DEF press
<1>1. CASE Boots
  BY <1>1, BootsFrame DEF PressType
<1>2. CASE \/ HandleAdded \/ FinishAdded \/ HandleRemoved \/ UNCHANGED vars \/ Die
           \/ \E t \in Transports : Appear(t) \/ Vanish(t) \/ TurnVolume(t)
  BY <1>2 DEF HandleAdded, FinishAdded, HandleRemoved, vars, Die, Appear, Vanish, TurnVolume,
              PressType
<1>3. CASE \E c \in Callers : \E u \in BOOLEAN : VolumeKey(c, u)
  BY <1>3 DEF VolumeKey, Goto, PressType
<1>4. CASE \E c \in Callers : TestConn(c) \/ Crash(c) \/ OverUnref(c) \/ CallFails(c)
  BY <1>4 DEF TestConn, Crash, OverUnref, CallFails, Goto, PressType
<1>5. CASE \E c \in Callers : SendGet(c) \/ SendSet(c)
  <2>1. Reading \subseteq Transports \cup {NoObj, Torn}
    BY DEF Reading, TrackType
  <2> QED
    BY <1>5, <2>1 DEF SendGet, SendSet, Goto, PressType
<1>6. CASE \E c \in Callers : GetVolume(c)
  <2>1. PICK c \in Callers : GetVolume(c)
    BY <1>6
  <2>2. PICK w \in Transports :
          value' = [value EXCEPT ![c] = IF up[c] THEN Louder(vol[w]) ELSE Quieter(vol[w])]
    BY <2>1 DEF GetVolume, BluezType
  <2>3. vol[w] \in 0 .. 127
    BY DEF BluezType
  <2>4. Louder(vol[w]) \in 0 .. 127 /\ Quieter(vol[w]) \in 0 .. 127
    BY <2>3, StepOfVolume
  <2>5. value' \in [Callers -> 0 .. 127]
    BY <2>2, <2>4 DEF PressType
  <2>6. UNCHANGED <<up, target>> /\ pc' = [pc EXCEPT ![c] = "set"]
    BY <2>1 DEF GetVolume, Goto
  <2> QED
    BY <2>5, <2>6 DEF PressType
<1>7. CASE \E c \in Callers : SetVolume(c)
  BY <1>7 DEF SetVolume, Goto, PressType
<1> QED
  BY <1>1, <1>2, <1>3, <1>4, <1>5, <1>6, <1>7, Steps DEF Asks

LEMMA HistStep ==
  ASSUME BluezType, HistType, [Next]_vars
  PROVE  HistType'
<1> USE DEF hist
<1>1. CASE \E t \in Transports : Appear(t) \/ Vanish(t)
  BY <1>1 DEF Appear, Vanish, HistType, BluezType
<1>2. CASE Die \/ \E t \in Transports : TurnVolume(t)
  BY <1>2 DEF Die, TurnVolume, HistType, BluezType
<1>3. CASE Boots
  <2>1. lost' \in SUBSET Transports
    BY <1>3, BootsFrame DEF Unsubscribe, HistType
  <2>2. blind' \in SUBSET Transports
    BY <1>3, BootsFrame DEF SubscribeAdded, HistType, BluezType
  <2>3. raced' \in BOOLEAN
    <3>1. raced' = raced \/ raced' = (deinit # "none")
      BY <1>3 DEF Boots, StartThread, SetInitFlag, Connect, SubscribeAdded, SubscribeRemoved,
                  StartLoop, StartLoopFails, a2dp_ctl_deinit, DeinitPasses, DeinitStops,
                  DeinitUnsubscribes, DeinitDisconnects, DeinitQuitsLoop, DeinitClearsFlag
    <3> QED
      BY <3>1 DEF HistType
  <2> QED
    BY <1>3, <2>1, <2>2, <2>3, BootsFrame DEF HistType
<1>4. CASE HandleAdded \/ FinishAdded \/ HandleRemoved \/ UNCHANGED vars
  BY <1>4 DEF HandleAdded, FinishAdded, HandleRemoved, Forget, vars, HistType
<1>5. CASE \E c \in Callers : \E u \in BOOLEAN : VolumeKey(c, u)
  BY <1>5 DEF VolumeKey, HistType
<1>6. CASE \E c \in Callers : Asks(c) \/ GetVolume(c)
  BY <1>6 DEF Asks, TestConn, Crash, OverUnref, CallFails, SendGet, SendSet, GetVolume, HistType
<1>7. CASE \E c \in Callers : SetVolume(c)
  <2>1. PICK c \in Callers : SetVolume(c)
    BY <1>7
  <2>2. disturbed' \in [Callers -> BOOLEAN]
    BY <2>1, Zenon DEF SetVolume
  <2> QED
    BY <2>1, <2>2 DEF SetVolume, HistType
<1> QED
  BY <1>1, <1>2, <1>3, <1>4, <1>5, <1>6, <1>7, Steps

-----------------------------------------------------------------------------
(* Every step keeps the invariant *)

LEMMA BootInvStep ==
  ASSUME TypeOK, BootInv, [Next]_vars
  PROVE  BootInv'
<1> USE DEF BootInv
<1>1. CASE \/ HandleAdded \/ FinishAdded \/ HandleRemoved
  BY <1>1, ObjectsAssumption
  DEF HandleAdded, FinishAdded, HandleRemoved, Dispatching, Forget, boot, press, TypeOK
<1>2. CASE UNCHANGED vars \/ Die \/ \E t \in Transports : Appear(t) \/ Vanish(t) \/ TurnVolume(t)
  BY <1>2 DEF vars, Die, Appear, Vanish, TurnVolume, boot, track, press, hist
<1>3. CASE Boots
  <2>1. UNCHANGED <<obj, hand, pc>>
    BY <1>3, BootsFrame
  <2>2. CASE StartThread \/ SetInitFlag
    BY <2>1, <2>2 DEF StartThread, SetInitFlag, Enter, hist
  <2>3. CASE Connect \/ SubscribeAdded \/ SubscribeRemoved \/ StartLoop \/ StartLoopFails
    BY <2>1, <2>3
    DEF Connect, SubscribeAdded, SubscribeRemoved, StartLoop, StartLoopFails, Enter, hist
  <2>4. CASE a2dp_ctl_deinit
    BY <2>1, <2>4
    DEF a2dp_ctl_deinit, DeinitPasses, DeinitStops, DeinitUnsubscribes, DeinitDisconnects,
        DeinitQuitsLoop, DeinitClearsFlag, Deinit, hist
  <2> QED
    BY <1>3, <2>2, <2>3, <2>4 DEF Boots
<1>4. ASSUME NEW c \in Callers,
             (\E u \in BOOLEAN : VolumeKey(c, u)) \/ Asks(c) \/ GetVolume(c) \/ SetVolume(c)
      PROVE  BootInv'
  <2>1. UNCHANGED <<phase, initFlag, deinit, raced, conn, obj, hand>>
    BY <1>4, AsksFrame DEF VolumeKey, GetVolume, SetVolume, boot, track, hist
  <2>2. \A d \in Callers : d # c => pc'[d] = pc[d]
    BY <1>4
    DEF VolumeKey, Asks, TestConn, Crash, OverUnref, CallFails, SendGet, SendSet, GetVolume,
        SetVolume, Goto, TypeOK, press
  <2>3. phase = "up"
    BY <1>4
    DEF VolumeKey, Asks, TestConn, Crash, OverUnref, CallFails, SendGet, SendSet, GetVolume,
        SetVolume
  <2>4. pc'[c] \in {"getcall", "setcall"} => conn \/ raced
    BY <1>4
    DEF VolumeKey, Asks, TestConn, Crash, OverUnref, CallFails, SendGet, SendSet, GetVolume,
        SetVolume, Goto, TypeOK, press
  <2> QED
    BY <2>1, <2>2, <2>3, <2>4
<1> QED
  BY <1>1, <1>2, <1>3, <1>4, Steps

\* Most steps leave alone what is tracked.
LEMMA Frame ==
  ASSUME [Next]_vars
  PROVE  \/ UNCHANGED <<exists, bus, obj, hand, blind, lost, subscribed>>
         \/ Boots \/ HandleAdded \/ FinishAdded \/ HandleRemoved \/ Die
         \/ \E t \in Transports : Appear(t) \/ Vanish(t)
<1> USE DEF bluez, boot, track, press
<1>1. CASE UNCHANGED vars \/ \E t \in Transports : TurnVolume(t)
  BY <1>1 DEF TurnVolume, vars, hist
<1>2. CASE \E c \in Callers : \/ \E u \in BOOLEAN : VolumeKey(c, u)
                             \/ Asks(c) \/ GetVolume(c) \/ SetVolume(c)
  BY <1>2, AsksFrame DEF VolumeKey, GetVolume, SetVolume, hist
<1> QED
  BY <1>1, <1>2, Steps

LEMMA LiveStep ==
  ASSUME TypeOK, LiveInv, [Next]_vars
  PROVE  LiveInv'
<1> USE DEF LiveInv, Accounted, RemovalOf, Removes
<1>1. bus \in Seq(Signals)
  BY DEF TypeOK, Signals
<1>2. CASE UNCHANGED <<exists, bus, obj, hand, lost>>
  BY <1>2
\* One path more or less exists, and the queue is as long or one signal longer.
<1>3. ASSUME NEW t \in Transports, UNCHANGED <<obj, hand>>,
             exists \cup lost \subseteq exists' \cup lost' \cup {t},
             \/ bus' = bus /\ t \in exists' \cup lost'
             \/ bus' = Append(bus, [kind |-> "added", path |-> t]) /\ t \in exists'
             \/ bus' = Append(bus, [kind |-> "removed", path |-> t])
      PROVE  LiveInv'
  <2>1. CASE bus' = bus
    BY <1>3, <2>1
  <2>2. CASE \E k \in {"added", "removed"} : bus' = Append(bus, [kind |-> k, path |-> t])
    <3>1. PICK k \in {"added", "removed"} : bus' = Append(bus, [kind |-> k, path |-> t])
      BY <2>2
    <3>2. /\ Len(bus) \in Nat /\ Len(bus') = Len(bus) + 1
          /\ \A n \in 1 .. Len(bus) : bus'[n] = bus[n]
          /\ bus'[Len(bus) + 1].path = t /\ bus'[Len(bus) + 1].kind = k
      BY <1>1, <3>1, AppendSignal
    <3>3. \A n \in 1 .. Len(bus) : n \in 1 .. Len(bus')
      BY <3>2
    <3>4. Len(bus) + 1 \in 1 .. Len(bus') /\ \A n \in 1 .. Len(bus) : Len(bus) + 1 > n
      BY <3>2
    <3>5. t \in exists' \cup lost' \/ k = "removed"
      <4>1. bus' # bus
        BY <3>2
      <4>2. CASE bus' = Append(bus, [kind |-> "removed", path |-> t])
        <5>1. bus'[Len(bus) + 1].kind = "removed"
          BY <1>1, <4>2, AppendSignal
        <5> QED
          BY <3>2, <5>1
      <4> QED
        BY <1>3, <4>1, <4>2
    <3>6. ASSUME NEW p, Accounted(p) PROVE Accounted(p)'
      BY <1>3, <3>2, <3>3, <3>4, <3>5, <3>6
    <3>7. ASSUME NEW n \in 1 .. Len(bus')
          PROVE  \/ Removes(n)' \/ bus'[n].path \in exists' \cup lost'
                 \/ \E l \in 1 .. Len(bus') : l > n /\ RemovalOf(l, bus[n].path)'
      <4>1. CASE n = Len(bus) + 1
        BY <3>2, <3>5, <4>1
      <4>2. CASE n \in 1 .. Len(bus)
        BY <1>3, <3>2, <3>3, <3>4, <3>5, <4>2
      <4> QED
        BY <3>2, <4>1, <4>2
    <3> QED
      BY <1>3, <3>6, <3>7
  <2> QED
    BY <1>3, <2>1, <2>2
<1>4. ASSUME NEW t \in Transports, Appear(t) \/ Vanish(t) PROVE LiveInv'
  BY <1>3, <1>4 DEF Appear, Vanish, Emit
<1>5. CASE Die
  <2>1. exists \cup lost = exists' \cup lost' /\ UNCHANGED <<bus, obj, hand>>
    BY <1>5 DEF Die, track
  <2> QED
    BY <2>1
<1>6. CASE Boots
  <2>1. CASE UNCHANGED <<bus, lost>>
    BY <1>2, <1>6, <2>1, BootsFrame
  <2>2. CASE Unsubscribe /\ ~ UNCHANGED <<bus, lost>>
    <3>1. /\ bus' = <<>> /\ UNCHANGED <<exists, obj, hand>>
          /\ lost' = lost \cup {t \in Transports \ exists :
                    \E k \in 1 .. Len(bus) : bus[k] = [kind |-> "removed", path |-> t]}
      BY <1>6, <2>2, BootsFrame DEF Unsubscribe
    <3>2. ASSUME NEW k \in 1 .. Len(bus)
          PROVE  bus[k] = [kind |-> bus[k].kind, path |-> bus[k].path]
      <4>1. bus[k] \in Signals
        BY <1>1
      <4> QED
        BY <4>1 DEF Signals
    <3>3. ASSUME NEW p \in Transports \cup {NoObj}, Accounted(p) PROVE p \in exists' \cup lost' \cup {NoObj}
      <4>1. CASE \E k \in 1 .. Len(bus) : RemovalOf(k, p)
        <5>1. PICK k \in 1 .. Len(bus) : bus[k] = [kind |-> "removed", path |-> p]
          BY <3>2, <4>1
        <5> QED
          BY <3>1, <5>1
      <4> QED
        BY <3>1, <3>3, <4>1
    <3>4. obj \in exists' \cup lost' \cup {NoObj} /\ hand \in exists' \cup lost' \cup {NoObj}
      BY <3>3 DEF TypeOK
    <3>5. 1 .. Len(bus') = {}
      BY <3>1
    <3> QED
      BY <3>1, <3>4, <3>5
  <2> QED
    BY <1>6, <2>1, <2>2, BootsFrame
<1>7. ASSUME bus # <<>>, bus' = Tail(bus), UNCHANGED <<exists, lost>>, obj' = NoObj,
             \/ hand' = NoObj
             \/ ~ Removes(1) /\ hand' = bus[1].path
      PROVE  LiveInv'
  <2>1. /\ Len(bus) \in Nat \ {0} /\ Len(bus') = Len(bus) - 1
        /\ \A n \in 1 .. Len(bus') : bus'[n] = bus[n + 1]
    BY <1>1, <1>7, TakeSignal
  <2>2. \A n \in 1 .. Len(bus) : n > 1 => n - 1 \in 1 .. Len(bus') /\ bus'[n - 1] = bus[n]
    BY <2>1
  <2>3. Accounted(hand)'
    <3>1. 1 \in 1 .. Len(bus)
      BY <2>1
    <3>2. CASE ~ Removes(1) /\ hand' = bus[1].path
      <4>1. CASE \E l \in 1 .. Len(bus) : l > 1 /\ RemovalOf(l, bus[1].path)
        BY <2>2, <3>2, <4>1
      <4> QED
        BY <1>7, <3>1, <3>2, <4>1
    <3> QED
      BY <1>7, <3>2
  <2>4. ASSUME NEW k \in 1 .. Len(bus')
        PROVE  \/ Removes(k)' \/ bus'[k].path \in exists \cup lost
               \/ \E l \in 1 .. Len(bus') : l > k /\ RemovalOf(l, bus[k].path)'
    <3>1. k + 1 \in 1 .. Len(bus) /\ bus'[k] = bus[k + 1]
      BY <2>1
    <3>2. CASE \E l \in 1 .. Len(bus) : l > k + 1 /\ RemovalOf(l, bus[k + 1].path)
      <4>1. PICK l \in 1 .. Len(bus) : l > k + 1 /\ RemovalOf(l, bus[k + 1].path)
        BY <3>2
      <4>2. l - 1 \in 1 .. Len(bus') /\ bus'[l - 1] = bus[l] /\ l - 1 > k
        BY <2>1, <2>2, <4>1
      <4> QED
        BY <3>1, <4>1, <4>2
    <3> QED
      BY <3>1, <3>2
  <2> QED
    BY <1>7, <2>3, <2>4
<1>8. CASE HandleAdded \/ HandleRemoved
  <2>1. /\ bus # <<>> /\ bus' = Tail(bus) /\ UNCHANGED <<exists, lost>> /\ obj' = NoObj
        /\ hand = NoObj
        /\ \/ HandleAdded /\ Head(bus).kind = "added" /\ hand' = Head(bus).path
           \/ HandleRemoved /\ hand' = hand
    BY <1>8 DEF HandleAdded, HandleRemoved, Dispatching, Forget, bluez
  <2>2. Head(bus) = bus[1]
    BY <1>1, <2>1, TakeSignal
  <2> QED
    BY <1>7, <2>1, <2>2
<1>9. CASE FinishAdded
  BY <1>9 DEF FinishAdded, bluez
<1> QED
  BY <1>2, <1>4, <1>5, <1>6, <1>8, <1>9, Frame

LEMMA KnownStep ==
  ASSUME TypeOK, KnownInv, [Next]_vars
  PROVE  KnownInv'
<1> USE DEF KnownInv, RemovalQueued, Removes
<1>1. bus \in Seq(Signals)
  BY DEF TypeOK, Signals
<1>2. CASE UNCHANGED <<exists, bus, obj, hand, blind, subscribed>>
  BY <1>2
<1>3. ASSUME NEW t \in Transports, Appear(t) PROVE KnownInv'
  <2>1. CASE "added" \notin subscribed
    BY <1>3, <2>1 DEF Appear, boot
  <2>2. CASE "added" \in subscribed
    <3>1. bus' = Append(bus, [kind |-> "added", path |-> t])
      BY <1>3, <2>2 DEF Appear, Emit
    <3>2. Len(bus) \in Nat /\ Len(bus') = Len(bus) + 1 /\ bus'[Len(bus) + 1].kind = "added"
      BY <1>1, <3>1, AppendSignal
    <3>3. Len(bus) + 1 \in 1 .. Len(bus') /\ bus'[Len(bus) + 1].kind # "removed"
      BY <3>2
    <3>4. \A l \in 1 .. Len(bus') : ~ l > Len(bus) + 1
      BY <3>2
    <3> QED
      BY <3>3, <3>4
  <2> QED
    BY <2>1, <2>2
<1>4. ASSUME NEW t \in Transports, Vanish(t) PROVE KnownInv'
  <2>1. CASE "removed" \in subscribed
    BY <1>4, <2>1 DEF Vanish
  <2>2. CASE "removed" \notin subscribed
    BY <1>4, <2>2 DEF Vanish, Emit, boot
  <2> QED
    BY <2>1, <2>2
<1>5. CASE Die
  BY <1>5 DEF Die
<1>6. CASE HandleAdded \/ HandleRemoved
  <2>1. /\ bus # <<>> /\ bus' = Tail(bus) /\ hand = NoObj
        /\ UNCHANGED <<exists, blind, subscribed>>
    BY <1>6 DEF HandleAdded, HandleRemoved, Dispatching, bluez, boot
  <2>2. /\ Len(bus) \in Nat \ {0} /\ Len(bus') = Len(bus) - 1
        /\ \A n \in 1 .. Len(bus') : bus'[n] = bus[n + 1] /\ n + 1 \in 1 .. Len(bus)
    BY <1>1, <2>1, TakeSignal
  <2>3. SUFFICES ASSUME "added" \in subscribed, ~ (exists \subseteq blind)
                 PROVE  KnownInv'
    BY <2>1
  <2>4. CASE HandleAdded
    <3>1. ~ Removes(1) /\ hand' = bus[1].path /\ hand' # NoObj
      <4>1. Head(bus) = bus[1] /\ Head(bus) \in Signals
        BY <1>1, <2>1, TakeSignal
      <4> QED
        BY <2>4, <4>1, ObjectsAssumption DEF HandleAdded, Dispatching, Signals
    <3>2. CASE RemovalQueued'
      <4>1. PICK n \in 1 .. Len(bus') : Removes(n)'
        BY <3>2
      <4>2. Removes(n + 1) /\ n + 1 \in 1 .. Len(bus)
        BY <2>2, <4>1
      <4>3. PICK k \in 1 .. Len(bus) : ~ Removes(k) /\ \A l \in 1 .. Len(bus) : l > k => ~ Removes(l)
        BY <2>3, <4>2
      <4>4. k > n + 1 /\ k - 1 \in 1 .. Len(bus') /\ (k - 1) + 1 = k
        <5>1. n + 1 # k
          BY <4>2, <4>3
        <5>2. ~ (n + 1 > k)
          BY <4>2, <4>3
        <5>3. n \in Nat /\ n >= 1 /\ k \in Nat /\ k >= 1 /\ k <= Len(bus)
          BY <2>2
        <5> QED
          BY <2>2, <5>1, <5>2, <5>3
      <4>5. bus'[k - 1] = bus[k]
        BY <2>2, <4>4
      <4>6. ASSUME NEW l \in 1 .. Len(bus'), l > k - 1 PROVE ~ Removes(l)'
        <5>1. l + 1 \in 1 .. Len(bus) /\ l + 1 > k /\ bus'[l] = bus[l + 1]
          BY <2>2, <4>4, <4>6
        <5> QED
          BY <4>3, <5>1
      <4> QED
        BY <4>3, <4>4, <4>5, <4>6
    <3> QED
      BY <3>1, <3>2
  <2>5. CASE HandleRemoved
    <3>1. Removes(1) /\ 1 \in 1 .. Len(bus)
      <4>1. Head(bus) = bus[1]
        BY <1>1, <2>1, TakeSignal
      <4> QED
        BY <2>2, <2>5, <4>1 DEF HandleRemoved, Dispatching
    <3>2. PICK k \in 1 .. Len(bus) : ~ Removes(k) /\ \A l \in 1 .. Len(bus) : l > k => ~ Removes(l)
      BY <2>3, <3>1
    <3>3. k > 1 /\ k - 1 \in 1 .. Len(bus') /\ (k - 1) + 1 = k
      BY <2>2, <3>1, <3>2
    <3>4. bus'[k - 1] = bus[k]
      BY <2>2, <3>3
    <3>5. ASSUME NEW l \in 1 .. Len(bus'), l > k - 1 PROVE ~ Removes(l)'
      <4>1. l + 1 \in 1 .. Len(bus) /\ l + 1 > k /\ bus'[l] = bus[l + 1]
        BY <2>2, <3>3, <3>5
      <4> QED
        BY <3>2, <4>1
    <3> QED
      BY <3>2, <3>3, <3>4, <3>5
  <2> QED
    BY <1>6, <2>4, <2>5
<1>7. CASE FinishAdded
  BY <1>7 DEF FinishAdded, bluez, boot
<1>8. CASE Boots
  <2>1. UNCHANGED <<exists, obj, hand>>
    BY <1>8, BootsFrame
  <2>2. CASE SubscribeAdded
    <3>1. blind' = exists \/ UNCHANGED <<subscribed, blind, bus>>
      BY <2>2 DEF SubscribeAdded, track
    <3> QED
      BY <2>1, <3>1
  <2>3. CASE ~ SubscribeAdded
    <3>1. blind' = blind
      BY <1>8, <2>3, BootsFrame
    <3>2. \/ subscribed' = {}
          \/ UNCHANGED bus /\ ("added" \in subscribed' => "added" \in subscribed)
      <4>1. CASE StartThread \/ SetInitFlag \/ Connect \/ StartLoop
        BY <4>1 DEF StartThread, SetInitFlag, Connect, StartLoop, track
      <4>2. CASE SubscribeRemoved
        BY <4>2 DEF SubscribeRemoved, track
      <4>3. CASE StartLoopFails \/ DeinitUnsubscribes
        BY <4>3 DEF StartLoopFails, DeinitUnsubscribes, Unsubscribe
      <4>4. CASE \/ DeinitPasses \/ DeinitStops \/ DeinitDisconnects \/ DeinitQuitsLoop
                 \/ DeinitClearsFlag
        BY <4>4 DEF DeinitPasses, DeinitStops, DeinitDisconnects, DeinitQuitsLoop,
                    DeinitClearsFlag, track
      <4> QED
        BY <1>8, <2>3, <4>1, <4>2, <4>3, <4>4 DEF Boots, a2dp_ctl_deinit
    <3> QED
      BY <2>1, <3>1, <3>2
  <2> QED
    BY <2>2, <2>3
<1> QED
  BY <1>2, <1>3, <1>4, <1>5, <1>6, <1>7, <1>8, Frame

LEMMA VolumeStep ==
  ASSUME TypeOK, VolumeInv, [Next]_vars
  PROVE  VolumeInv'
<1> USE DEF VolumeInv, Near
<1>1. ASSUME UNCHANGED <<obj, hand, vol>>,
             \A c \in Callers : \/ disturbed'[c] \/ pc'[c] \in {"idle", "get", "getcall"}
                              \/ /\ disturbed'[c] = disturbed[c] /\ value'[c] = value[c]
                                 /\ target'[c] = target[c]
                                 /\ \/ pc'[c] = pc[c]
                                    \/ pc[c] = "set" /\ pc'[c] = "setcall"
      PROVE  VolumeInv'
  BY <1>1 DEF Current
<1>2. ASSUME \A c \in Callers : disturbed'[c] \/ pc'[c] = "idle"
      PROVE  VolumeInv'
  BY <1>2
<1>3. CASE \E t \in Transports : TurnVolume(t)
  <2>1. \A c \in Callers : disturbed'[c]
    BY <1>3 DEF TurnVolume
  <2> QED
    BY <1>2, <2>1
<1>4. CASE UNCHANGED vars \/ Boots \/ Die \/ \E t \in Transports : Appear(t) \/ Vanish(t)
  <2>1. UNCHANGED <<obj, hand, vol, pc, value, target, disturbed>>
    BY <1>4, BootsFrame DEF vars, Die, Appear, Vanish, press, hist, bluez, track
  <2> QED
    BY <1>1, <2>1
<1>5. CASE HandleAdded \/ FinishAdded \/ HandleRemoved
  <2>1. \A c \in Callers : disturbed'[c]
    BY <1>5 DEF HandleAdded, HandleRemoved, FinishAdded, Forget
  <2> QED
    BY <1>2, <2>1
<1>6. ASSUME NEW c \in Callers,
             \/ \E u \in BOOLEAN : VolumeKey(c, u)
             \/ TestConn(c) \/ Crash(c) \/ OverUnref(c) \/ CallFails(c)
      PROVE  VolumeInv'
  <2>1. UNCHANGED <<obj, hand, vol, disturbed>>
    BY <1>6 DEF VolumeKey, TestConn, Crash, OverUnref, CallFails, bluez, track, hist
  <2>2. ASSUME NEW d \in Callers
        PROVE  \/ pc'[d] \in {"idle", "get", "getcall"}
               \/ /\ value'[d] = value[d] /\ target'[d] = target[d]
                  /\ \/ pc'[d] = pc[d]
                     \/ pc[d] = "set" /\ pc'[d] = "setcall"
    BY <1>6 DEF VolumeKey, TestConn, Crash, OverUnref, CallFails, Goto, TypeOK, press
  <2> QED
    BY <1>1, <2>1, <2>2
\* Of a step of one command the others notice nothing.
<1>7. ASSUME NEW c \in Callers, SendGet(c) \/ GetVolume(c) \/ SendSet(c)
      PROVE  /\ UNCHANGED <<obj, hand, vol, Current>>
             /\ \A d \in Callers \ {c} : /\ pc'[d] = pc[d] /\ value'[d] = value[d]
                                        /\ target'[d] = target[d] /\ disturbed'[d] = disturbed[d]
  <2>1. UNCHANGED <<obj, hand, vol>>
    BY <1>7 DEF SendGet, GetVolume, SendSet, bluez, track
  <2> QED
    BY <1>7, <2>1 DEF SendGet, GetVolume, SendSet, Goto, TypeOK, Current, hist
<1>8. \A p \in Reading : p = Current \/ p = Torn \/ p = NoObj
  BY DEF Reading, Current
<1>9. ASSUME NEW c \in Callers, SendGet(c) PROVE VolumeInv'
  <2>1. pc'[c] = "getreply" /\ target'[c] \in {Current, Torn}
    BY <1>8, <1>9 DEF SendGet, Goto, Refused, TypeOK
  <2> QED
    BY <1>7, <1>9, <2>1
<1>10. ASSUME NEW c \in Callers, GetVolume(c) PROVE VolumeInv'
  <2> DEFINE p == target[c]
  <2>1. /\ pc[c] = "getreply" /\ p \in exists /\ pc'[c] = "set"
        /\ value'[c] = IF up[c] THEN Louder(vol[p]) ELSE Quieter(vol[p])
        /\ disturbed'[c] = disturbed[c]
    BY <1>10 DEF GetVolume, Goto, TypeOK, hist
  <2>2. p \in Transports /\ p # Torn /\ vol[p] \in 0 .. 127
    BY <2>1, ObjectsAssumption DEF TypeOK
  <2>3. value'[c] - vol[p] \in -10 .. 10
    BY <2>1, <2>2, StepOfVolume
  <2>4. disturbed[c] \/ p = Current
    BY <2>1, <2>2
  <2> HIDE DEF p
  <2> QED
    BY <1>7, <1>10, <2>1, <2>2, <2>3, <2>4
<1>11. ASSUME NEW c \in Callers, SendSet(c) PROVE VolumeInv'
  <2>1. /\ pc[c] = "setcall" /\ pc'[c] = "setreply" /\ target'[c] \in {Current, Torn}
        /\ value'[c] = value[c] /\ disturbed'[c] = disturbed[c]
    BY <1>8, <1>11 DEF SendSet, Goto, Refused, TypeOK, hist
  <2> QED
    BY <1>7, <1>11, <2>1
<1>12. ASSUME NEW c \in Callers, SetVolume(c) PROVE VolumeInv'
  <2>1. pc'[c] = "idle"
    BY <1>12 DEF SetVolume, Goto, TypeOK
  <2>2. \A d \in Callers \ {c} : disturbed'[d]
    BY <1>12 DEF SetVolume
  <2> QED
    BY <1>2, <2>1, <2>2
<1> QED
  BY <1>3, <1>4, <1>5, <1>6, <1>9, <1>10, <1>11, <1>12, Steps DEF Asks

LEMMA InitHolds == Init => IInv
<1> SUFFICES ASSUME Init PROVE IInv
  OBVIOUS
<1> USE DEF Init
<1>1. TypeOK
  <2>1. BluezType
    <3>1. vol \in [Transports -> 0 .. 127]
      BY VolumesAssumption
    <3>2. events \in 0 .. MaxEvents
      BY EventsAssumption
    <3>3. exists \in SUBSET Transports
      OBVIOUS
    <3> QED
      BY <3>1, <3>2, <3>3, Zenon DEF BluezType
  <2>2. BootType /\ TrackType
    BY EmptySeq DEF BootType, TrackType
  <2>3. PressType /\ HistType
    <3>1. /\ pc \in [Callers -> {"idle", "get", "getcall", "getreply", "set", "setcall", "setreply"}]
          /\ target \in [Callers -> Transports \cup {NoObj, Torn}]
          /\ value \in [Callers -> 0 .. 127]
      OBVIOUS
    <3>2. up \in [Callers -> BOOLEAN] /\ disturbed \in [Callers -> BOOLEAN]
      OBVIOUS
    <3>3. /\ crashed \in {"no", "error", "heap"} /\ raced \in BOOLEAN
          /\ blind \in SUBSET Transports /\ lost \in SUBSET Transports
      OBVIOUS
    <3> QED
      BY <3>1, <3>2, <3>3, Zenon DEF PressType, HistType
  <2> QED
    BY <2>1, <2>2, <2>3, Parts
<1>2. BootInv
  BY DEF BootInv
<1>3. LiveInv /\ KnownInv /\ VolumeInv
  BY DEF LiveInv, Accounted, KnownInv, VolumeInv
<1> QED
  BY <1>1, <1>2, <1>3 DEF IInv

THEOREM Invariant == Spec => []IInv
<1>1. ASSUME IInv, [Next]_vars PROVE IInv'
  <2>1. TypeOK /\ BootInv /\ LiveInv /\ KnownInv /\ VolumeInv
    BY <1>1 DEF IInv
  <2>2. (BluezType /\ BootType /\ TrackType /\ PressType /\ HistType)'
    BY <1>1, <2>1, Parts, BluezStep, BootStep, TrackStep, PressStep, HistStep
  <2>3. (BluezType /\ BootType /\ TrackType /\ PressType /\ HistType => TypeOK)'
    BY Parts, PTL
  <2>4. BootInv' /\ LiveInv' /\ KnownInv' /\ VolumeInv'
    BY <1>1, <2>1, BootInvStep, LiveStep, KnownStep, VolumeStep
  <2> QED
    BY <2>2, <2>3, <2>4 DEF IInv
<1> QED
  BY <1>1, InitHolds, PTL DEF Spec

-----------------------------------------------------------------------------
(* What follows *)

\* Types; no command takes a volume out of the property's range.
THEOREM TypeCorrect == Spec => []TypeOK
<1>1. IInv => TypeOK
  BY DEF IInv
<1> QED
  BY <1>1, Invariant, PTL

\* Once the signals are handled TRANSPORT_OBJECT names no transport that is gone, unless
\* its removal never reached the loop.
THEOREM TransportStaysLive == Spec => []TransportIsLive
<1>1. IInv => TransportIsLive
  BY DEF IInv, LiveInv, Accounted, TransportIsLive, Quiescent
<1> QED
  BY <1>1, Invariant, PTL

\* It is empty only if nothing was announced since the last removal.
THEOREM TransportGetsKnown == Spec => []TransportIsKnown
<1>1. IInv => TransportIsKnown
  BY DEF IInv, KnownInv, TransportIsKnown, Quiescent
<1> QED
  BY <1>1, Invariant, PTL

\* Only a command without a transport reads the message of no error, or one whose conn a
\* deinit that raced with init has taken away.
THEOREM CrashesAreBlind == Spec => OnlyBlindCommandsCrash
<1> DEFINE Blind == crashed' = "error" /\ Alive =>
                      \/ /\ obj = NoObj
                         /\ \/ ~ looping \/ "added" \notin subscribed
                            \/ ~ Quiescent \/ exists \subseteq blind
                      \/ ~ conn /\ raced
<1>1. ASSUME IInv, Next PROVE Blind
  <2>1. CASE \E c \in Callers : Crash(c)
    <3>1. PICK c \in Callers : Crash(c)
      BY <2>1
    <3>2. conn \/ raced
      BY <1>1, <3>1 DEF IInv, BootInv, Crash
    <3>3. ~ conn \/ obj = NoObj
      BY <1>1, <3>1, ObjectsAssumption DEF IInv, TypeOK, BootInv, Crash, Refused, Reading
    <3> QED
      BY <1>1, <3>2, <3>3 DEF IInv, KnownInv, Quiescent
  <2>2. CASE ~ \E c \in Callers : Crash(c)
    <3>1. crashed' # "error" \/ ~ Alive
      <4>1. CASE Boots
        BY <4>1, BootsFrame DEF Alive
      <4>2. CASE \/ HandleAdded \/ FinishAdded \/ HandleRemoved \/ UNCHANGED vars \/ Die
                 \/ \E t \in Transports : Appear(t) \/ Vanish(t) \/ TurnVolume(t)
        BY <4>2 DEF HandleAdded, FinishAdded, HandleRemoved, vars, Die, Appear, Vanish, TurnVolume,
                    Alive
      <4>3. CASE \E c \in Callers : \/ \E u \in BOOLEAN : VolumeKey(c, u)
                                   \/ Asks(c) \/ GetVolume(c) \/ SetVolume(c)
        BY <2>2, <4>3 DEF VolumeKey, Asks, TestConn, OverUnref, CallFails, SendGet, SendSet,
                          GetVolume, SetVolume, Alive
      <4> QED
        BY <1>1, <4>1, <4>2, <4>3, Steps
    <3> QED
      BY <3>1
  <2> QED
    BY <2>1, <2>2
<1>2. IInv /\ [Next]_vars => [Blind]_vars
  BY <1>1
<1> QED
  BY <1>2, Invariant, PTL DEF Spec, OnlyBlindCommandsCrash

\* A command that nothing has disturbed since it sent its question moves a volume by ten
\* at most.
THEOREM VolumesDoNotJump == Spec => NoVolumeJump
<1> DEFINE Small == \A c \in Callers : pc[c] = "setreply" /\ ~ disturbed[c] =>
                      \A t \in Transports : vol'[t] - vol[t] \in -10 .. 10 \/ pc'[c] = pc[c]
<1>1. ASSUME IInv, Next PROVE Small
  <2>1. SUFFICES ASSUME NEW c \in Callers, pc[c] = "setreply", ~ disturbed[c], pc'[c] # pc[c],
                        NEW t \in Transports
                 PROVE  vol'[t] - vol[t] \in -10 .. 10
    OBVIOUS
  <2>2. TypeOK /\ vol[t] \in 0 .. 127
    BY <1>1 DEF IInv, TypeOK
  <2>3. CASE vol' = vol
    BY <2>2, <2>3
  <2>4. CASE \E d \in Callers : SetVolume(d)
    <3>1. PICK d \in Callers : SetVolume(d)
      BY <2>4
    <3>2. d = c
      BY <2>1, <2>2, <3>1 DEF SetVolume, Goto, TypeOK
    <3> DEFINE p == target[c]
    <3>3. p \in exists /\ vol' = [vol EXCEPT ![p] = value[c]]
      BY <3>1, <3>2 DEF SetVolume
    <3>4. p \in Transports /\ p # Torn
      BY <2>2, <3>3, ObjectsAssumption DEF TypeOK
    <3>5. value[c] - vol[p] \in -10 .. 10
      BY <1>1, <2>1, <3>4 DEF IInv, VolumeInv, Near
    <3>6. CASE t = p
      BY <2>2, <3>3, <3>5, <3>6 DEF TypeOK
    <3>7. CASE t # p
      <4>1. vol'[t] = vol[t]
        BY <2>2, <3>3, <3>7 DEF TypeOK
      <4> QED
        BY <2>2, <4>1
    <3> QED
      BY <3>6, <3>7
  <2>5. vol' = vol \/ (\E d \in Callers : SetVolume(d)) \/ pc' = pc
    <3>1. CASE Boots
      BY <3>1, BootsFrame
    <3>2. CASE \/ HandleAdded \/ FinishAdded \/ HandleRemoved \/ UNCHANGED vars \/ Die
               \/ \E v \in Transports : Appear(v) \/ Vanish(v) \/ TurnVolume(v)
      BY <3>2 DEF HandleAdded, FinishAdded, HandleRemoved, vars, Die, Appear, Vanish, TurnVolume,
                  press
    <3>3. CASE \E d \in Callers : \/ \E u \in BOOLEAN : VolumeKey(d, u)
                                 \/ Asks(d) \/ GetVolume(d) \/ SetVolume(d)
      BY <3>3, AsksFrame DEF VolumeKey, GetVolume, bluez
    <3> QED
      BY <1>1, <3>1, <3>2, <3>3, Steps
  <2> QED
    BY <2>1, <2>3, <2>4, <2>5
<1>2. IInv /\ [Next]_vars => [Small]_vars
  BY <1>1
<1> QED
  BY <1>2, Invariant, PTL DEF Spec, NoVolumeJump
=============================================================================
