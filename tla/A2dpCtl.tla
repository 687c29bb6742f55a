------------------------------ MODULE A2dpCtl ------------------------------
(***************************************************************************)
(* The device registry of the A2DP control library (lib_a2dp_ctl.c): the   *)
(* table ba_pcm_info of PCMs that BlueALSA exports, filled once by         *)
(* a2dp_ctl_init() from a snapshot and from then on by the thread that     *)
(* dispatches BlueALSA's D-Bus signals.  The D-Bus connection is a FIFO:   *)
(* a signal whose match was added waits in `bus` until the dispatch thread *)
(* (started last) takes it, so the snapshot and the queue overlap.  It     *)
(* waits in the socket, which poll() watches, or, once a blocking call of  *)
(* any thread has read past it, in libdbus's queue, which poll() does not. *)
(*                                                                         *)
(* Steps of different threads interleave at the granularity of the mutex   *)
(* mtx: what add_pcm and remove_pcm do under it is one step.               *)
(***************************************************************************)
EXTENDS Integers, Sequences, FiniteSets, SequencesExt

CONSTANTS
  Paths,      \* object paths of the PCMs a remote device may bring up
  NoPath,     \* the path of a slot that never held a PCM
  Volumes,    \* values of the one mutable PCM property that is modelled
  InitSlots,  \* INIT_BA_PCM_NUM
  Stray,      \* what the bytes copied past a PCM may do to the next flag
  MaxEvents   \* bound on the changes BlueALSA makes

ASSUME PathsAssumption  == NoPath \notin Paths /\ IsFiniteSet(Paths)
ASSUME SlotsAssumption  == InitSlots \in Nat \ {0}
ASSUME StrayAssumption  == Stray \subseteq {"keep", "set", "clear"}
ASSUME VolumeAssumption == Volumes # {}
ASSUME EventsAssumption == MaxEvents \in Nat

VARIABLES
  \* BlueALSA and the bus, outside the library
  exported,       \* PCMs BlueALSA exports now
  volume,         \* volume[p], the current property of PCM p
  owner,          \* BlueALSA owns its bus name
  events,         \* number of changes made so far, at most MaxEvents
  bus,            \* signals sent to the library and not yet dispatched
  unread,         \* how many of them, the last ones, are still in the socket
  \* the library
  phase,          \* progress of a2dp_ctl_init()
  matched,        \* the signals that a match has been added for
  snap,           \* rest of the PCM list add_pcm is being called on
  running,        \* bluealsa_running
  max_alloc_num,  \* ba_pcm_info.max_alloc_num
  pcms,           \* ba_pcm_info.pcms
  mtxHeld,        \* mtx was left locked
  awake,          \* dbus_thread has come out of poll()
  hand,           \* signal whose callback ran and whose table step has not
  \* history
  told,           \* last event the application's callback got for a path
  lost,           \* paths announced to the application but not in the table
  smashed,        \* a stray byte has changed a connect_flag
  raced,          \* PCM signals were already queued when the list was taken
  stopped,        \* the service has stopped since the first match was added
  missed,         \* announced paths whose end fell between the matches
  missedStart     \* the service came back between the match of "stop" and its own

env  == <<exported, volume, owner, events>>
tbl  == <<max_alloc_num, pcms>>
boot == <<phase, matched, snap>>
sock == <<unread, awake>>
hist == <<told, lost, smashed, raced, stopped, missed, missedStart>>
vars == <<env, bus, sock, boot, running, tbl, mtxHeld, hand, hist>>

-----------------------------------------------------------------------------
(* Signals and table entries *)

Pcm     == [pcm_path : Paths, vol : Volumes]
Signals == [kind : {"added", "removed", "props"}, pcm_path : Paths, vol : Volumes]
             \cup [kind : {"start", "stop"}]
NoSig   == [kind |-> "none"]
Slots   == [connect_flag : BOOLEAN, pcm_path : Paths \cup {NoPath}, vol : Volumes]

Indices == 0 .. max_alloc_num - 1

Connected == {pcms[i].pcm_path : i \in {j \in Indices : pcms[j].connect_flag}}

Blank(flag) ==
  [connect_flag |-> flag, pcm_path |-> NoPath, vol |-> CHOOSE v \in Volumes : TRUE]

Entry(pcm) ==
  [connect_flag |-> TRUE, pcm_path |-> pcm.pcm_path, vol |-> pcm.vol]

IsAbout(s, k, p) == s.kind = k /\ s.pcm_path = p

\* The i-th signal of the queue or one after it announces p.
AddedFrom(i, p) == \E j \in i .. Len(bus) : IsAbout(bus[j], "added", p)

(***************************************************************************)
(* add_pcm copies sizeof(ba_pcm_status_t) bytes to &pcms[idx].pcm, which   *)
(* lies past the flag of that slot: the copy runs over the flag of slot    *)
(* idx + 1 with whatever bytes follow the source PCM.                      *)
(***************************************************************************)
StrayFlag(s, flag) == CASE s = "keep"  -> flag
                        [] s = "set"   -> TRUE
                        [] s = "clear" -> FALSE

FirstFree(idx) ==
  /\ ~ pcms[idx].connect_flag
  /\ \A j \in Indices : j < idx => pcms[j].connect_flag

PutAt(idx, pcm, s) ==
  /\ pcms' = [j \in Indices |->
               CASE j = idx     -> Entry(pcm)
                 [] j = idx + 1 -> [pcms[j] EXCEPT !.connect_flag = StrayFlag(s, @)]
                 [] OTHER       -> pcms[j]]
  /\ smashed' = (smashed \/ (idx + 1 \in Indices
                   /\ pcms'[idx + 1].connect_flag # pcms[idx + 1].connect_flag))
  /\ UNCHANGED max_alloc_num

\* Mutant of UseFreeSlot: the test of connect_flag is missing.
UseAnySlot(pcm, s) == \E idx \in Indices : PutAt(idx, pcm, s)

\* A free slot is reused: the first one (add_pcm's loop).
UseFreeSlot(pcm, s) == \E idx \in Indices : FirstFree(idx) /\ PutAt(idx, pcm, s)

\* No slot is free: the table grows by two; the second new slot is not initialised.
GrowTable(pcm, s) ==
  /\ \A j \in Indices : pcms[j].connect_flag
  /\ max_alloc_num' = max_alloc_num + 2
  /\ pcms' = [j \in 0 .. max_alloc_num + 1 |->
               CASE j < max_alloc_num -> pcms[j]
                 [] j = max_alloc_num -> Entry(pcm)
                 [] OTHER             -> Blank(StrayFlag(s, FALSE))]
  /\ smashed' = (smashed \/ StrayFlag(s, FALSE))

\* realloc failed: add_pcm returns false with mtx still locked.
GrowFails(pcm) ==
  /\ \A j \in Indices : pcms[j].connect_flag
  /\ mtxHeld' = TRUE
  /\ lost' = lost \cup {pcm.pcm_path}
  /\ UNCHANGED <<tbl, smashed>>

AddPcm(pcm) ==
  /\ ~ mtxHeld
  /\ \/ /\ \E s \in Stray : UseFreeSlot(pcm, s) \/ GrowTable(pcm, s)
        /\ lost' = lost \ {pcm.pcm_path}
        /\ UNCHANGED mtxHeld
     \/ GrowFails(pcm)

\* The slot that matches a path in a scan from the start of the table.
FirstMatch(p, i) ==
  /\ pcms[i].connect_flag /\ pcms[i].pcm_path = p
  /\ \A j \in Indices : j < i => ~ (pcms[j].connect_flag /\ pcms[j].pcm_path = p)

\* Mutant of RemovePcm: the scan stops before the last slot.
RemoveButLast(p) ==
  /\ ~ mtxHeld
  /\ pcms' = [i \in Indices |-> IF FirstMatch(p, i) /\ i # max_alloc_num - 1
                                THEN [pcms[i] EXCEPT !.connect_flag = FALSE]
                                ELSE pcms[i]]
  /\ UNCHANGED <<max_alloc_num, mtxHeld, lost, smashed>>

\* remove_pcm clears one flag and leaves the rest of the slot.
RemovePcm(p) ==
  /\ ~ mtxHeld
  /\ pcms' = [i \in Indices |-> IF FirstMatch(p, i)
                                THEN [pcms[i] EXCEPT !.connect_flag = FALSE]
                                ELSE pcms[i]]
  /\ UNCHANGED <<max_alloc_num, mtxHeld, lost, smashed>>

-----------------------------------------------------------------------------
(* BlueALSA: what it exports, and the signals the bus delivers for it *)

Kinds == {"added", "removed", "props", "stop", "start"}

\* Mutant of Subscribed: the matches are added after the list was taken.
SubscribedLate(k) == phase = "run"

Subscribed(k) == k \in matched

Emit(sig) ==
  /\ bus'    = IF Subscribed(sig.kind) THEN Append(bus, sig) ELSE bus
  /\ unread' = IF Subscribed(sig.kind) THEN unread + 1 ELSE unread

Change == events < MaxEvents /\ events' = events + 1

LibraryUnchanged == UNCHANGED <<boot, running, tbl, mtxHeld, awake, hand>>

Export(p) ==
  /\ Change
  /\ owner /\ p \notin exported
  /\ exported' = exported \cup {p}
  /\ Emit([kind |-> "added", pcm_path |-> p, vol |-> volume[p]])
  /\ UNCHANGED <<volume, owner, hist>> /\ LibraryUnchanged

Withdraw(p) ==
  /\ Change
  /\ p \in exported
  /\ exported' = exported \ {p}
  /\ Emit([kind |-> "removed", pcm_path |-> p, vol |-> volume[p]])
  /\ missed' = IF AddedFrom(1, p) /\ ~ Subscribed("removed") THEN missed \cup {p} ELSE missed
  /\ UNCHANGED <<volume, owner, told, lost, smashed, raced, stopped, missedStart>>
  /\ LibraryUnchanged

SetVolume(p, v) ==
  /\ Change
  /\ p \in exported /\ v # volume[p]
  /\ volume' = [volume EXCEPT ![p] = v]
  /\ Emit([kind |-> "props", pcm_path |-> p, vol |-> v])
  /\ UNCHANGED <<exported, owner, hist>> /\ LibraryUnchanged

\* The service goes away: no InterfacesRemoved for what it still exported.
StopService ==
  /\ Change
  /\ owner
  /\ owner' = FALSE /\ exported' = {}
  /\ Emit([kind |-> "stop"])
  /\ stopped' = (stopped \/ Subscribed("added"))
  /\ missed' = IF Subscribed("stop") THEN missed
               ELSE missed \cup {p \in exported : AddedFrom(1, p)}
  /\ missedStart' = FALSE
  /\ UNCHANGED <<volume, told, lost, smashed, raced>> /\ LibraryUnchanged

StartService ==
  /\ Change
  /\ ~ owner
  /\ owner' = TRUE
  /\ Emit([kind |-> "start"])
  /\ missedStart' = (~ Subscribed("start") /\ \E i \in 1 .. Len(bus) : bus[i].kind = "stop")
  /\ UNCHANGED <<exported, volume, told, lost, smashed, raced, stopped, missed>>
  /\ LibraryUnchanged

BlueAlsa ==
  \/ \E p \in Paths : Export(p) \/ Withdraw(p) \/ \E v \in Volumes : SetVolume(p, v)
  \/ StopService \/ StartService

-----------------------------------------------------------------------------
(* a2dp_ctl_init *)

\* pcm_info_init, the mutexes and the connection.
BeginInit ==
  /\ phase = "new"
  /\ phase' = "matched"
  /\ max_alloc_num' = InitSlots
  /\ pcms' = [i \in 0 .. InitSlots - 1 |-> Blank(FALSE)]
  /\ UNCHANGED <<env, bus, sock, matched, snap, running, mtxHeld, hand, hist>>

\* A blocking call reads what comes before its answer; poll() will not see it any more.
ReadsAhead == unread' = 0 /\ UNCHANGED <<bus, awake>>

\* The matches are added one by one, each in a call of its own.
Match(k, before) == matched = before /\ matched' = before \cup {k}

AddMatch ==
  /\ phase = "matched"
  /\ \/ Match("added", {})
     \/ Match("removed", {"added"})
     \/ Match("props", {"added", "removed"})
     \/ Match("stop", {"added", "removed", "props"})
     \/ Match("start", Kinds \ {"start"})
  /\ ReadsAhead
  /\ UNCHANGED <<env, phase, snap, running, tbl, mtxHeld, hand, hist>>

\* get_services: is BlueALSA on the bus?  Signals queue up meanwhile.
ListNames ==
  /\ phase = "matched" /\ matched = Kinds
  /\ running' = owner
  /\ phase' = IF owner THEN "listed" ELSE "loading"
  /\ ReadsAhead
  /\ UNCHANGED <<env, matched, snap, tbl, mtxHeld, hand, hist>>

\* bluealsa_dbus_get_pcms: the list as BlueALSA answers it, in any order.
GetPcms ==
  /\ phase = "listed" /\ owner
  /\ phase' = "loading"
  /\ \E s \in SetToSeqs(exported) :
       snap' = [i \in DOMAIN s |-> [pcm_path |-> s[i], vol |-> volume[s[i]]]]
  /\ raced' = \E i \in 1 .. Len(bus) : bus[i].kind \in {"added", "removed"}
  /\ ReadsAhead
  /\ UNCHANGED <<env, matched, running, tbl, mtxHeld, hand, told, lost, smashed, stopped,
                 missed, missedStart>>

LoadPcm ==
  /\ phase = "loading" /\ snap # <<>>
  /\ AddPcm(Head(snap))
  /\ snap' = Tail(snap)
  /\ UNCHANGED <<env, bus, sock, phase, matched, running, hand, told, raced, stopped, missed,
                 missedStart>>

\* The library loop is created; a2dp_ctl_init returns 0.
StartThread ==
  /\ phase = "loading" /\ snap = <<>>
  /\ phase' = "run"
  /\ UNCHANGED <<env, bus, sock, matched, snap, running, tbl, mtxHeld, hand, hist>>

\* Every `goto fail`: connection and table are given up, init may be called again.
InitFails ==
  /\ phase \in {"matched", "listed", "loading"}
  /\ phase = "matched" => matched \in {{}, Kinds}
  /\ phase = "loading" => snap = <<>>
  /\ phase' = "new" /\ matched' = {} /\ running' = FALSE /\ mtxHeld' = FALSE
  /\ bus' = <<>> /\ unread' = 0
  /\ max_alloc_num' = 0 /\ pcms' = [i \in {} |-> Blank(FALSE)]
  /\ lost' = {} /\ smashed' = FALSE /\ raced' = FALSE /\ stopped' = FALSE
  /\ missed' = {} /\ missedStart' = FALSE
  /\ UNCHANGED <<env, snap, awake, hand, told>>

a2dp_ctl_init ==
  BeginInit \/ AddMatch \/ ListNames \/ GetPcms \/ LoadPcm \/ StartThread \/ InitFails

-----------------------------------------------------------------------------
(* dbus_thread and dbus_signal_handler, once init has started the thread *)

\* poll() sees what is in the socket, and all of it is read.
Wake ==
  /\ phase = "run" /\ ~ awake /\ unread > 0
  /\ awake' = TRUE /\ unread' = 0
  /\ UNCHANGED <<env, bus, boot, running, tbl, mtxHeld, hand, hist>>

\* A call of the application, or of its callback, that waits for an answer from the bus.
\* What it reads, the answer included, may wake poll() or be gone before poll() looks.
ReadAhead ==
  /\ phase = "run" /\ running /\ bus # <<>>
  /\ unread' = 0 /\ awake' \in {awake, TRUE}
  /\ UNCHANGED <<env, bus, boot, running, tbl, mtxHeld, hand, hist>>

\* dbus_connection_dispatch takes from libdbus's queue, and reads nothing.
Dispatching(k) ==
  /\ phase = "run" /\ awake /\ hand = NoSig
  /\ Len(bus) > unread /\ Head(bus).kind = k
  /\ bus' = Tail(bus)

\* InterfacesAdded calls the application first and adds the PCM afterwards.
HandleAdded ==
  /\ Dispatching("added")
  /\ hand' = Head(bus)
  /\ told' = [told EXCEPT ![Head(bus).pcm_path] = "connected"]
  /\ UNCHANGED <<env, sock, boot, running, tbl, mtxHeld, lost, smashed, raced, stopped, missed,
                 missedStart>>

FinishAdded ==
  /\ hand.kind = "added"
  /\ AddPcm(hand)
  /\ hand' = NoSig
  /\ UNCHANGED <<env, bus, sock, boot, running, told, raced, stopped, missed,
                 missedStart>>

\* bluealsa_dbus_message_iter_get_pcm failed: announced, but never added.
ReadPcmFails ==
  /\ hand.kind = "added"
  /\ hand' = NoSig
  /\ lost' = lost \cup {hand.pcm_path}
  /\ UNCHANGED <<env, bus, sock, boot, running, tbl, mtxHeld, told, smashed, raced, stopped, missed,
                 missedStart>>

\* Mutant of HandleRemoved: the application is not called.
HandleRemovedSilently ==
  /\ Dispatching("removed")
  /\ hand' = Head(bus)
  /\ UNCHANGED <<env, sock, boot, running, tbl, mtxHeld, hist>>

\* InterfacesRemoved calls the application first and removes the PCM afterwards.
HandleRemoved ==
  /\ Dispatching("removed")
  /\ hand' = Head(bus)
  /\ told' = [told EXCEPT ![Head(bus).pcm_path] = "disconnected"]
  /\ missed' = {p \in missed : p # Head(bus).pcm_path \/ AddedFrom(2, p)}
  /\ UNCHANGED <<env, sock, boot, running, tbl, mtxHeld, lost, smashed, raced, stopped,
                 missedStart>>

FinishRemoved ==
  /\ hand.kind = "removed"
  /\ RemovePcm(hand.pcm_path)
  /\ hand' = NoSig
  /\ UNCHANGED <<env, bus, sock, boot, running, told, raced, stopped, missed,
                 missedStart>>

\* PropertiesChanged.  The branch goes to `fail` unless the first argument is an
\* object path; what BlueALSA sends has the interface name there, a string (the
\* match for the signal selects it by that arg0).  No entry is ever updated.
HandleProps ==
  /\ Dispatching("props")
  /\ UNCHANGED <<env, sock, boot, running, tbl, mtxHeld, hand, hist>>

\* NameOwnerChanged with no previous owner.
HandleStart ==
  /\ Dispatching("start")
  /\ running' = TRUE
  /\ UNCHANGED <<env, sock, boot, tbl, mtxHeld, hand, hist>>

\* Mutant of HandleStop: only the application hears of it.
HandleStopRunning ==
  /\ Dispatching("stop")
  /\ told' = [p \in Paths |-> "none"]
  /\ UNCHANGED <<env, sock, boot, running, tbl, mtxHeld, hand, lost, smashed, raced, stopped, missed,
                 missedStart>>

\* NameOwnerChanged with no new owner: the table is left as it is.  To the
\* application SERVICE_STOP ends every connection it has been told of.
HandleStop ==
  /\ Dispatching("stop")
  /\ running' = FALSE
  /\ told' = [p \in Paths |-> "none"]
  /\ missed' = {p \in missed : AddedFrom(2, p)}
  /\ UNCHANGED <<env, sock, boot, tbl, mtxHeld, hand, lost, smashed, raced, stopped,
                 missedStart>>

\* Nothing is left in the queue: back to poll().
Sleep ==
  /\ awake /\ hand = NoSig /\ Len(bus) = unread
  /\ awake' = FALSE
  /\ UNCHANGED <<env, bus, unread, boot, running, tbl, mtxHeld, hand, hist>>

dbus_thread ==
  \/ Wake \/ Sleep
  \/ HandleAdded \/ FinishAdded \/ ReadPcmFails
  \/ HandleRemoved \/ FinishRemoved
  \/ HandleProps \/ HandleStart \/ HandleStop

-----------------------------------------------------------------------------

Init ==
  /\ exported \in SUBSET Paths
  /\ volume \in [Paths -> Volumes]
  /\ owner \in BOOLEAN
  /\ ~ owner => exported = {}
  /\ events = 0 /\ bus = <<>> /\ unread = 0 /\ awake = FALSE
  /\ phase = "new" /\ matched = {} /\ snap = <<>> /\ running = FALSE
  /\ max_alloc_num = 0 /\ pcms = [i \in {} |-> Blank(FALSE)]
  /\ mtxHeld = FALSE /\ hand = NoSig
  /\ told = [p \in Paths |-> "none"]
  /\ lost = {} /\ smashed = FALSE /\ raced = FALSE /\ stopped = FALSE
  /\ missed = {} /\ missedStart = FALSE

Next == BlueAlsa \/ a2dp_ctl_init \/ ReadAhead \/ dbus_thread

Spec == Init /\ [][Next]_vars

\* The dispatch thread is scheduled when poll() sees something or it is out of it.
FairSpec == Spec /\ WF_vars(dbus_thread)

-----------------------------------------------------------------------------
(* Properties *)

\* State of the registry: the table has exactly the slots it claims to have.
TypeOK ==
  /\ exported \in SUBSET Paths
  /\ volume \in [Paths -> Volumes]
  /\ owner \in BOOLEAN
  /\ events \in 0 .. MaxEvents
  /\ bus \in Seq(Signals) /\ unread \in 0 .. Len(bus) /\ awake \in BOOLEAN
  /\ phase \in {"new", "matched", "listed", "loading", "run"}
  /\ matched \in SUBSET Kinds
  /\ snap \in Seq(Pcm)
  /\ running \in BOOLEAN
  /\ max_alloc_num \in Nat
  /\ pcms \in [Indices -> Slots]
  /\ mtxHeld \in BOOLEAN
  /\ hand \in {s \in Signals : s.kind \in {"added", "removed"}} \cup {NoSig}
  /\ told \in [Paths -> {"none", "connected", "disconnected"}]
  /\ lost \in SUBSET Paths
  /\ smashed \in BOOLEAN /\ raced \in BOOLEAN /\ stopped \in BOOLEAN
  /\ missed \in SUBSET Paths /\ missedStart \in BOOLEAN

\* The thread has nothing left to do.
Quiescent == phase = "run" /\ hand = NoSig /\ bus = <<>>

\* No PCM signal was queued when the list was taken, the service has not stopped
\* since, and no stray byte changed a flag.
CleanRun == ~ raced /\ ~ stopped /\ ~ smashed

\* Once the queue is drained, every PCM that BlueALSA exports is in the table of
\* a2dp_ctl_init/dbus_signal_handler, except one whose add_pcm or whose message
\* failed: no interleaving of the snapshot with the queue loses a device.
ExportedIsReported ==
  Quiescent /\ ~ smashed => exported \ lost \subseteq Connected

\* No PCM has two entries, so that the one that remove_pcm clears is the only one.
OneEntryPerPcm ==
  \A i, j \in Indices :
    /\ pcms[i].connect_flag /\ pcms[j].connect_flag
    /\ pcms[i].pcm_path = pcms[j].pcm_path
    => i = j

\* Once the queue is drained the table holds no device that is gone, and at no time
\* does it hold one twice.  This is true only of a clean run: remove_pcm drops one
\* entry of a PCM that the snapshot and a queued signal both added, and nothing
\* clears the table when the service stops.
ReportedIsExported ==
  CleanRun => OneEntryPerPcm /\ (Quiescent => Connected \subseteq exported)

\* Fails: the PropertiesChanged branch exists to update the entry ("Couldn't update
\* PCM" is its error), so when all signals are handled every entry would have the
\* PCM's current property; but it returns before it does.
PropsAreCurrent ==
  Quiescent /\ CleanRun => \A i \in Indices :
    pcms[i].connect_flag => pcms[i].vol = volume[pcms[i].pcm_path]

\* bluealsa_running, read by every API call, ends up as what the bus says of the
\* service although init overwrites it with an answer older than queued signals.  The
\* exception: it stays FALSE when the service stopped after the match for that was
\* added and came back before the match for that was.
RunningTracksOwner == Quiescent => running = owner \/ (missedStart /\ ~ running)

\* The events delivered to the application's callback give the true picture even
\* when the table does not: nothing it believes connected is gone, unless its end fell
\* between the matches, and nothing exported was announced as disconnected.
CallbacksAreAccurate ==
  Quiescent => \A p \in Paths :
    /\ told[p] = "connected" => p \in exported \cup missed
    /\ p \in exported => told[p] # "disconnected"

\* Without an intervening DISCONNECT or SERVICE_STOP no path is announced twice,
\* unless its end fell between the matches, and without a CONNECT none is taken back
\* twice.
CallbacksAlternate ==
  [][\A p \in Paths :
       /\ hand = NoSig /\ IsAbout(hand', "added", p) => told[p] # "connected" \/ p \in missed
       /\ hand = NoSig /\ IsAbout(hand', "removed", p) => told[p] # "disconnected"]_vars

\* The slots with an entry for p.
SlotsOf(p) == {i \in Indices : pcms[i].connect_flag /\ pcms[i].pcm_path = p}

\* The bag of connected entries, whatever slots they sit in.
Registry == INSTANCE A2dpRegistry WITH known <- [p \in Paths |-> Cardinality(SlotsOf(p))]

\* The table implements the bag: neither reuse of freed slots nor growth loses,
\* duplicates or resurrects an entry (as long as add_pcm copies what it should).
ImplementsRegistry == Registry!Spec

\* Signals lie in libdbus's queue, where poll() does not see them.
Stranded == phase = "run" /\ ~ awake /\ unread = 0 /\ bus # <<>>

\* A PCM that stays exported is eventually, and for good, in the table, unless its
\* add failed, the mutex was lost with a failed realloc, a flag was smashed, or the last
\* signals were read by a blocking call and nothing comes after them.
EventuallyReported ==
  [](~ mtxHeld /\ ~ smashed) /\ ~ <>[]Stranded =>
    \A p \in Paths :
      <>[](phase = "run" /\ p \in exported \ lost) => <>[](p \in Connected)

=============================================================================
