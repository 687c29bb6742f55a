---------------------------- MODULE A2dpReaders ----------------------------
(***************************************************************************)
(* The API calls of lib_a2dp_ctl.c that read the table of A2dpCtl from the *)
(* application's threads: get_connect_status and connect_dev, which do not *)
(* take mtx, and a2dp_control, which does.  They run next to the steps of  *)
(* A2dpCtl, from the moment bluealsa_running is set.                       *)
(*                                                                         *)
(* A walk over the table is one step per slot, and two where the code      *)
(* first tests connect_flag and then follows a pointer into the slot.  If  *)
(* the table was reallocated or freed since the walk took its address, what*)
(* it reads is anything.  If add_pcm puts another PCM into a slot during   *)
(* the call, reading its path may meet the memcpy, or see the new flag     *)
(* before it: the address may be a mixture of the two, `Torn`.             *)
(***************************************************************************)
EXTENDS A2dpCtl

CONSTANTS
  Readers,   \* application threads
  MaxReads,  \* bound on the calls of one of them
  Torn       \* what is read of a path that is being replaced

ASSUME ReadsAssumption == MaxReads \in Nat
ASSUME TornAssumption  == Torn \notin Paths \cup {NoPath}

VARIABLES
  rpc,      \* rpc[r], where thread r is
  i,        \* i[r], idx[r]: its loop counter
  size,     \* size[r], max_alloc_num when it took the table's address
  cnt,      \* cnt[r], connect_cnt, the entries dev_info has room for
  out,      \* out[r], the entries of dev_info written so far
  arg,      \* arg[r], the device it asks for, or the player it has picked
  reads,    \* reads[r], calls made
  present,  \* history: present[r], devices in the table at some time of the call
  arrived,  \* history: arrived[r], slots that became connected during the call
  gone,     \* history: gone[r], slots that stopped being connected during it
  moved,    \* history: moved[r], the table was reallocated or freed during it
  refilled  \* refilled[r], slots that got another path during it

local == <<rpc, i, size, cnt, out, arg, reads>>
seen  == <<present, arrived, gone, moved, refilled>>
rvars == <<vars, local, seen>>

Move(r, l) == rpc' = [rpc EXCEPT ![r] = l]
Step(r)    == i' = [i EXCEPT ![r] = @ + 1]

-----------------------------------------------------------------------------
(* The writers, and what a call remembers of their steps until the table *)
(* moves away under it *)

Slot(k) == IF k \in Indices THEN pcms[k].connect_flag ELSE FALSE

Writers ==
  /\ Next
  /\ LET all  == 0 .. max_alloc_num + max_alloc_num'
         up   == {k \in all : Slot(k)' /\ ~ Slot(k)}
         down == {k \in all : Slot(k) /\ ~ Slot(k)'}
         other == {k \in Indices : pcms'[k].pcm_path # pcms[k].pcm_path}
         astray(r) == moved[r] \/ max_alloc_num' # max_alloc_num
         note(nil, new) == [r \in Readers |-> IF rpc[r] = "idle" \/ astray(r) THEN nil
                                                                             ELSE new[r]]
     IN /\ present' = note({}, [r \in Readers |-> present[r] \cup Connected'])
        /\ arrived' = note(0, [r \in Readers |-> arrived[r] + Cardinality(up)])
        /\ gone'    = note(0, [r \in Readers |-> gone[r] + Cardinality(down)])
        /\ refilled' = note({}, [r \in Readers |-> refilled[r] \cup other])
        /\ moved'   = [r \in Readers |-> rpc[r] # "idle" /\ astray(r)]
  /\ UNCHANGED local

-----------------------------------------------------------------------------
(* Every call starts with `if (!bluealsa_running) return -1`, which the two *)
(* that return unsigned char and bool turn into 255 and true.                *)

Fresh(r, n, p, now) ==
  /\ i' = [i EXCEPT ![r] = 0] /\ cnt' = [cnt EXCEPT ![r] = 0]
  /\ size' = [size EXCEPT ![r] = n]
  /\ out' = [out EXCEPT ![r] = <<>>] /\ arg' = [arg EXCEPT ![r] = p]
  /\ present' = [present EXCEPT ![r] = now]
  /\ arrived' = [arrived EXCEPT ![r] = 0] /\ gone' = [gone EXCEPT ![r] = 0]
  /\ moved' = [moved EXCEPT ![r] = FALSE] /\ refilled' = [refilled EXCEPT ![r] = {}]
  /\ UNCHANGED vars

Call(r, l, p) ==
  /\ rpc[r] = "idle" /\ running /\ reads[r] < MaxReads
  /\ reads' = [reads EXCEPT ![r] = @ + 1]
  /\ Move(r, l) /\ Fresh(r, max_alloc_num, p, Connected)

\* The call's variables go out of scope.
Leave(r) == Move(r, "idle") /\ Fresh(r, 0, NoPath, {}) /\ UNCHANGED reads

-----------------------------------------------------------------------------
(* get_connect_status: count, allocate, fill *)

\* Mutant of CountSlot: the slot is counted whatever its flag says.
CountEverySlot(r) ==
  /\ rpc[r] = "count" /\ i[r] < max_alloc_num
  /\ cnt' = [cnt EXCEPT ![r] = @ + 1]
  /\ Step(r)
  /\ UNCHANGED <<vars, rpc, size, out, arg, reads, seen>>

\* The loop makes no call, so the build may keep the table's address in a register:
\* after a realloc it reads freed memory.
CountSlot(r) ==
  /\ rpc[r] = "count" /\ i[r] < max_alloc_num
  /\ \E flag \in IF size[r] = max_alloc_num THEN {pcms[i[r]].connect_flag} ELSE BOOLEAN :
       cnt' = [cnt EXCEPT ![r] = IF flag THEN @ + 1 ELSE @]
  /\ Step(r)
  /\ UNCHANGED <<vars, rpc, size, out, arg, reads, seen>>

StartFill(r) ==
  /\ Move(r, "fill") /\ i' = [i EXCEPT ![r] = 0]
  /\ UNCHANGED <<vars, size, cnt, out, arg, reads, seen>>

\* Mutant of EndCount: the last slot is left out.
EndCountEarly(r) ==
  /\ rpc[r] = "count" /\ i[r] >= max_alloc_num - 1
  /\ IF cnt[r] = 0 THEN Leave(r) ELSE StartFill(r)

\* The bound may be an old one, too.  Without a device there is no list.
EndCount(r) ==
  /\ rpc[r] = "count" /\ (i[r] >= max_alloc_num \/ i[r] >= size[r])
  /\ IF cnt[r] = 0 THEN Leave(r) ELSE StartFill(r)

\* Mutant of TestSlot: the flag is not looked at.
TestNothing(r, from, to) ==
  /\ rpc[r] = from /\ i[r] < max_alloc_num
  /\ size' = [size EXCEPT ![r] = max_alloc_num]
  /\ Move(r, to)
  /\ UNCHANGED <<vars, i, cnt, out, arg, reads, seen>>

\* A slot that is not connected is passed over; of one that is the path comes next.
TestSlot(r, from, to) ==
  /\ rpc[r] = from /\ i[r] < max_alloc_num
  /\ size' = [size EXCEPT ![r] = max_alloc_num]
  /\ IF pcms[i[r]].connect_flag
     THEN Move(r, to) /\ UNCHANGED i
     ELSE Step(r) /\ UNCHANGED rpc
  /\ UNCHANGED <<vars, cnt, out, arg, reads, seen>>

\* parse_pcm_path on the slot that was tested, without mtx.
PathRead(r) ==
  IF size[r] # max_alloc_num  THEN Paths \cup {NoPath, Torn}
  ELSE {pcms[i[r]].pcm_path} \cup (IF i[r] \in refilled[r] THEN {Torn} ELSE {})

CopySlot(r) ==
  /\ rpc[r] = "copy"
  /\ \E p \in PathRead(r) : out' = [out EXCEPT ![r] = Append(@, p)]
  /\ Step(r) /\ Move(r, "fill")
  /\ UNCHANGED <<vars, size, cnt, arg, reads, seen>>

\* *cnt and *dev are set: cnt[r] entries, of which out[r] were written.
EndFill(r) ==
  /\ rpc[r] = "fill" /\ i[r] >= max_alloc_num
  /\ Move(r, "list")
  /\ UNCHANGED <<vars, i, size, cnt, out, arg, reads, seen>>

get_connect_status(r) ==
  \/ Call(r, "count", NoPath)
  \/ CountSlot(r) \/ EndCount(r)
  \/ TestSlot(r, "fill", "copy") \/ CopySlot(r) \/ EndFill(r)

-----------------------------------------------------------------------------
(* connect_dev: nothing to do for a device that is connected *)

\* A torn address may come out as the one that is asked for.
ComparePath(r) ==
  /\ rpc[r] = "compare"
  /\ \E p \in PathRead(r) :
       \/ p \in {arg[r], Torn} /\ Move(r, "already") /\ UNCHANGED i
       \/ p # arg[r] /\ Move(r, "scan") /\ Step(r)
  /\ UNCHANGED <<vars, size, cnt, out, arg, reads, seen>>

\* Not found: ConnectProfile, whose answer is the call's.
EndScan(r) ==
  /\ rpc[r] = "scan" /\ i[r] >= max_alloc_num
  /\ Leave(r)

connect_dev(r) ==
  \/ \E p \in Paths : Call(r, "scan", p)
  \/ TestSlot(r, "scan", "compare") \/ ComparePath(r) \/ EndScan(r)

-----------------------------------------------------------------------------
(* a2dp_control: get_current_pcm_by_type copies an entry under mtx and the *)
(* command goes to the player of that device                               *)

PickPlayer(r) ==
  /\ rpc[r] = "control" /\ ~ mtxHeld
  /\ \/ /\ \E p \in Connected \ {NoPath} : arg' = [arg EXCEPT ![r] = p]
        /\ Move(r, "send")
        /\ UNCHANGED <<vars, i, size, cnt, out, reads, seen>>
     \/ Leave(r)

a2dp_control(r) == Call(r, "control", NoPath) \/ PickPlayer(r)

\* The result is handed over.
Return(r) ==
  /\ rpc[r] \in {"list", "already", "send"}
  /\ Leave(r)

Reader(r) == get_connect_status(r) \/ connect_dev(r) \/ a2dp_control(r) \/ Return(r)

ReadersInit ==
  /\ Init
  /\ rpc = [r \in Readers |-> "idle"]
  /\ i = [r \in Readers |-> 0] /\ size = i /\ cnt = i /\ reads = i
  /\ arrived = i /\ gone = i
  /\ out = [r \in Readers |-> <<>>] /\ arg = [r \in Readers |-> NoPath]
  /\ present = [r \in Readers |-> {}] /\ moved = [r \in Readers |-> FALSE]
  /\ refilled = [r \in Readers |-> {}]

ReadersNext == Writers \/ \E r \in Readers : Reader(r)

ReadersSpec == ReadersInit /\ [][ReadersNext]_rvars

\* The dispatch thread is scheduled when poll() sees a signal or it is out of it,
\* whatever the readers do.
FairReaders == ReadersSpec /\ WF_rvars(Writers /\ dbus_thread)

-----------------------------------------------------------------------------
(* Properties *)

ReaderLabels ==
  {"idle", "count", "fill", "copy", "list", "scan", "compare", "already", "control", "send"}

\* Types; a list that is being filled was allocated with room for something.
ReadersTypeOK ==
  /\ rpc \in [Readers -> ReaderLabels]
  /\ i \in [Readers -> Nat] /\ size \in [Readers -> Nat] /\ cnt \in [Readers -> Nat]
  /\ out \in [Readers -> Seq(Paths \cup {NoPath, Torn})]
  /\ arg \in [Readers -> Paths \cup {NoPath}]
  /\ reads \in [Readers -> 0 .. MaxReads]
  /\ present \in [Readers -> SUBSET (Paths \cup {NoPath})]
  /\ arrived \in [Readers -> Nat] /\ gone \in [Readers -> Nat]
  /\ moved \in [Readers -> BOOLEAN] /\ refilled \in [Readers -> SUBSET Nat]
  /\ \A r \in Readers : rpc[r] \in {"fill", "copy", "list"} => cnt[r] > 0

\* No stray byte, and the table stayed where it was.
Undisturbed(r) == ~ smashed /\ ~ moved[r]

\* A walk without the mutex reports only what was connected at some time of the
\* call: every address of get_connect_status and the device connect_dev takes for
\* connected, unless it comes of a slot that got another path while the call ran, and
\* the player a2dp_control commands, which it takes with the mutex, in any case.
ReadersSeeRealDevices ==
  \A r \in Readers : Undisturbed(r) =>
    /\ ToSet(out[r]) \subseteq present[r] \cup {Torn}
    /\ Torn \in ToSet(out[r]) => refilled[r] # {}
    /\ rpc[r] = "already" => arg[r] \in present[r] \/ refilled[r] # {}
    /\ rpc[r] = "send" => arg[r] \in present[r]

\* get_connect_status writes past the dev_info it allocated by no more entries than
\* slots were filled between its two passes: without an arrival it fits.
OverrunNeedsArrival ==
  \A r \in Readers : Undisturbed(r) => Len(out[r]) <= cnt[r] + arrived[r]

\* The list it returns has no more blank entries than slots were emptied between
\* the passes: without a departure every entry has an address.
BlankNeedsDeparture ==
  \A r \in Readers : Undisturbed(r) /\ rpc[r] = "list" => cnt[r] <= Len(out[r]) + gone[r]

=============================================================================
