----------------------------- MODULE A2dpBluez -----------------------------
(***************************************************************************)
(* The part of lib_a2dp_ctl.c that talks to BlueZ: a GLib thread keeps in  *)
(* TRANSPORT_OBJECT the path of the media transport that BlueZ announced   *)
(* last, and the volume commands of a2dp_control read the volume of that   *)
(* transport, change it by ten and write it back.  Nothing guards          *)
(* TRANSPORT_OBJECT, conn or the time between the read and the write.      *)
(***************************************************************************)
EXTENDS Integers, Sequences

CONSTANTS
  Transports,  \* objects with org.bluez.MediaTransport1
  NoObj,       \* the empty TRANSPORT_OBJECT
  Torn,        \* one whose strncpy is under way: the path of no transport
  Callers,     \* application threads
  Volumes,     \* volumes a remote device may set
  MaxEvents    \* bound on the changes BlueZ makes and on presses together

ASSUME ObjectsAssumption == NoObj \notin Transports /\ Torn \notin Transports /\ NoObj # Torn
ASSUME VolumesAssumption == Volumes \subseteq 0 .. 127
ASSUME EventsAssumption  == MaxEvents \in Nat

VARIABLES
  \* BlueZ
  exists,      \* its transports
  vol,         \* vol[t], the Volume property of transport t
  events,      \* changes and presses so far
  \* the library
  phase,       \* progress of a2dp_ctl_init and, in it, bluez_init
  initFlag, running, conn,
  subscribed,  \* kinds of signals matched: ifa_signal_handle, ifr_signal_handle in force
  looping,     \* bluez_dbus_thread runs main_loop
  deinit,      \* the next step of a2dp_ctl_deinit, or "none"
  bus,         \* signals GLib holds for the loop
  obj,         \* TRANSPORT_OBJECT
  hand,        \* the transport whose path is being copied to it
  pc,          \* pc[c], where caller c is in modify_tansport_volume_property
  up,          \* up[c], its argument
  value,       \* value[c], its variable
  target,      \* target[c], the object path of the call it has sent
  crashed,     \* "error": error->message was read without an error; "heap": a GVariant
               \* that the call had consumed was released once more; "no"
  \* history
  blind,       \* transports announced before the match or before a removal
  lost,        \* transports that went and whose removal the loop never gets
  raced,       \* a2dp_ctl_deinit had passed its test when init set initFlag
  disturbed    \* disturbed[c], obj or a volume changed since c asked for the volume

bluez == <<exists, vol, events>>
boot  == <<phase, initFlag, running, conn, subscribed, looping, deinit>>
track == <<bus, obj, hand>>
press == <<pc, up, value, target>>
hist  == <<blind, lost, raced, disturbed>>
vars  == <<bluez, boot, track, press, crashed, hist>>

Alive == crashed = "no"

-----------------------------------------------------------------------------
(* BlueZ *)

Change == Alive /\ events < MaxEvents /\ events' = events + 1

Emit(k, t) ==
  bus' = IF k \in subscribed THEN Append(bus, [kind |-> k, path |-> t]) ELSE bus

Appear(t) ==
  /\ Change /\ t \notin exists
  /\ exists' = exists \cup {t}
  /\ Emit("added", t)
  /\ blind' = blind \ {t} /\ lost' = lost \ {t}
  /\ UNCHANGED <<vol, boot, obj, hand, press, crashed, raced, disturbed>>

Vanish(t) ==
  /\ Change /\ t \in exists
  /\ exists' = exists \ {t}
  /\ Emit("removed", t)
  /\ IF "removed" \in subscribed
     THEN blind' = exists' /\ UNCHANGED lost
     ELSE blind' = blind \ {t} /\ lost' = lost \cup {t}
  /\ UNCHANGED <<vol, boot, obj, hand, press, crashed, raced, disturbed>>

\* bluetoothd dies; nobody watches its name, and no transport is taken back.
Die ==
  /\ Change /\ exists # {}
  /\ exists' = {}
  /\ blind' = {} /\ lost' = lost \cup exists
  /\ UNCHANGED <<vol, boot, track, press, crashed, raced, disturbed>>

\* The remote device has a volume control of its own.
TurnVolume(t) ==
  /\ Change /\ t \in exists
  /\ \E v \in Volumes \ {vol[t]} : vol' = [vol EXCEPT ![t] = v]
  /\ disturbed' = [c \in Callers |-> TRUE]
  /\ UNCHANGED <<exists, boot, track, press, crashed, blind, lost, raced>>

BlueZ == (\E t \in Transports : Appear(t) \/ Vanish(t) \/ TurnVolume(t)) \/ Die

-----------------------------------------------------------------------------
(* a2dp_ctl_init from the start of its dispatch thread on; bluez_init *)

Enter(from, to) == Alive /\ phase = from /\ phase' = to

\* The service is taken to be running; without it the calls return at once.
StartThread ==
  /\ Enter("new", "thread")
  /\ running' = TRUE
  /\ UNCHANGED <<bluez, initFlag, conn, subscribed, looping, deinit, track, press, crashed, hist>>

SetInitFlag ==
  /\ Enter("thread", "bluez")
  /\ initFlag' = TRUE
  /\ raced' = (deinit # "none")
  /\ UNCHANGED <<bluez, running, conn, subscribed, looping, deinit, track, press, crashed,
                 blind, lost, disturbed>>

\* a2dp_ctl_init returns 0 whatever bluez_init says.
Connect ==
  /\ \/ Enter("bluez", "connected") /\ conn' = TRUE
     \/ Enter("bluez", "up") /\ UNCHANGED conn
  /\ UNCHANGED <<bluez, initFlag, running, subscribed, looping, deinit, track, press, crashed, hist>>

\* subscribe_signals.  Only changes are subscribed to: a transport that exists is not
\* asked for.  GLib refuses to subscribe to no connection.
SubscribeAdded ==
  /\ Enter("connected", "half")
  /\ \/ conn /\ subscribed' = subscribed \cup {"added"} /\ blind' = exists
     \/ ~ conn /\ UNCHANGED <<subscribed, blind>>
  /\ UNCHANGED <<bluez, initFlag, running, conn, looping, deinit, track, press, crashed,
                 lost, raced, disturbed>>

SubscribeRemoved ==
  /\ Enter("half", "subscribed")
  /\ subscribed' = IF conn THEN subscribed \cup {"removed"} ELSE subscribed
  /\ UNCHANGED <<bluez, initFlag, running, conn, looping, deinit, track, press, crashed, hist>>

StartLoop ==
  /\ Enter("subscribed", "up")
  /\ looping' = TRUE
  /\ UNCHANGED <<bluez, initFlag, running, conn, subscribed, deinit, track, press, crashed, hist>>

\* unsubscribe_signals; what the loop has not handled is dropped.  The two calls count as
\* one: a signal that comes in between is as good as unsubscribed.  Refused likewise.
Unsubscribe ==
  \/ /\ conn /\ subscribed' = {} /\ bus' = <<>>
     /\ lost' = lost \cup {t \in Transports \ exists :
                             \E k \in 1 .. Len(bus) : bus[k] = [kind |-> "removed", path |-> t]}
  \/ ~ conn /\ UNCHANGED <<subscribed, bus, lost>>

StartLoopFails ==
  /\ Enter("subscribed", "up")
  /\ Unsubscribe
  /\ UNCHANGED <<bluez, initFlag, running, conn, looping, deinit, obj, hand, press, crashed,
                 blind, raced, disturbed>>

bluez_init == Connect \/ SubscribeAdded \/ SubscribeRemoved \/ StartLoop \/ StartLoopFails

\* Mutant of DeinitPasses: a2dp_ctl_deinit returns unless initFlag is set.
DeinitPassesUp ==
  /\ Alive /\ phase \in {"thread", "up"} /\ deinit = "none"
  /\ initFlag
  /\ deinit' = "stop"
  /\ UNCHANGED <<bluez, phase, initFlag, running, conn, subscribed, looping, track, press, crashed, hist>>

\* The application may call a2dp_ctl_deinit when init has returned, or in a callback on
\* the thread that init starts before it sets the flag.  `if (initFlag) return;`
DeinitPasses ==
  /\ Alive /\ phase \in {"thread", "up"} /\ deinit = "none"
  /\ ~ initFlag
  /\ deinit' = "stop"
  /\ UNCHANGED <<bluez, phase, initFlag, running, conn, subscribed, looping, track, press, crashed, hist>>

Deinit(from, to) == Alive /\ deinit = from /\ deinit' = to

DeinitStops ==
  /\ Deinit("stop", "unsubscribe")
  /\ running' = FALSE
  /\ UNCHANGED <<bluez, phase, initFlag, conn, subscribed, looping, track, press, crashed, hist>>

\* bluez_deinit.
DeinitUnsubscribes ==
  /\ Deinit("unsubscribe", "disconnect")
  /\ Unsubscribe
  /\ UNCHANGED <<bluez, phase, initFlag, running, conn, looping, obj, hand, press, crashed,
                 blind, raced, disturbed>>

DeinitDisconnects ==
  /\ Deinit("disconnect", "quit")
  /\ conn' = FALSE
  /\ UNCHANGED <<bluez, phase, initFlag, running, subscribed, looping, track, press, crashed, hist>>

\* A loop that the new thread has not entered yet is not stopped.
DeinitQuitsLoop ==
  /\ Deinit("quit", "clear")
  /\ looping' \in {FALSE, looping}
  /\ UNCHANGED <<bluez, phase, initFlag, running, conn, subscribed, track, press, crashed, hist>>

DeinitClearsFlag ==
  /\ Deinit("clear", "none")
  /\ initFlag' = FALSE
  /\ UNCHANGED <<bluez, phase, running, conn, subscribed, looping, track, press, crashed, hist>>

a2dp_ctl_deinit ==
  \/ DeinitPasses \/ DeinitStops
  \/ DeinitUnsubscribes \/ DeinitDisconnects \/ DeinitQuitsLoop
  \/ DeinitClearsFlag

-----------------------------------------------------------------------------
(* bluez_dbus_thread *)

Dispatching(k) ==
  /\ Alive /\ looping /\ hand = NoObj
  /\ bus # <<>> /\ Head(bus).kind = k
  /\ bus' = Tail(bus)

Forget == obj' = NoObj /\ disturbed' = [c \in Callers |-> TRUE]

\* The new path is copied over the old one in two calls: memset, then strncpy.
HandleAdded ==
  /\ Dispatching("added")
  /\ Forget /\ hand' = Head(bus).path
  /\ UNCHANGED <<bluez, boot, press, crashed, blind, lost, raced>>

\* Mutant of FinishAdded: memset comes after strncpy.
FinishAddedBlank ==
  /\ Alive /\ hand # NoObj
  /\ Forget /\ hand' = NoObj
  /\ UNCHANGED <<bluez, boot, bus, press, crashed, blind, lost, raced>>

FinishAdded ==
  /\ Alive /\ hand # NoObj
  /\ obj' = hand /\ hand' = NoObj
  /\ disturbed' = [c \in Callers |-> TRUE]
  /\ UNCHANGED <<bluez, boot, bus, press, crashed, blind, lost, raced>>

\* Mutant of HandleRemoved: the path is left.
HandleRemovedKept ==
  /\ Dispatching("removed")
  /\ UNCHANGED <<bluez, boot, obj, hand, press, crashed, hist>>

\* Whichever transport is removed, the one that was announced last is forgotten.
HandleRemoved ==
  /\ Dispatching("removed")
  /\ Forget
  /\ UNCHANGED <<bluez, boot, hand, press, crashed, blind, lost, raced>>

bluez_dbus_thread == HandleAdded \/ FinishAdded \/ HandleRemoved

-----------------------------------------------------------------------------
(* modify_tansport_volume_property, called by a2dp_control *)

Goto(c, l) == pc' = [pc EXCEPT ![c] = l]

VolumeKey(c, u) ==
  /\ Change /\ phase = "up" /\ running /\ pc[c] = "idle"
  /\ Goto(c, "get") /\ up' = [up EXCEPT ![c] = u]
  /\ value' = [value EXCEPT ![c] = 0] /\ target' = [target EXCEPT ![c] = NoObj]
  /\ UNCHANGED <<exists, vol, boot, track, crashed, hist>>

\* conn_with_bluez looks at conn first and uses it later.
TestConn(c) ==
  /\ Alive
  /\ \/ pc[c] = "get" /\ Goto(c, IF conn THEN "getcall" ELSE "idle")
     \/ pc[c] = "set" /\ Goto(c, IF conn THEN "setcall" ELSE "idle")
  /\ UNCHANGED <<bluez, boot, track, up, value, target, crashed, hist>>

\* What the characters of TRANSPORT_OBJECT may spell.
Reading == IF hand = NoObj THEN {obj} ELSE {NoObj, Torn, hand}

\* g_dbus_connection_call_sync refuses what is no connection or no object path; it
\* returns NULL and sets no error.
Refused(p) == ~ conn \/ p = NoObj

\* A torn path may or may not be an object path.
Crash(c) ==
  /\ Alive /\ pc[c] \in {"getcall", "setcall"}
  /\ \E p \in Reading : Refused(p) \/ p = Torn
  /\ crashed' = "error"
  /\ UNCHANGED <<bluez, boot, track, press, hist>>

\* The path is read and the call is sent; the thread blocks for the reply.
SendGet(c) ==
  /\ Alive /\ pc[c] = "getcall"
  /\ \E p \in Reading : ~ Refused(p) /\ target' = [target EXCEPT ![c] = p]
  /\ disturbed' = [disturbed EXCEPT ![c] = FALSE]
  /\ Goto(c, "getreply")
  /\ UNCHANGED <<bluez, boot, track, up, value, crashed, blind, lost, raced>>

\* TRANSPORT_OBJECT is read again.
SendSet(c) ==
  /\ Alive /\ pc[c] = "setcall"
  /\ \E p \in Reading : ~ Refused(p) /\ target' = [target EXCEPT ![c] = p]
  /\ Goto(c, "setreply")
  /\ UNCHANGED <<bluez, boot, track, up, value, crashed, hist>>

\* BlueZ does not know the object, or does not answer: -1.
CallFails(c) ==
  /\ Alive /\ pc[c] \in {"getreply", "setreply"}
  /\ Goto(c, "idle")
  /\ UNCHANGED <<bluez, boot, track, up, value, target, crashed, hist>>

\* A call consumes its arguments.  They are released once more after a Get and after a
\* Set that has succeeded, of which the heap may or may not take notice.
OverUnref(c) ==
  /\ Alive
  /\ \/ pc[c] = "getreply"
     \/ pc[c] = "setreply" /\ target[c] \in exists
  /\ crashed' = "heap"
  /\ UNCHANGED <<bluez, boot, track, press, hist>>

Louder(v) == IF v + 10 > 127 THEN 127 ELSE v + 10

Quieter(v) == IF v - 10 > 0 THEN v - 10 ELSE 0

\* Mutant of GetVolume: a failed read is not returned from.
GetVolumeAnyhow(c) ==
  /\ Alive /\ pc[c] = "getreply"
  /\ value' = [value EXCEPT ![c] = IF up[c] THEN Louder(0) ELSE Quieter(0)]
  /\ Goto(c, "set")
  /\ UNCHANGED <<bluez, boot, track, up, target, crashed, hist>>

GetVolume(c) ==
  /\ Alive /\ pc[c] = "getreply" /\ target[c] \in exists
  /\ LET v == vol[target[c]]
     IN  value' = [value EXCEPT ![c] = IF up[c] THEN Louder(v) ELSE Quieter(v)]
  /\ Goto(c, "set")
  /\ UNCHANGED <<bluez, boot, track, up, target, crashed, hist>>

\* The call returns -1 even now.
SetVolume(c) ==
  /\ Alive /\ pc[c] = "setreply" /\ target[c] \in exists
  /\ vol' = [vol EXCEPT ![target[c]] = value[c]]
  /\ disturbed' = [d \in Callers |-> d # c \/ disturbed[d]]
  /\ Goto(c, "idle")
  /\ UNCHANGED <<exists, events, boot, track, up, value, target, crashed, blind, lost, raced>>

modify_tansport_volume_property(c) ==
  \/ \E u \in BOOLEAN : VolumeKey(c, u)
  \/ TestConn(c) \/ Crash(c) \/ OverUnref(c) \/ CallFails(c)
  \/ SendGet(c) \/ GetVolume(c) \/ SendSet(c) \/ SetVolume(c)

-----------------------------------------------------------------------------

Init ==
  /\ exists \in SUBSET Transports /\ vol \in [Transports -> Volumes] /\ events = 0
  /\ phase = "new" /\ initFlag = FALSE /\ running = FALSE /\ conn = FALSE
  /\ subscribed = {} /\ looping = FALSE /\ deinit = "none"
  /\ bus = <<>> /\ obj = NoObj /\ hand = NoObj
  /\ pc = [c \in Callers |-> "idle"] /\ up = [c \in Callers |-> FALSE]
  /\ value = [c \in Callers |-> 0] /\ target = [c \in Callers |-> NoObj]
  /\ crashed = "no"
  /\ blind = {} /\ lost = {} /\ raced = FALSE /\ disturbed = [c \in Callers |-> FALSE]

Next ==
  \/ BlueZ
  \/ StartThread \/ SetInitFlag \/ bluez_init \/ a2dp_ctl_deinit
  \/ bluez_dbus_thread
  \/ \E c \in Callers : modify_tansport_volume_property(c)

Spec == Init /\ [][Next]_vars

-----------------------------------------------------------------------------
(* Properties *)

\* Types.  No command takes a volume out of the range of the property.
TypeOK ==
  /\ exists \in SUBSET Transports /\ vol \in [Transports -> 0 .. 127]
  /\ events \in 0 .. MaxEvents
  /\ phase \in {"new", "thread", "bluez", "connected", "half", "subscribed", "up"}
  /\ initFlag \in BOOLEAN /\ running \in BOOLEAN /\ conn \in BOOLEAN
  /\ subscribed \in SUBSET {"added", "removed"} /\ looping \in BOOLEAN
  /\ deinit \in {"none", "stop", "unsubscribe", "disconnect", "quit", "clear"}
  /\ bus \in Seq([kind : {"added", "removed"}, path : Transports])
  /\ obj \in Transports \cup {NoObj} /\ hand \in Transports \cup {NoObj}
  /\ pc \in [Callers -> {"idle", "get", "getcall", "getreply", "set", "setcall", "setreply"}]
  /\ up \in [Callers -> BOOLEAN] /\ value \in [Callers -> 0 .. 127]
  /\ target \in [Callers -> Transports \cup {NoObj, Torn}]
  /\ crashed \in {"no", "error", "heap"}
  /\ blind \in SUBSET Transports /\ lost \in SUBSET Transports /\ raced \in BOOLEAN
  /\ disturbed \in [Callers -> BOOLEAN]

\* The GLib thread has handled every signal.
Quiescent == bus = <<>> /\ hand = NoObj

\* Once the signals are handled TRANSPORT_OBJECT never names a transport that is gone:
\* what was announced last and removed since has been forgotten, in any order of two
\* devices' signals.  The exceptions are the transports whose removal the loop never
\* gets: it fell between the two matches, bluetoothd died without a word, or a deinit
\* that raced with init has dropped it.
TransportIsLive == Quiescent => obj \in exists \cup lost \cup {NoObj}

\* Once they are handled, TRANSPORT_OBJECT is empty only if every transport there is
\* was announced before the match was added or before some transport's removal.
TransportIsKnown ==
  "added" \in subscribed /\ Quiescent /\ obj = NoObj => exists \subseteq blind

\* A command reads the message of no error only if TRANSPORT_OBJECT is empty, and that
\* only if the thread is not running, unsubscribed or behind, or no transport was
\* announced after the last removal.  It is never let down over conn, which it has
\* tested, but by a deinit that passed its test of initFlag before init set the flag
\* and takes conn away behind the back of both.
OnlyBlindCommandsCrash ==
  [][crashed' = "error" /\ Alive =>
       \/ /\ obj = NoObj
          /\ ~ looping \/ "added" \notin subscribed \/ ~ Quiescent \/ exists \subseteq blind
       \/ ~ conn /\ raced]_vars

\* A command changes a volume by no more than ten, unless TRANSPORT_OBJECT or a volume
\* has changed since it sent its question: only then may it give one device the volume
\* of another or undo somebody's change.
NoVolumeJump ==
  [][\A c \in Callers : pc[c] = "setreply" /\ ~ disturbed[c] =>
       \A t \in Transports : vol'[t] - vol[t] \in -10 .. 10 \/ pc'[c] = pc[c]]_vars

=============================================================================
