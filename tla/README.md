# Models of meta-meson

`meta-meson` is a Yocto layer for Amlogic boards. Most of it is build metadata and
vendored patches. The programs and scripts that are its own, and that run on the
device, are what these TLA+ modules are about.

## The system's parts

| Part | Source | State | Operations | What is hard | Status |
|---|---|---|---|---|---|
| A2DP library: registry | `recipes-multimedia/bluez-alsa/files/aml/lib_a2dp_ctl.c` | table `ba_pcm_info`, `bluealsa_running`, `mtx`, D-Bus queue | `a2dp_ctl_init`, `add_pcm`, `remove_pcm`, `dbus_signal_handler` | matches are added one by one; snapshot and signals overlap; `poll()` does not see signals that were read already; table grows; `realloc` fails with the mutex held; a copy that is larger than its target | `A2dpCtl`, `A2dpRegistry` |
| A2DP library: playback | same | `pcm_handle_playback`, `pcm_mtx` | `pcm_bluealsa_open`, `_write`, `_close` | threads share one handle; `bluealsa_running` is read without the mutex | `A2dpPlayback` |
| A2DP library: readers | same | reads the table without `mtx` | `get_connect_status`, `connect_dev`, `a2dp_control` | count and fill in two passes while slots are overwritten and the table is reallocated | `A2dpReaders`, over `A2dpCtl` |
| A2DP library: transport volume | same | `TRANSPORT_OBJECT`, `conn`, GLib loop | `bluez_init`, GLib signal handlers, `modify_tansport_volume_property`, `a2dp_ctl_deinit` | a string shared by threads without a lock, read again for each of two blocking calls, subscriptions and teardown in several steps, a teardown with its test inverted | `A2dpBluez` |
| `bt-halplay` | `.../aml/bt-halplay.c` | `workers[]`, `ba_pcms`, one HAL stream | `supervise_pcm_worker`, worker threads, D-Bus handler | matches added one by one, an array that moves under the threads' pointers, cancellation, one stream for all | `HalPlay` |
| OTA recovery | `recipes-core/swupdate/` | misc partition, data partition, bootloader environment, system partitions | request scripts, `swupdate.sh`, the patched `swupdate` | power cuts between any two steps, writes that were not synced, stale marks, retries | `OtaRecovery` |
| Initramfs | `recipes-core/initrdscripts/files/init-meson.sh` | data partition, factory-reset flag, encryption keys, dm-verity | format, factory reset, encrypt, mount | power cuts between steps, commands whose result nobody looks at, flags cleared before the work is done | data partition: `InitMeson` |
| `pipeline-reset` | `recipes-multimedia/pipeline-reset/files/pipeline-reset.c` | capture and encoder devices | kill, diagnose, reset | one step of several fails, processes come and go meanwhile | `PipelineReset` |
| Image packaging | `lib/meson/image.py` | dependency graph | build the order of images | cycles, names that contain each other | planned |
| Service and board scripts | `bluez_tool.sh`, `bluez-alsa.sh`, `bluez_checkhci.sh`, `fan.sh`, `format-to-ext4.sh`, `modules_install.sh`, `aml-setenv.sh` | pids, sysfs | start, stop, retry | sequential | fan control planned, the others not |
| Recipes, classes, kernel and machine configuration, `avbtool-dm-verity.py`, patches to other projects | everywhere | - | - | declarative, or not this layer's own program | not modelled |

How they interact. BlueALSA is a D-Bus service that exports a PCM for every
connected Bluetooth device. The A2DP library and `bt-halplay` are independent
clients of it: each asks for the list of PCMs once and then follows
`InterfacesAdded`, `InterfacesRemoved`, `PropertiesChanged` and (the library only)
`NameOwnerChanged`. The library calls the application back on its dispatch thread;
the application calls the library from its own threads. The OTA scripts of the
normal system leave files on the data partition and a command in misc for
`swupdate.sh`, which runs in the recovery system; the bootloader reads misc and its
environment to choose between the two.

## Modules

| Module | Models | Uses |
|---|---|---|
| `A2dpRegistry` | abstract: the registry as a bag of paths | |
| `A2dpCtl` | the registry of `lib_a2dp_ctl.c` | refines `A2dpRegistry` (`Registry`, `ImplementsRegistry`) |
| `A2dpCtl_proofs` | proofs about `A2dpCtl` | |
| `MCA2dpCtl` | instances for TLC | `A2dpCtl_proofs`, so that the inductive invariant can be checked too |
| `A2dpPlayback`, `A2dpPlayback_proofs`, `MCA2dpPlayback` | playback calls, proofs, instance | |
| `Speaker` | abstract: one player at a time at the audio HAL | |
| `HalPlay`, `HalPlay_proofs`, `MCHalPlay` | `bt-halplay`, proofs, instance | refines `Speaker` (`Output`, `ImplementsSpeaker`) |
| `A2dpReaders`, `A2dpReaders_proofs`, `MCA2dpReaders` | API calls that read the table, next to the steps of `A2dpCtl`; proofs; instance | `A2dpCtl`, `A2dpCtl_proofs`, `MCA2dpCtl` |
| `A2dpBluez`, `A2dpBluez_proofs`, `MCA2dpBluez` | transport and volume, proofs, instance | |
| `OtaTransaction` | abstract: an update as one transaction over the system partitions | |
| `OtaRecovery`, `OtaRecovery_proofs` | the recovery path, proofs | refines `OtaTransaction` (`Transaction`, `ImplementsTransaction`) |
| `InitMeson`, `InitMeson_proofs` | the data partition in the initramfs, proofs | |
| `PipelineReset`, `PipelineReset_proofs`, `MCPipelineReset` | the tool and the system around it, proofs, instance | |

Operators whose comment begins with "Mutant of" are altered forms of an action. No
specification uses them; put in the place of the action they show that a property
can fail.

### A2dpCtl

*Environment*: `exported`, `volume`, `owner` say what BlueALSA exports; `bus` is the
FIFO of signals that are on their way to the dispatch thread. A signal is queued once
its own match has been added (`matched`, five calls, a step each), and only dispatched
when the thread of `a2dp_ctl_init` runs (`phase = "run"`). The last `unread` of them are
in the socket; the others libdbus has read. `poll(-1)` looks at the socket only: `Wake`
needs something there, and then (`awake`) the thread dispatches until libdbus's queue is
empty (`Sleep`). A blocking call, of init (`ReadsAhead`) or of the application
(`ReadAhead`), reads what comes before its answer out of the socket; signals that lie
there while the thread is in `poll()` are `Stranded` until another one comes.

*Library*: `pcms[i]` is slot `i` of `ba_pcm_info.pcms`, with its `connect_flag`;
`max_alloc_num`, `running` (`bluealsa_running`) and `mtxHeld` are the C variables.
`phase` and `snap` are the progress of `a2dp_ctl_init`; `hand` is the signal whose
callback has run and whose table step has not, because the two are separate in
`dbus_signal_handler`.

*Actions*: one per step of `a2dp_ctl_init` (each match, ListNames, get PCMs, one
`add_pcm` per PCM, start the thread, `goto fail`) and one or two per branch of
`dbus_signal_handler`. What happens under `mtx` is one step. `add_pcm` copies
`sizeof(ba_pcm_status_t)` bytes into a smaller struct and so over the next slot's
`connect_flag`; `Stray` says what these bytes may do to it. A `realloc` that fails
returns with the mutex held: `mtxHeld` stays true and `AddPcm` and `RemovePcm` are
disabled for ever. The PropertiesChanged branch does nothing (see Findings).

*History*: `told` (last event of the application per path), `lost` (announced and
not added), `smashed`, `raced`, `stopped`; `missed`, the PCMs whose announcement was
caught and whose end was not, because it fell between two matches; `missedStart`, the
same of the service.

*Not modelled*: what the copy past the last slot does to the heap; a failure
half-way through the list of PCMs; an `AddMatch` that fails (its result is not looked
at), after which the signal never comes.

### A2dpReaders

Extends `A2dpCtl`: `Writers` is its next-state relation, unchanged, and each thread `r`
is in one API call at a time (`rpc[r]`), which starts once `bluealsa_running` is set. A
walk is a step per slot (`i[r]` is its loop counter), and two where the code tests
`connect_flag` and then follows a pointer into the slot (`TestSlot`, then `CopySlot` or
`ComparePath`). `get_connect_status` counts (`cnt[r]`), allocates and fills (`out[r]`).
`size[r]` is the table it took the address of: once `max_alloc_num` is another, the
memory was reallocated or freed, and what the walk reads is any value. The path of a slot
is copied without `mtx` (`PathRead`): if `add_pcm` has put another PCM into that slot since
the call began (`refilled`), the copy may meet its `memcpy`, and the address may be `Torn`,
that of neither; a torn one may even come out as the one `connect_dev` is asked for. The counting loop
calls nothing, so a build may keep address and bound in registers for the whole of it.
`a2dp_control` copies its player's entry under `mtx` and is one step.

*History*: `present[r]` (what was connected at some time of the call), `arrived[r]` and
`gone[r]` (slots filled and emptied during it), `moved[r]` (the table moved), `refilled[r]`
(slots that got another path). The two
`Needs` properties bound the disagreement of the passes: an overrun of `dev_info` takes
an arrival between them, a blank entry a departure.

*Not modelled*: what an overrun does to the heap, and the callers' use of the result.

### A2dpBluez

*Environment*: `exists` are BlueZ's media transports, `vol` their volumes, `bus` the
signals GLib holds for the loop. *Library*: `phase` is the progress of the end of
`a2dp_ctl_init` and of `bluez_init` in it; `obj` is `TRANSPORT_OBJECT`; a new path is
copied over it in two calls, and while `hand` names the new path a reader may see none,
a torn one, or the new one (`Reading`). The two subscriptions are two steps
(`SubscribeAdded`, `SubscribeRemoved`). `pc[c]` says where a caller is between the read
and the write of the volume. Each of them is a test of `conn`, a call that is sent to
whatever `TRANSPORT_OBJECT` reads then (`target[c]`), and its reply; anything may change
in between, also while the call blocks. `crashed` is "error" for the NULL `error` that
`conn_with_bluez` follows when GLib refuses the arguments, "heap" where a `GVariant` that
a call has consumed is released once more (1080, 1100, 1111-1112), which may or may not be
noticed: the process ends there or goes on. `a2dp_ctl_deinit` is enabled, with its test as
it stands, where the application can call it: after init, or in a callback on the thread
that init starts. Test and effects are steps of their own (`deinit`), so that init may set
the flag and commands may start in the middle.

*History*: `blind` are transports announced before the matches were added or before
another transport's removal, which forgets whatever is tracked; `lost` are those that went
and whose removal the loop never gets (it fell between the subscriptions, bluetoothd died
without a word, or a deinit dropped it); `raced` says that a deinit was past its test when
init set the flag; `disturbed[c]` that a volume or `obj` changed since `c` sent its question.

*Not modelled*: an application with a GLib loop of its own on the same context, a second
`a2dp_ctl_init`, and two deinits at once.

### A2dpPlayback

`pc[t]` is where thread `t` is in a call. `bluealsa_running` is read at the start of
each call and again inside a reopen, each read a step of its own. `alsa` is the set
of handles ALSA has open, `handle` the library's. Reopening calls
`pcm_bluealsa_close` with `pcm_mtx` held: the thread goes to `"relock"`, from which
there is no step. The dispatch thread is one of the threads because the application
may call the library in its callback; it changes `bluealsa_running` only between
such calls.

### HalPlay

`workers` is the memory of the array, `workers_count` the elements in use;
`slot[t]` is the index that thread `t`'s pointer refers to. `sup` is the
`supervise_pcm_worker` call in progress: each iteration of its scan is a step, and
so is the `pthread_join` in it. A worker can be cancelled only in `poll()` and
`read()` (`"poll"`), as `pthread_setcancelstate` has it. `fifo[t]` is the export its
FIFO belongs to, so that a device which went and came back hangs up the old one.
`stream`, `open_flag`, `halStreams` and `device` are the audio HAL. `crashed` says
how the process died: a call through a NULL or unloaded HAL object, or a scan past
the array. SIGTERM is `Terminate`.

`matched` are the matches that `main` has added, in three calls with a step each;
`unread` and `Stranded` are as in `A2dpCtl`, the blocking calls being the matches,
`get_pcms` and each worker's `pcm_open`. `at` is where the main loop is: at its test, in
`poll()`, or dispatching until libdbus's queue is empty, also after SIGTERM. `missed` are
the PCMs whose announcement was caught and whose removal fell between two matches.

*Refinement*: `Speaker` forgets array, signals and threads: somebody plays a PCM or
nobody does, with at most one stream, which is closed when the player ends and while
nobody plays. `Output` maps the live workers, each with the PCM its pointer leads to,
and `halStreams` to it.

*Not modelled*: the listing options, which end the program; SIGTERM before the loop is
entered, and its delivery to a worker thread instead of the main thread; an `AddMatch`
that fails.

### OtaRecovery

`misc`, `files` (the directory `swupdate/` on the data partition), `swu`,
`recovery_status`, `sw_version` and `system` survive a power cut; `pc`, `reason`,
`branch` and `code` do not. One label per command that changes something that
survives; removing a directory takes one step per file, and a file that is of use only
with what is in it (`Url`, `Server`) is written after it is made. What was done to the data
partition since it was last written out is `unsynced`: a power cut keeps any part of it,
in any order. `sync`, `umount` and an orderly reboot write it out. misc and the bootloader
environment are taken as written when their command ends. `swupdate` is the patched
program as far as the scripts can tell: it opens a transaction before it writes,
records the version, closes the transaction, and its exit status is 10 if it fails
with a transaction open. `Boot` is the bootloader, external: the code relies on it to
start the recovery system after `reboot recovery`, for a command in misc, and for an
open transaction. Whether `reboot recovery` writes misc as well is left open.

*Refinement*: `OtaTransaction` forgets requests, scripts, misc and boot reasons: the
normal system is up or not, the transaction is open or not. It may be begun and left off
any number of times, but what is half-written keeps it open, it is closed only once the
release is recorded, the release is recorded only when complete, and the package given up
only after that. `Transaction` maps the surviving variables to it.

*History*: `cut` and `late` as `MarkedUpdateIsRetried` needs them; `torn`, the power went
between `urlmisc write` and the sync that `reboot` does.

*Not modelled*: a device with two slots; more than one release; `-r`; misc or the
bootloader environment half-written.

### InitMeson

`kind` is how the root file system makes the script handle the data partition (ext4,
UBI or yaffs2), `fbeImage` whether the image has the encryption tools. `fs`, `policy`
(of `fbe_root`), `blob` (the sealed key in `fbe_keyblob`), `data` and `factory_reset`
survive a power cut; `pc`, `reset`, `newly_formatted`, `key`, `tries`, `setup` and `mode`
are the script's. Keys are numbers, so that the key of one file system is not that of
the next. The image may be replaced by one with or without FBE while the partition stays
(`Update`), so that the script also meets file systems older than the encryption. `Fault`s
are power cuts and commands that fail: `blkid`, `uenv get` and `uenv set`, a format command
that fails at once (`FormatRefused`, nothing is erased) or half-way (`FormatFails`), the
mount, `keyctl`, `fscryptctl`, the bind mount; a cut before `sync` may lose the
policy, the key file, or the contents of it, the newer before the older. `ext4` and
`yaffs2` erase and then clear the flag, UBI clears it first, so the label `clear` comes
at two places.

*History*: `asked` (a reset is owed), `misread`, `flagKept` (a boot has gone on with the
flag set although nothing is owed), `refused` (the reset's format has failed and erased
nothing), and `excuse`, the reasons for which this file system has no encryption.

*Not modelled*: two commands failing in one look at the partition (`blkid` and `uenv get`);
dm-verity, installation from the ramdisk, the root file system and its overlay, the folders
that are bound over an encrypted `/data`.

### PipelineReset

`alive`, `releasing`, `owner`, `openers` and `encoder` are the system: processes that
use the two devices, and as much of the kernel drivers as the tool's comments state and
its steps rely on (`kernelFix`: whether the release handler clears a stale owner).
`Start`, `Quit` and `Release` (a killed process's handlers) happen at any time. The
tool's steps are its system calls in their order, each with its failures; `errors` is
its global counter. `todo` are the pids that the scan of `/proc` has yet to come to.

*History*: `unscanned` (`/proc` could not be opened: one error, and the tool goes on),
`spared` (processes that started during the scan, whose `comm` could not be read, or that
`kill` did not kill),
`odd` (the verification got an errno it only logs), `disturbed`, `shared`.

*Not modelled*: the waits between the steps, other than that they need not be enough.

## Runs

Every run ends without deadlock check (`CHECK_DEADLOCK FALSE`): with the bounds on
changes used up and all work done each of these systems may stop.

| Run | Question | Bounds |
|---|---|---|
| `registry` | does the table agree with BlueALSA once the queue is empty, and what is the application told, with every accident that the code allows, matches added one by one included? | 2 PCMs, 2 values of a property, 4 changes, 2 slots |
| `registry_refines` | do slots, reuse and growth make a bag, does a device that stays get in for good, and what can an unlocked reader of the table be told? | 2 PCMs over 1 slot (the table grows), 2 changes, a reader, no stray bytes |
| `bluez` | which transport is tracked, what may a volume command do, when does it crash? | 2 transports, 2 callers, 4 changes and presses, volumes 5 and 125 |
| `playback` | is the handle used, closed and counted right; do calls return? | 3 threads, 2 calls each, 2 service stops |
| `playback_reopen` | *violated*: does open close the open device? | as `playback` |
| `halplay` | to the HAL, is it one player after the other with no stream left open? valid pointers, known crashes only, no stale worker but for a removal between two matches | 2 PCMs, 2 threads, 3 changes, SIGTERM |
| `halplay_formats` | with codecs and a PCM that is not played: is nobody stuck, does `pthread_join` return, and a removed PCM lose its worker, unless `poll()` is left waiting over signals already read? | 2 PCMs, 2 formats, 2 changes |
| `ota` | with the power cut anywhere and any part of what was not synced lost, is what survives good enough to go on, is it one transaction, and does recovery end? | 2 requests, 2 power cuts |
| `ota_retry` | *violated*: what a message says of an update in progress | as `ota` |
| `initmeson` | is encrypted data readable, are resets remembered and carried out, is data erased only then, and when is `/data` plain on an image with encryption? | 4 faults, 3 resets, all kinds of partition |
| `init_encrypted` | *violated*: is a newly formatted partition treated as one? | 1 fault, 1 reset |
| `pipeline` | what is true when the tool says that the pipeline is ready? | 3 processes, 2 of them pipelines, 1 process started |

Why the bounds are enough. For the registry, two PCMs give the races between one device's
add and remove and another's add into the freed slot; four changes allow a device to be
announced, withdrawn and announced again around the snapshot together with a stop of the
service; two PCMs over one slot make the table grow. Three threads are two callers and the
dispatch thread; two calls each allow an open to meet an open handle. Two PCMs and two
threads are what it takes to stop one worker for another and to meet its leftovers. Two
power cuts separate a first attempt, a second attempt and what follows; the proofs hold for
any number. Two transports are what it takes for one device's removal to forget another's
path; volumes of 5 and 125 are within a step of both limits. Four faults let a command fail
in each of two boots with the power cut in both, and three resets let a second reset meet
the leftovers of the first. One process started, with any set of processes there at first,
can meet every step of the tool; the processes there at first are the ones it is to kill.
`halplay` has one format: what codec changes do is a question of `halplay_formats` only.
Counters without a bound in the code (`gen`, `opens`, `halStreams`) are bounded by
`MaxEvents` or `MaxCalls`.

The conditions in the properties are part of the result. `ReportedIsExported` holds
only in a clean run (`raced`, `stopped`, `smashed` all false):
a PCM that is both in the snapshot and in a queued signal gets two entries of which
`remove_pcm` clears one; the table is not cleared when the service stops; and a stray
byte may do anything to a flag. `ExportedIsReported` needs none of the first two.

Signals that fall between two matches are a condition as well. If the removal of an
announced PCM is one of them, the application goes on believing in a device that is gone
and may be told of it twice (`CallbacksAreAccurate`, `CallbacksAlternate`: `missed`), and
`bt-halplay` keeps a worker for it, or finds the dead one when it comes back
(`NoStaleWorker`, `WorkersAreRunning`). If the service stops and restarts around the last
match, `bluealsa_running` stays FALSE with the service up (`RunningTracksOwner`:
`missedStart`). Each property excepts exactly the PCM or flag in question, and only until
a later signal has put it right.

## Fairness

* `A2dpCtl`: weak fairness of the dispatch thread. It waits in `poll()` until there is
  something in the socket, so it may wait for ever over signals that a blocking call has
  read: `EventuallyReported` has `~ <>[]Stranded` as a hypothesis. BlueALSA, and the
  application that calls `a2dp_ctl_init`, owe nothing.
* `A2dpPlayback`: weak fairness of a thread inside a call; the device is opened
  `SND_PCM_NONBLOCK`. Nobody has to make a call.
* `HalPlay`: weak fairness of the main thread and of the workers taken together: one is
  alive at a time. The main thread, too, waits in `poll()` for the socket only, and
  `RemovalTakesEffect` has the same hypothesis. The HAL's `write` is assumed to return.
  Nobody has to send SIGTERM.
* `A2dpReaders`: the dispatch thread, as in `A2dpCtl`; readers owe nothing.
* `InitMeson`: the script goes on; a device on which a reset was requested is restarted
  by whoever asked for it, and one that stopped in `fatal()` by whoever finds it.
* `OtaRecovery`: weak fairness of boot, scripts and `swupdate`, whose waits all have
  time limits. Power cuts are bounded, requests and the operator owe nothing.

## Proofs

All are for every value of the constants, under the assumptions named in the modules
(finite sets, bounds that are numbers, distinct names).

* `A2dpCtl_proofs`: everything the runs check of `A2dpCtl` but liveness. That a
  drained queue leaves no exported device out of the table (`NoDeviceIsMissed`) is not
  inductive, for it says nothing while signals are queued. `AllAccounted` does: at any
  moment an exported device is in the table, in the rest of the list being loaded, or
  announced by a queued signal (or the one in hand) which no later signal takes back;
  and a device that is not exported has its last word in the queue. With the order of
  the steps of init (`InitOrder`: what `phase` says about table and list) and the types
  it makes the inductive invariant `IInv`. The proof has one lemma per group of
  actions; the argument about the queue is about appending at one end and taking from
  the other. The other theorems have invariants of the same form, each with `IInv`:
  * `RunningIsTrue`: `OwnerTracked` says that the last NameOwnerChanged in the queue tells
    the owner, or there is none and `running` does (or init has still to ask), except for
    a start that was missed.
  * `TheApplicationKnows`, `NoEventTwice`: `ToldInv` says that the last signal about a
    path, or else what was told, gives the true picture (`Pictured`); that signals about
    a path alternate in the queue (`InTurn`), the first being news (`IsNews`), but for an
    announcement whose end was missed. `QueueMatched` says that only signals with a match
    are queued, `MissedOrder` that a clean run has missed nothing.
  * `NoDeviceIsInvented`: `TableInv` says of a clean run that an announcement of a path
    finds it neither in the table nor on its way there (`AddsOnce`), and that a path there
    with nothing about it queued is exported (`Settled`).
  * `TableIsABag`: the refinement of `A2dpRegistry`. Each step changes the cardinality of
    the slots of a path as a step of the bag does, in every behaviour in which no flag is
    overwritten (`[] ~ smashed`), whatever the stray bytes may do; the run takes the case
    that they never do anything.
* `A2dpPlayback_proofs`: `PlaybackTypeCorrect`, `WritesAreSafe`, `LeaksNeedStops`. The
  invariant says that `pcm_mtx` is held by the thread inside a critical section, hence that
  there is one at most, and that the handle, if there is one, is open in ALSA. Of the
  mutex three theorems more: `OnlyReopenDeadlocks` (a thread that cannot go on waits for
  one that can, unless a reopen has called close), `ReopenBlocksPlayback` (that one holds
  `pcm_mtx` for ever: the finding below, for any number of threads) and `MutexIsGivenBack`
  (otherwise the holder gives it up). `LeaksAccounted` adds to
  the handles lost the threads that are between the two reads of `bluealsa_running`
  (`AtRisk`): a stop is the only step that makes the sum grow, by at most one for each of
  the other threads. `ThreadsAssumption` says that there are finitely many.
* `A2dpReaders_proofs`: `ReadersImplementTable` (a behaviour with readers is one of
  `A2dpCtl`, so that `NoDeviceIsMissed` and `TableIsABag` carry over as
  `NoDeviceIsMissedByReaders` and `ReadersReadABag`), `ReadersTypeCorrect`,
  `ReadersAreTruthful`. The invariant says of a walk that its index
  is inside the table it took the address of, and that the slot it has tested, and what it
  has copied, was connected at some time of the call, or is torn and of a slot that was
  refilled; `Sized` ties the table to `phase`.
  `OverrunsAreArrivals` and `BlanksAreDepartures` count: `Balance` says that the entries
  written and the connected slots still in view are as many as were counted, give or take
  the slots that were filled and emptied since the call began. A slot tested and not yet
  copied counts as written, for nothing can take it back. `SignalsAreTaken`: the
  dispatch thread takes every signal that comes to the head of the queue or the queue is
  stranded, whatever the readers do, unless a failed `realloc` left `mtx` locked.
* `A2dpBluez_proofs`: `TypeCorrect`, `TransportStaysLive`, `TransportGetsKnown`,
  `CrashesAreBlind`, `VolumesDoNotJump`. `TransportIsLive` says nothing while signals are
  queued; `LiveInv` says that any path that was announced, in the queue, in hand or
  tracked, is that of a transport there is, has a removal queued behind it, or is one whose
  removal never comes, and `KnownInv` is the counterpart for paths that were lost. `BootInv`
  says how far init has come, for all that deinit can do about it, and that `conn` goes away
  under a command only if a deinit has raced with init. `VolumeInv` says that until something
  is disturbed question and answer go to the transport that is tracked, and the value to be
  written is within ten of its volume. The last two theorems
  are action properties: the step is looked at in a state of `IInv`.
* `HalPlay_proofs`: `TypeCorrect`, `AtMostOneWorker`, `PointersStayCurrent`,
  `StreamsDoNotLeak`, `CrashesStayKnown`, `StaleWorkersGo`, `WorkersKeepRunning`,
  `OnePlayerAtATime`. `ArrayInv` says that the array, made for many workers, has one
  element in use at most, at index 0, that every thread there is belongs to it, and how far
  a scan can be; removal therefore never moves an element under a thread that is alive.
  `StreamInv` ties the stream to the label of the one worker. `AtMostOneWorker` and
  `StreamsDoNotLeak` carry `OnePlayerAtATime`, the refinement of `Speaker` that the run
  checks. `StaleWorkersGo` and `WorkersKeepRunning` say
  nothing while signals are queued: `GoneInv` says that a PCM that is gone has its removal
  queued with no announcement behind it, or has no trace left, or was missed between the
  matches; `EndInv` that a worker whose connection has ended has a removal queued, a stop
  under way, or a join, or its end was missed; `MatchInv` that all matches are there before
  the list is taken; `KnownInv` that
  `HandleRemoved` will find the PCM in `ba_pcms` when that removal comes. `NobodyIsStuck`
  needs most of it: a live worker has a branch for whatever it finds, and so has
  `supervise_pcm_worker`, which waits for nothing but a join of a worker that is alive.
  `SignalsAreTaken`: the loop takes every signal that comes to the head of the queue, or
  the queue is stranded, while the process lives and has not been told to end.
* `OtaRecovery_proofs`: `OtaTypeCorrect`, `NoPartialBoot`, `UrlIsBacked`, `MarkedIsRetried`,
  `RecordedStaysComplete`, `PackageStays`, and the refinement of `OtaTransaction`,
  `UpdateIsATransaction`, which joins `NoPartialBoot` and the last two. The invariant has a
  part for the transaction (it is open while anything is half-written, and nothing is when
  the normal system runs), one for the requests (which files are there when the scripts get
  to each label, which of them may be unsynced there, and that the normal system runs only
  with misc clean), and one for retries (an interrupted network update is marked, or the
  script is between the failure and the mark). `NoDeadEnd`: whatever survives a power cut,
  boot, scripts or `swupdate` have a branch for it.
* `InitMeson_proofs`: `TypeCorrect`, `EncryptedDataHasItsKey`, `ResetsAreRemembered`,
  `PlainHasAnExcuse`, `ErasedOnRequest`. `Progress` says what each label knows of the
  partition; `KeyInv` that a new file system holds nothing until its key is safe, and that
  the key of an old one is the saved one; `EraseInv` who has asked for what is about to be
  erased, and what a flag means that is still set; `PlainInv` that a file system without a
  key that could be loaded is new or has a reason already. `NoDeadEnd`: the script has a
  branch for every partition it can find, and a device that is off or stopped has someone to
  restart it.
* `PipelineReset_proofs`: `TypeCorrect`, `ReadyMeansReady`, `EncoderIsTornDown`,
  `NoPipelineSurvives`. `ErrorsSoFar` bounds the counter by the label, which is what the
  type of `errors` needs; `OwnerInv` and `EncoderInv` carry the result of a step to the
  summary; `ScanInv` says that a pipeline the scan has passed is spared, and that a scan
  that was not made is an error.

Three liveness properties are theorems: `RecoveryComesToAnEnd`, `CallsOfSupervisorReturn` and
`ResetsAreCarriedOut`. Each has a `Rank`, a bound on the steps that are left (26, 7 and
10), and the non-temporal lemma that every step of those who are owed fairness makes it
smaller or ends the wait, and that no step of anybody else makes it larger. One instance
of `Nears(m, n)` for each value leads from the first to the end; propositional temporal
logic does the rest. The induction is written out because none over the natural numbers
can be cited, so it takes a rank with a constant bound. The same way of arguing, with two
or three stages for a rank, gives `SignalsAreTaken` and `MutexIsGivenBack`, the steps of
which the liveness properties below consist. Two kinds of hypothesis are part of the
statements:

* `[]GuardsSuffice`: where the guard of an action is true, the action can be taken. The
  guards are written out as `WayOn` (`ThreadWayOn`, `NotStuck`, ...), and that one of them
  is true whenever someone owes a step is proved: `NoDeadEnd` for OTA and initramfs,
  `NobodyIsStuck`, and inside `SignalsAreTaken` and `MutexIsGivenBack`. What is left is
  the shape of the actions, a guard and then an assignment to each variable; it is a
  hypothesis because the provers take `ENABLED` as it stands and cannot look into it.
  `ThreadsCanGoOn` derives from it the `ENABLED` invariant `ThreadsGoOn`, which TLC checks
  without any hypothesis.
* `<>[][~ PowerCut]_vars` and `<>[][faults' = faults]_vars`: that power cuts, and commands
  that fail, cease. In the models they are bounded, so every behaviour has it; the proofs
  say for how long after the last one the property may take. `RecoveryComesToAnEnd` also
  needs `Route`, an invariant of what each label of recovery knows of the branch it is on.

The type invariants are theorems, and no run checks them again; neither does one check
`OneWorker`, `RecordedIsComplete` and `PackageIsKept`, which the refinements imply, and
`NoStreamLeak`, of which they imply what it says of the HAL. Further theorems a run's
property is an instance of are listed in `PROJECT.json`.

Every invariant and action property of the passing runs is proved, and so are the three
refinements; the `ENABLED` formula `ThreadsGoOn` up to `GuardsSuffice`. Model-checked only:

* `EventuallyReported` and `RemovalTakesEffect`, which wait for a queue of any length to be
  drained: each step of it is `SignalsAreTaken`, but their number has no bound to write out.
  So is what they say of stranded signals.
* `CallsReturn`: a thread waits for `pcm_mtx` as long as others make calls, again any
  number, though each gives it back (`MutexIsGivenBack`).

## Findings

Each is a run that TLC finds violated and that quotes the line it contradicts.

* `lib_a2dp_ctl.c:1244` - "close before reopen" deadlocks on its own mutex, and with it
  every later playback call (`ReopenBlocksPlayback`).
* `swupdate.sh:183` - an update that a power cut interrupts is not known to be in
  progress; its request can be erased with the system half-written.
* `init-meson.sh:480` - after a factory reset the new file system is not taken for a
  new one: no key is made, and `/data` of an image with encryption is not encrypted.

Four definitions whose comment begins with "Fails:" state more of what comments say and
the code does not do. No run of the project checks them; as an invariant of the run
named they are violated.

* `PropsAreCurrent` (`registry`): the PropertiesChanged branch (`lib_a2dp_ctl.c:828`)
  wants an object path where a string arrives, so no entry is ever updated.
* `OpenFailureRetries` (`halplay`): "After PCM open failure wait one second before
  retry" (`bt-halplay.c:467`), but a failed open of the stream leads to a write.
* `CodecChangeRestarts` (`halplay_formats`): "the worker thread needs to be restarted"
  (`bt-halplay.c:593`), but the call is commented out (752).
* `RecordedUpdateEndsRecovery` (`ota`): version and transaction are recorded in two
  writes (swupdate patch, line 408); a power cut in between leaves a complete system that
  goes to recovery and refuses its own package.

The conditions of properties that hold say where else the code is weaker than it looks.

* Matches that are added one by one lose the half of a pair of signals; see Runs.
* `EventuallyReported` and `RemovalTakesEffect` except stranded signals: what a blocking
  call has read out of the socket, `poll(-1)` (`lib_a2dp_ctl.c:869`, `bt-halplay.c:955`)
  does not see. A removal can so take effect only when the next signal arrives.
* `ReadersSeeRealDevices` excepts slots that are refilled during the call: the address that
  `get_connect_status` reports may be a mixture of two devices', and `connect_dev` may take
  a device for connected because of one.
* `UrlHasRequest` excepts a power cut between `urlmisc write` (`swupdate-url.sh:20`) and the
  sync that the reboot does: `swupdate-dvb.sh` has a `sync` there, `swupdate-url.sh` has not.
* `NoPipelineLeft` excepts a process whose `comm` cannot be read or that `kill` does not
  kill. A `/proc` that cannot be opened is an error of the run, which goes on with its
  resets all the same.

* `RecoveryEnds` excepts a marked update: the mark `swupdate_retry` of a failed attempt
  can outlive the update, if the power goes before line 159 removes it, and then keeps
  misc. `MarkedUpdateIsRetried` excepts a data partition that is not ready in ten seconds:
  the script then finds no request and cleans misc. `DvbOta` goes on whatever `dvb_ota.sh`
  says, because the test in line 222 is true for any exit status.
* `ResetIsRemembered` excepts UBI: the flag is cleared (`init-meson.sh:793`) before the
  partition is formatted, and a power cut in between forgets the reset. It also excepts a
  format command that fails at once, for the flag is cleared behind it (482, 813) with
  nothing erased.
* `DataIsErasedOnRequest` excepts a reset that is carried out twice, because a boot has gone
  on with the flag still set: `uenv set` has failed, which nobody looks at, or `uenv get`
  has, or a power cut has interrupted the reset on ext4 and the next boot has formatted
  the partition as unformatted without looking at the flag. It also excepts a `blkid` that
  fails.
* `PlainIsExplained` has among its reasons a file system older than the encryption of the
  image, the case the script has in mind (329-330, 341), besides a reset, a power cut while
  the key was set up, and a failed command.
* `OverrunNeedsArrival`: a device that connects between the passes of
  `get_connect_status` makes it write past what it allocated. `Undisturbed` excepts a
  table that was reallocated meanwhile. With the service down `get_connect_status`
  returns 255 and `connect_dev` true, for `-1` goes through their return types.
* `OnlyBlindCommandsCrash`: a volume key without a tracked transport crashes the
  library, and so it does while the only transport is one that was there before the
  matches; and so it does over a `conn` that a deinit, past its test before init set
  `initFlag`, takes away. `NoVolumeJump` excepts disturbed commands: they can give one
  device the volume of another. `TransportIsLive` excepts transports whose removal the loop
  never gets, one that goes between the two subscriptions among them.
  `modify_tansport_volume_property` returns -1 even on success.
  `a2dp_ctl_deinit` does nothing after an init that succeeded.
* `ReadyIsReady` and `EncoderIsReset`: the verification only logs an errno other than
  EBUSY, and a reset that the encoder rejects is no error. `sysfs_write` counts an error
  that its caller calls harmless, so a run that has reset everything may exit with 1. On
  a dry run `diagnose_vdin1` opens the device and sends it REQBUFS(0) all the same.

## Not modelled

* `pcm_info_deinit` and a second `a2dp_ctl_init` over the state of the first.
* dm-verity, installation and the overlay of `init-meson.sh`; the two-slot system and the
  `-r` option of swupdate.
* `bluez_tool.sh`, `bluez-alsa.sh`, `bluez_checkhci.sh`, `format-to-ext4.sh`,
  `modules_install.sh`, `aml-setenv.sh`: straight sequences of commands.
* Of the C files and headers in the layer, `psplash-poky-img.h` (13.8 thousand lines of
  image data in two copies), `lv_conf.h` (configuration) and `gsensor_sample_demo.c` (a
  demo that prints what it reads) have no behaviour to model. They are more than four
  fifths of the C lines, so the share of the lines that the models cover is small; of
  `lib_a2dp_ctl.c`, `bt-halplay.c` and `pipeline-reset.c` most is covered. What is left
  of these is printing, parsing of paths, and the listing options.

## Plan

Done: `A2dpRegistry`, `A2dpCtl`, `A2dpReaders`, `A2dpBluez`, `A2dpPlayback`, `HalPlay`,
`OtaRecovery`, `InitMeson`, `PipelineReset`, the abstract `Speaker` and `OtaTransaction`,
with the proofs above. What is left, in this
order:

1. A second init and `a2dp_ctl_deinit` over the state of the first, in `A2dpReaders`.
2. `ImageDepGraph`: order and cycle detection of `image.py` as functions over small
   graphs, against a reference definition of topological order.
3. The two-slot system in `OtaRecovery`.
4. `FanControl`: thresholds of `fan.sh` against its table.
