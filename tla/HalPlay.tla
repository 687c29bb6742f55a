------------------------------ MODULE HalPlay ------------------------------
(***************************************************************************)
(* bt-halplay: plays what BlueALSA receives over Bluetooth through the     *)
(* audio HAL.  The main thread lists the exported PCMs, then follows the   *)
(* D-Bus signals and starts and stops worker threads; a worker reads the   *)
(* FIFO of one PCM and writes to hal_audio_stream, a single global stream  *)
(* that the workers open and close on their own.                           *)
(*                                                                         *)
(* Signals wait in the socket, which the main loop's poll() watches, or,   *)
(* once a blocking call of any thread has read past them, in libdbus's     *)
(* queue, which it does not.                                               *)
(*                                                                         *)
(* workers[] is an array in C: stopping workers[i] moves the last element  *)
(* to i, while the thread of the moved element keeps its pointer.          *)
(***************************************************************************)
EXTENDS Integers, Sequences, FiniteSets, SequencesExt

CONSTANTS
  Paths,      \* object paths of PCMs
  Playable,   \* those that pass supervise_pcm_worker: A2DP, mode "source"
  Formats,    \* hardware parameters: format, channels, sampling
  Threads,    \* identities of worker threads, reused once joined
  Gone,       \* a PCM that is not exported
  Chunk,      \* elements by which the workers array grows
  MaxEvents   \* bound on the changes BlueALSA makes

ASSUME PathsAssumption    == IsFiniteSet(Paths)
ASSUME PlayableAssumption == Playable \subseteq Paths
ASSUME GoneAssumption     == Gone \notin Formats
ASSUME ThreadsAssumption  == IsFiniteSet(Threads)
ASSUME ChunkAssumption    == Chunk \in Nat \ {0}
ASSUME EventsAssumption   == MaxEvents \in Nat

VARIABLES
  \* BlueALSA and the bus
  exported,        \* exported[p], the format PCM p is exported with, or Gone
  gen,             \* gen[p], how many times p has been exported
  bus,             \* signals sent to the program and not yet dispatched
  unread,          \* how many of them, the last ones, are still in the socket
  events,          \* changes so far, at most MaxEvents
  \* the main thread
  phase,           \* progress of main()
  matched,         \* the signals that a match has been added for
  at,              \* where the main loop is
  main_loop_on,    \* cleared by SIGTERM and SIGINT, read by every thread
  ba_pcms,         \* every PCM listed or announced so far
  todo,            \* listed PCMs main() has yet to supervise
  sup,             \* the supervise_pcm_worker call in progress
  workers,         \* memory of the array, indexed from 0
  workers_count,   \* elements in use
  \* worker threads
  pc,              \* pc[t], where thread t is
  slot,            \* slot[t], the index t's pointer w refers to
  fifo,            \* fifo[t], which export of its PCM t has opened
  cancelled,       \* threads pthread_cancel was called on
  \* the audio HAL
  device,          \* hal_audio_device
  stream,          \* hal_audio_stream # NULL
  open_flag,       \* audio_hal_open_flag
  halStreams,      \* streams the HAL has open
  crashed,         \* how the process died, "no" while it lives
  \* history
  oom,             \* an allocation or a pthread_create has failed
  openFailed,      \* opening the stream has failed
  failed,          \* a worker gave up on an I/O error
  silent,          \* the service died without removing what it exported
  missed           \* announced PCMs whose removal fell between the matches

env     == <<exported, gen, events>>
sock    == <<unread, at>>
main    == <<phase, matched, main_loop_on, ba_pcms, todo, sup>>
caller  == <<env, bus, sock, phase, matched, main_loop_on, ba_pcms, todo>>
array   == <<workers, workers_count>>
threads == <<pc, slot, fifo, cancelled>>
hal     == <<device, stream, open_flag, halStreams>>
hist    == <<oom, openFailed, failed, silent, missed>>
vars    == <<env, bus, sock, main, array, threads, hal, crashed, hist>>

-----------------------------------------------------------------------------
(* Data *)

Pcms    == [pcm_path : Paths, format : Formats]
Workers == [ba_pcm : Pcms, thread : Threads, active : BOOLEAN]
Signals == [kind : {"added", "removed", "props"}, pcm : Pcms]

NoSup == [op |-> "none"]

Size      == Cardinality(DOMAIN workers)
Live(t)   == pc[t] \notin {"none", "dead"}
Active(t) == workers[slot[t]].active
PathOf(t) == workers[slot[t]].ba_pcm.pcm_path

SetActive(t, b) == workers' = [workers EXCEPT ![slot[t]].active = b]

Goto(t, l) == pc' = [pc EXCEPT ![t] = l]

-----------------------------------------------------------------------------
(* BlueALSA, and the bus, which delivers the signals that have a match *)

Kinds == {"added", "removed", "props"}

Subscribed(k) == k \in matched

Emit(k, p, f) ==
  IF Subscribed(k)
  THEN /\ bus' = Append(bus, [kind |-> k, pcm |-> [pcm_path |-> p, format |-> f]])
       /\ unread' = unread + 1
  ELSE UNCHANGED <<bus, unread>>

\* The i-th signal of the queue or one after it announces p.
AddedFrom(i, p) ==
  \E j \in i .. Len(bus) : bus[j].kind = "added" /\ bus[j].pcm.pcm_path = p

Change == events < MaxEvents /\ events' = events + 1

ProgramUnchanged == UNCHANGED <<at, main, array, threads, hal, crashed>>

Export(p, f) ==
  /\ Change
  /\ exported[p] = Gone
  /\ exported' = [exported EXCEPT ![p] = f]
  /\ gen' = [gen EXCEPT ![p] = @ + 1]
  /\ Emit("added", p, f)
  /\ UNCHANGED hist /\ ProgramUnchanged

Withdraw(p) ==
  /\ Change
  /\ exported[p] # Gone
  /\ exported' = [exported EXCEPT ![p] = Gone]
  /\ Emit("removed", p, exported[p])
  /\ missed' = IF AddedFrom(1, p) /\ ~ Subscribed("removed") THEN missed \cup {p} ELSE missed
  /\ UNCHANGED <<gen, oom, openFailed, failed, silent>> /\ ProgramUnchanged

\* The codec of a connected device changes.
ChangeCodec(p, f) ==
  /\ Change
  /\ exported[p] \notin {Gone, f}
  /\ exported' = [exported EXCEPT ![p] = f]
  /\ Emit("props", p, f)
  /\ UNCHANGED <<gen, hist>> /\ ProgramUnchanged

\* The service dies.  bt-halplay has no match for NameOwnerChanged.
ServiceDies ==
  /\ Change
  /\ \E p \in Paths : exported[p] # Gone
  /\ exported' = [p \in Paths |-> Gone]
  /\ silent' = TRUE
  /\ UNCHANGED <<gen, bus, unread, oom, openFailed, failed, missed>> /\ ProgramUnchanged

BlueAlsa ==
  \/ \E p \in Paths : Withdraw(p) \/ \E f \in Formats : Export(p, f) \/ ChangeCodec(p, f)
  \/ ServiceDies

-----------------------------------------------------------------------------
(* supervise_pcm_worker, on the main thread *)

\* A PCM bt-halplay does not play is stopped, any other is started.
Supervise(pcm) ==
  sup' = [op |-> IF pcm.pcm_path \in Playable THEN "start" ELSE "stop",
          pcm |-> pcm, i |-> 0, joining |-> FALSE]

Crash(why) ==
  /\ crashed' = why
  /\ UNCHANGED <<env, bus, sock, main, array, threads, hal, hist>>

Scanning(op) == sup.op = op /\ ~ sup.joining
InUse        == sup.i < workers_count

\* A failed realloc has left workers_count beyond the array.
ScanOutOfBounds ==
  /\ sup # NoSup /\ ~ sup.joining /\ InUse /\ sup.i \notin DOMAIN workers
  /\ Crash("out_of_bounds")

SamePath == workers[sup.i].ba_pcm.pcm_path = sup.pcm.pcm_path

\* pcm_worker_stop(i): cancel, then wait in pthread_join.
StopWorker ==
  /\ cancelled' = cancelled \cup {workers[sup.i].thread}
  /\ sup' = [sup EXCEPT !.joining = TRUE]
  /\ UNCHANGED <<caller, array, pc, slot, fifo, hal, crashed, hist>>

\* Mutant of ScanForStart: the other workers are left alone.
SkipForStart ==
  /\ Scanning("start") /\ InUse /\ sup.i \in DOMAIN workers
  /\ workers[sup.i].ba_pcm # sup.pcm
  /\ sup' = [sup EXCEPT !.i = @ + 1]
  /\ UNCHANGED <<caller, array, threads, hal, crashed, hist>>

\* start: any worker but the one for this very PCM is stopped.
ScanForStart ==
  /\ Scanning("start") /\ InUse /\ sup.i \in DOMAIN workers
  /\ workers[sup.i].ba_pcm # sup.pcm
  /\ StopWorker

\* start: the worker for this PCM is there, whether or not its thread still runs.
WorkerExists ==
  /\ Scanning("start") /\ InUse /\ sup.i \in DOMAIN workers
  /\ workers[sup.i].ba_pcm = sup.pcm
  /\ sup' = NoSup
  /\ UNCHANGED <<caller, array, threads, hal, crashed, hist>>

ScanForStop ==
  /\ Scanning("stop") /\ InUse /\ sup.i \in DOMAIN workers
  /\ IF SamePath
     THEN StopWorker
     ELSE /\ sup' = [sup EXCEPT !.i = @ + 1]
          /\ UNCHANGED <<caller, array, threads, hal, crashed, hist>>

\* Mutant of JoinWorker: the element of the joined worker stays in use.
JoinWithoutRemoval ==
  /\ sup # NoSup /\ sup.joining
  /\ pc[workers[sup.i].thread] = "dead"
  /\ Goto(workers[sup.i].thread, "none")
  /\ cancelled' = cancelled \ {workers[sup.i].thread}
  /\ sup' = [sup EXCEPT !.joining = FALSE, !.i = @ + 1]
  /\ UNCHANGED <<caller, array, slot, fifo, hal, crashed, hist>>

\* pthread_join returned: the last worker moves into the gap, the scan goes on
\* behind it.
JoinWorker ==
  /\ sup # NoSup /\ sup.joining
  /\ LET t    == workers[sup.i].thread
         last == workers_count - 1
     IN /\ pc[t] = "dead"
        /\ Goto(t, "none")
        /\ cancelled' = cancelled \ {t}
        /\ workers_count' = last
        /\ workers' = [workers EXCEPT ![sup.i] = workers[last]]
  /\ sup' = [sup EXCEPT !.joining = FALSE, !.i = @ + 1]
  /\ UNCHANGED <<caller, slot, fifo, hal, crashed, hist>>

ScanDone == sup # NoSup /\ ~ sup.joining /\ ~ InUse

FinishStop ==
  /\ ScanDone /\ sup.op = "stop"
  /\ sup' = NoSup
  /\ UNCHANGED <<caller, array, threads, hal, crashed, hist>>

\* Room for one more worker: the array grows by Chunk elements if it was full (what
\* the elements past the new one hold is never read).
Grown(w) ==
  [i \in 0 .. (IF workers_count < Size THEN Size ELSE Size + Chunk) - 1 |->
     IF i = workers_count \/ i \notin DOMAIN workers THEN w ELSE workers[i]]

CreateWorker(t) ==
  /\ ScanDone /\ sup.op = "start"
  /\ pc[t] = "none"
  /\ workers_count' = workers_count + 1
  /\ workers' = Grown([ba_pcm |-> sup.pcm, thread |-> t, active |-> FALSE])
  /\ Goto(t, "bluealsa_dbus_pcm_open")
  /\ slot' = [slot EXCEPT ![t] = workers_count]
  /\ sup' = NoSup
  /\ UNCHANGED <<caller, fifo, cancelled, hal, crashed, hist>>

\* pthread_create fails: the element is given back.
CreateFails ==
  /\ ScanDone /\ sup.op = "start"
  /\ sup' = NoSup /\ oom' = TRUE
  /\ UNCHANGED <<caller, array, threads, hal, crashed,
                 openFailed, failed, silent, missed>>

\* realloc fails: workers_count has already been incremented.
GrowFails ==
  /\ ScanDone /\ sup.op = "start" /\ workers_count = Size
  /\ workers_count' = workers_count + 1
  /\ sup' = NoSup /\ oom' = TRUE
  /\ UNCHANGED <<caller, workers, threads, hal, crashed,
                 openFailed, failed, silent, missed>>

Supervisor ==
  \/ ScanOutOfBounds \/ ScanForStart \/ WorkerExists \/ ScanForStop
  \/ JoinWorker \/ FinishStop \/ CreateFails \/ GrowFails
  \/ \E t \in Threads : CreateWorker(t)

-----------------------------------------------------------------------------
(* main() and dbus_signal_handler *)

\* A blocking call reads what comes before its answer.  What arrives may wake the main
\* loop's poll() too, or be gone before poll() looks.
ReadsAhead ==
  /\ unread' = 0
  /\ at' \in (IF at = "poll" /\ bus # <<>> THEN {"poll", "dispatch"} ELSE {at})

\* The matches are added one by one, each in a call of its own.
Match(k, before) == matched = before /\ matched' = before \cup {k}

AddMatch ==
  /\ phase = "matched"
  /\ Match("added", {}) \/ Match("removed", {"added"}) \/ Match("props", {"added", "removed"})
  /\ ReadsAhead
  /\ UNCHANGED <<env, bus, phase, main_loop_on, ba_pcms, todo, sup, array, threads, hal,
                 crashed, hist>>

\* dbus_connection_add_filter has no memory: main() returns.
AddFilterFails ==
  /\ phase = "matched" /\ matched = Kinds
  /\ phase' = "exit"
  /\ UNCHANGED <<env, bus, sock, matched, main_loop_on, ba_pcms, todo, sup, array, threads,
                 hal, crashed, hist>>

\* bluealsa_dbus_get_pcms, after the matches were added; on an error main() goes
\* on without a list.
ListPcms ==
  /\ phase = "matched" /\ matched = Kinds
  /\ phase' = "supervise"
  /\ \E s \in SetToSeqs({p \in Paths : exported[p] # Gone}) \cup {<<>>} :
       LET pcms == [i \in DOMAIN s |-> [pcm_path |-> s[i], format |-> exported[s[i]]]]
       IN todo' = pcms /\ ba_pcms' = pcms
  /\ ReadsAhead
  /\ UNCHANGED <<env, bus, matched, main_loop_on, sup, array, threads, hal, crashed, hist>>

SuperviseNext ==
  /\ phase = "supervise" /\ sup = NoSup /\ todo # <<>>
  /\ Supervise(Head(todo))
  /\ todo' = Tail(todo)
  /\ UNCHANGED <<env, bus, sock, phase, matched, main_loop_on, ba_pcms, array, threads, hal,
                 crashed, hist>>

\* audio_hw_load_interface and init_check come after the first workers were
\* started; if one of them fails main() returns.
LoadDevice ==
  /\ phase = "supervise" /\ sup = NoSup /\ todo = <<>>
  /\ \/ phase' = "loop" /\ device' = "loaded"
     \/ phase' = "exit" /\ device' \in {"null", "unloaded"}
  /\ UNCHANGED <<env, bus, sock, matched, main_loop_on, ba_pcms, todo, sup, array, threads, stream,
                 open_flag, halStreams, crashed, hist>>

Known(p) == \E i \in DOMAIN ba_pcms : ba_pcms[i].pcm_path = p

LoopUnchanged ==
  UNCHANGED <<env, phase, matched, main_loop_on, todo, array, threads, hal, crashed,
              oom, openFailed, failed, silent>>

Looping(l) == phase = "loop" /\ at = l /\ sup = NoSup

\* `while (main_loop_on)` and on to poll().
EnterPoll ==
  /\ Looping("top") /\ main_loop_on
  /\ at' = "poll"
  /\ UNCHANGED <<bus, unread, ba_pcms, sup, missed>> /\ LoopUnchanged

\* poll() sees what is in the socket, and all of it is read.
PollReturns ==
  /\ Looping("poll") /\ unread > 0
  /\ at' = "dispatch" /\ unread' = 0
  /\ UNCHANGED <<bus, ba_pcms, sup, missed>> /\ LoopUnchanged

\* dbus_connection_dispatch takes from libdbus's queue and reads nothing; whatever is
\* queued is handled, also after main_loop_on was cleared.
Dispatching(k) ==
  /\ Looping("dispatch")
  /\ Len(bus) > unread /\ Head(bus).kind = k
  /\ bus' = Tail(bus)
  /\ missed' = {p \in missed :
                  k # "removed" \/ p # Head(bus).pcm.pcm_path \/ AddedFrom(2, p)}
  /\ UNCHANGED sock /\ LoopUnchanged

\* Nothing is left in libdbus's queue.
DispatchEnds ==
  /\ Looping("dispatch")
  /\ Len(bus) = unread
  /\ at' = "top"
  /\ UNCHANGED <<bus, unread, ba_pcms, sup, missed>> /\ LoopUnchanged

HandleAdded ==
  /\ Dispatching("added")
  /\ ba_pcms' = Append(ba_pcms, Head(bus).pcm)
  /\ Supervise(Head(bus).pcm)

\* The message cannot be read, or there is no memory for the PCM.
AddedFails == Dispatching("added") /\ UNCHANGED <<ba_pcms, sup>>

\* Mutant of HandleRemoved: supervise_pcm_worker instead of its stop branch.
HandleRemovedSupervises ==
  /\ Dispatching("removed")
  /\ Supervise(Head(bus).pcm)
  /\ UNCHANGED ba_pcms

\* The entry stays in ba_pcms.
HandleRemoved ==
  /\ Dispatching("removed")
  /\ sup' = IF Known(Head(bus).pcm.pcm_path)
            THEN [op |-> "stop", pcm |-> Head(bus).pcm, i |-> 0, joining |-> FALSE]
            ELSE NoSup
  /\ UNCHANGED ba_pcms

\* The first entry with the path is updated; supervise_pcm_worker is not called.
HandleProps ==
  /\ Dispatching("props")
  /\ ba_pcms' = [i \in DOMAIN ba_pcms |->
                  IF /\ ba_pcms[i].pcm_path = Head(bus).pcm.pcm_path
                     /\ \A j \in 1 .. i - 1 : ba_pcms[j].pcm_path # ba_pcms[i].pcm_path
                  THEN Head(bus).pcm
                  ELSE ba_pcms[i]]
  /\ UNCHANGED sup

\* main_loop_stop, the handler of SIGTERM and SIGINT, interrupts the main thread: in
\* poll(), or just before it, where poll() does not learn of it.
Terminate ==
  /\ phase = "loop" /\ main_loop_on
  /\ main_loop_on' = FALSE
  /\ at' \in (IF at = "poll" THEN {"poll", "top"} ELSE {at})
  /\ UNCHANGED <<env, bus, unread, phase, matched, ba_pcms, todo, sup, array, threads, hal,
                 crashed, hist>>

\* The loop is left: the device is unloaded while workers may still run.
UnloadDevice ==
  /\ Looping("top") /\ ~ main_loop_on
  /\ phase' = "exit" /\ device' = "unloaded"
  /\ UNCHANGED <<env, bus, sock, matched, main_loop_on, ba_pcms, todo, sup, array, threads, stream,
                 open_flag, halStreams, crashed, hist>>

MainThread ==
  \/ AddMatch \/ AddFilterFails \/ ListPcms \/ SuperviseNext \/ LoadDevice
  \/ EnterPoll \/ PollReturns \/ DispatchEnds
  \/ HandleAdded \/ AddedFails \/ HandleRemoved \/ HandleProps
  \/ UnloadDevice

Main == MainThread \/ Terminate

-----------------------------------------------------------------------------
(* pcm_worker_routine *)

OpenUnchanged   == UNCHANGED <<env, bus, main, workers_count, slot, cancelled>>
WorkerUnchanged == OpenUnchanged /\ UNCHANGED sock

\* audio_hal_close_stream, by whichever worker calls it.
CloseStream ==
  /\ stream' = FALSE /\ open_flag' = FALSE
  /\ halStreams' = IF stream THEN halStreams - 1 ELSE halStreams
  /\ UNCHANGED device

\* bluealsa_dbus_pcm_open, a call that waits for the answer, hands out the FIFO of the
\* PCM as exported now.
PcmOpen(t) ==
  /\ pc[t] = "bluealsa_dbus_pcm_open"
  /\ exported[PathOf(t)] # Gone
  /\ fifo' = [fifo EXCEPT ![t] = gen[PathOf(t)]]
  /\ Goto(t, "poll")
  /\ ReadsAhead
  /\ UNCHANGED <<workers, hal, crashed, hist>> /\ OpenUnchanged

\* It fails, or there is no memory for the buffer to begin with.
PcmOpenFails(t) ==
  /\ pc[t] = "bluealsa_dbus_pcm_open"
  /\ Goto(t, "exit")
  /\ failed' = (failed \/ exported[PathOf(t)] # Gone)
  /\ ReadsAhead \/ UNCHANGED sock
  /\ UNCHANGED <<workers, fifo, hal, crashed, oom, openFailed, silent, missed>>
  /\ OpenUnchanged

\* Mutant of Cancelled: cancellation is enabled around the write, not the poll.
CancelledInWrite(t) ==
  /\ pc[t] = "write" /\ t \in cancelled
  /\ Goto(t, "exit")
  /\ UNCHANGED <<workers, fifo, hal, crashed, hist>> /\ WorkerUnchanged

\* poll() and read() are the only places where a cancellation takes effect.
Cancelled(t) ==
  /\ pc[t] = "poll" /\ t \in cancelled
  /\ Goto(t, "exit")
  /\ UNCHANGED <<workers, fifo, hal, crashed, hist>> /\ WorkerUnchanged

Polls(t)   == pc[t] = "poll" /\ t \notin cancelled
HungUp(t)  == exported[PathOf(t)] = Gone \/ fifo[t] # gen[PathOf(t)]

\* hal_audio_device and the stream are valid, or there is no stream.
CanClose == stream => device = "loaded"

\* 500 ms without audio: the worker closes the stream and turns inactive.
PollTimeout(t) ==
  /\ Polls(t) /\ Active(t) /\ CanClose
  /\ CloseStream /\ SetActive(t, FALSE)
  /\ UNCHANGED <<pc, fifo, crashed, hist>> /\ WorkerUnchanged

\* POLLHUP, or main_loop_on was cleared.
PollEnds(t) ==
  /\ Polls(t)
  /\ HungUp(t) \/ ~ main_loop_on
  /\ Goto(t, "exit")
  /\ UNCHANGED <<workers, fifo, hal, crashed, hist>> /\ WorkerUnchanged

PollFails(t) ==
  /\ Polls(t)
  /\ Goto(t, "exit")
  /\ failed' = TRUE
  /\ UNCHANGED <<workers, fifo, hal, crashed, oom, openFailed, silent, missed>>
  /\ WorkerUnchanged

ReadAudio(t) ==
  /\ Polls(t) /\ ~ HungUp(t)
  /\ Goto(t, IF open_flag THEN "write" ELSE "open_output_stream")
  /\ UNCHANGED <<workers, fifo, hal, crashed, hist>> /\ WorkerUnchanged

\* audio_hal_open_stream.  pcm_open_retries is cleared after every attempt, so
\* the branch that waits before the next attempt is never taken.
OpenStream(t) ==
  /\ pc[t] = "open_output_stream" /\ device = "loaded"
  /\ stream' = TRUE /\ open_flag' = TRUE /\ halStreams' = halStreams + 1
  /\ Goto(t, "write")
  /\ UNCHANGED <<workers, fifo, device, crashed, hist>> /\ WorkerUnchanged

\* open_output_stream or standby fails; the result is ignored.
OpenStreamFails(t) ==
  /\ pc[t] = "open_output_stream" /\ device = "loaded"
  /\ stream' = FALSE /\ open_flag' = FALSE
  /\ openFailed' = TRUE
  /\ Goto(t, "write")
  /\ UNCHANGED <<workers, fifo, device, halStreams, crashed, oom, failed, silent, missed>>
  /\ WorkerUnchanged

OpenWithoutDevice(t) ==
  /\ pc[t] = "open_output_stream" /\ device # "loaded"
  /\ Crash("no_device")

\* hal_audio_stream->write; an underrun (EPIPE) is slept over.
WriteAudio(t) ==
  /\ pc[t] = "write" /\ stream /\ device = "loaded"
  /\ SetActive(t, TRUE)
  /\ Goto(t, "poll")
  /\ UNCHANGED <<fifo, hal, crashed, hist>> /\ WorkerUnchanged

WriteFails(t) ==
  /\ pc[t] = "write" /\ stream /\ device = "loaded"
  /\ SetActive(t, TRUE)
  /\ Goto(t, "exit")
  /\ failed' = TRUE
  /\ UNCHANGED <<fifo, hal, crashed, oom, openFailed, silent, missed>>
  /\ WorkerUnchanged

WriteWithoutStream(t) ==
  /\ pc[t] = "write" /\ ~ stream
  /\ Crash("no_stream")

WriteWithoutDevice(t) ==
  /\ pc[t] = "write" /\ stream /\ device # "loaded"
  /\ Crash("no_device")

\* Mutant of ExitWorker: the stream is left open.
ExitWithoutClose(t) ==
  /\ pc[t] = "exit"
  /\ Goto(t, "dead")
  /\ UNCHANGED <<workers, fifo, hal, crashed, hist>> /\ WorkerUnchanged

\* pcm_worker_routine_exit, run as a cleanup handler.
ExitWorker(t) ==
  /\ pc[t] = "exit" /\ CanClose
  /\ CloseStream
  /\ Goto(t, "dead")
  /\ UNCHANGED <<workers, fifo, crashed, hist>> /\ WorkerUnchanged

CloseWithoutDevice(t) ==
  /\ pc[t] = "exit" \/ (Polls(t) /\ Active(t))
  /\ ~ CanClose
  /\ Crash("no_device")

pcm_worker_routine(t) ==
  \/ PcmOpen(t) \/ PcmOpenFails(t)
  \/ Cancelled(t) \/ PollTimeout(t) \/ PollEnds(t) \/ PollFails(t) \/ ReadAudio(t)
  \/ OpenStream(t) \/ OpenStreamFails(t) \/ OpenWithoutDevice(t)
  \/ WriteAudio(t) \/ WriteFails(t) \/ WriteWithoutStream(t) \/ WriteWithoutDevice(t)
  \/ ExitWorker(t) \/ CloseWithoutDevice(t)

-----------------------------------------------------------------------------

Init ==
  /\ exported \in [Paths -> Formats \cup {Gone}]
  /\ gen = [p \in Paths |-> 0]
  /\ bus = <<>> /\ unread = 0 /\ events = 0
  /\ phase = "matched" /\ matched = {} /\ at = "top" /\ main_loop_on = TRUE
  /\ ba_pcms = <<>> /\ todo = <<>> /\ sup = NoSup
  /\ workers = [i \in {} |-> 0] /\ workers_count = 0
  /\ pc = [t \in Threads |-> "none"] /\ slot = [t \in Threads |-> 0]
  /\ fifo = [t \in Threads |-> 0] /\ cancelled = {}
  /\ device = "null" /\ stream = FALSE /\ open_flag = FALSE /\ halStreams = 0
  /\ crashed = "no"
  /\ oom = FALSE /\ openFailed = FALSE /\ failed = FALSE /\ silent = FALSE
  /\ missed = {}

WorkerThreads == \E t \in Threads : pcm_worker_routine(t)

Program == Supervisor \/ Main \/ WorkerThreads

Next == crashed = "no" /\ (BlueAlsa \/ Program)

Spec == Init /\ [][Next]_vars

\* The scheduler runs the main thread, which waits in poll() until there is something
\* in the socket, and the workers if one can take a step (there
\* is one at a time); a cancelled worker in poll() or read() is woken by its
\* cancellation.  Nobody has to send SIGTERM.
FairSpec ==
  /\ Spec
  /\ WF_vars(crashed = "no" /\ (Supervisor \/ MainThread))
  /\ WF_vars(crashed = "no" /\ WorkerThreads)

-----------------------------------------------------------------------------
(* Properties *)

Labels == {"none", "bluealsa_dbus_pcm_open", "poll", "open_output_stream", "write",
           "exit", "dead"}

TypeOK ==
  /\ exported \in [Paths -> Formats \cup {Gone}] /\ gen \in [Paths -> Nat]
  /\ bus \in Seq(Signals) /\ unread \in 0 .. Len(bus) /\ events \in 0 .. MaxEvents
  /\ phase \in {"matched", "supervise", "loop", "exit"} /\ main_loop_on \in BOOLEAN
  /\ matched \in SUBSET Kinds /\ at \in {"top", "poll", "dispatch"}
  /\ ba_pcms \in Seq(Pcms) /\ todo \in Seq(Pcms)
  /\ sup \in [op : {"start", "stop"}, pcm : Pcms, i : Nat, joining : BOOLEAN] \cup {NoSup}
  /\ \E n \in 0 .. Chunk : workers \in [0 .. n - 1 -> Workers]
  /\ workers_count \in 0 .. Chunk
  /\ pc \in [Threads -> Labels] /\ slot \in [Threads -> Nat]
  /\ fifo \in [Threads -> Nat] /\ cancelled \subseteq Threads
  /\ device \in {"null", "loaded", "unloaded"}
  /\ stream \in BOOLEAN /\ open_flag \in BOOLEAN /\ halStreams \in Nat
  /\ crashed \in {"no", "out_of_bounds", "no_device", "no_stream"}
  /\ oom \in BOOLEAN /\ openFailed \in BOOLEAN /\ failed \in BOOLEAN
  /\ silent \in BOOLEAN /\ missed \in SUBSET Paths

\* Starting a worker first stops and joins every other one, so the stream that
\* all workers share has one user: a second live worker would close the stream
\* under the first, and pcm_worker_stop would move it to another array element
\* while its pointer stays behind.
OneWorker == \A t, u \in Threads : Live(t) /\ Live(u) => t = u

\* A live worker's pointer refers to the element that names it as its thread.
PointersAreCurrent ==
  \A t \in Threads : Live(t) =>
    slot[t] < workers_count /\ workers[slot[t]].thread = t

\* The HAL never has two output streams open, and none that hal_audio_stream has
\* forgotten, although open and close are spread over workers, timeouts and exits;
\* and when no worker is left, however it was stopped, it has none ("cancellation
\* should be possible only in the carefully selected place in order to prevent ...
\* resources not being released").
NoStreamLeak ==
  /\ halStreams = IF stream THEN 1 ELSE 0
  /\ (\A t \in Threads : ~ Live(t)) => ~ stream /\ ~ open_flag

\* The process dies only where the code leaves it no choice: a stream that could
\* not be opened is written to anyway, a worker runs before the device is loaded
\* or after it is unloaded, an allocation failed.
CrashesAreKnown ==
  /\ crashed = "no_stream" => openFailed
  /\ crashed = "no_device" => phase \in {"supervise", "exit"}
  /\ crashed = "out_of_bounds" => oom

Quiescent == phase = "loop" /\ sup = NoSup /\ bus = <<>>

InUseWorkers == {workers[i] : i \in (0 .. workers_count - 1) \cap DOMAIN workers}

\* When every signal has been handled, workers[] holds no PCM that is gone (unless
\* the service died silently, or the removal fell between the matches): a PCM listed
\* at start and removed before the loop, or announced twice, is found among the
\* leftovers in ba_pcms.
NoStaleWorker ==
  Quiescent /\ ~ silent
    => \A w \in InUseWorkers :
         exported[w.ba_pcm.pcm_path] # Gone \/ w.ba_pcm.pcm_path \in missed

\* A worker that is in workers[] for an exported PCM is running, or has given up on
\* an error, or lost its PCM in a silent death of the service, or between the matches;
\* a reconnect that is signalled never finds the dead worker of an earlier connection
\* whose end was signalled, too.
WorkersAreRunning ==
  Quiescent /\ main_loop_on /\ ~ silent /\ ~ failed
    => \A w \in InUseWorkers :
         \/ Live(w.thread) /\ pc[w.thread] # "exit"
         \/ w.ba_pcm.pcm_path \in missed

LiveThreads == {t \in Threads : Live(t)}

Output == INSTANCE Speaker WITH
  playing <- {<<t, workers[slot[t]].ba_pcm>> : t \in LiveThreads},
  streams <- halStreams

\* With array, pointers, cancellations and joins forgotten, the workers use the HAL as
\* one player at a time does: each begins when the last has ended and its stream is
\* closed, plays the PCM it was started for, and ends with the stream closed, however
\* many places open and close it.
ImplementsSpeaker == Output!Spec

\* supervise_pcm_worker waits only in pthread_join, and there only for a thread that
\* is alive and was not joined before; a worker always has something it can do.
ThreadsGoOn ==
  crashed = "no" =>
    /\ \A t \in Threads : Live(t) => ENABLED <<crashed = "no" /\ WorkerThreads>>_vars
    /\ sup # NoSup => \/ ENABLED <<crashed = "no" /\ (Supervisor \/ MainThread)>>_vars
                      \/ sup.joining /\ Live(workers[sup.i].thread)

\* pthread_join, called with workers_lock held, always returns: a worker on its
\* way through open, write or exit gets to a cancellation point or to its end.
JoinsReturn == [](crashed = "no") => (sup # NoSup ~> sup = NoSup)

PlayedByWorker(p) == \E w \in InUseWorkers : w.ba_pcm.pcm_path = p

\* Signals lie in libdbus's queue, where poll() does not see them.
Stranded == phase = "loop" /\ at = "poll" /\ unread = 0 /\ bus # <<>>

\* While bt-halplay runs, a PCM whose removal is signalled loses its worker before
\* long, whatever was listed, queued or being started when it went away, unless the
\* last signals were read by get_pcms or a worker's pcm_open and nothing comes after
\* them.
RemovalTakesEffect ==
  [](crashed = "no" /\ ~ silent /\ main_loop_on /\ phase # "exit") /\ ~ <>[]Stranded
    => \A p \in Paths :
         exported[p] = Gone ~> exported[p] # Gone \/ ~ PlayedByWorker(p) \/ p \in missed

\* Fails: after an open failure the worker waits and retries, it does not write:
\* "After PCM open failure wait one second before retry."
OpenFailureRetries == \A t \in Threads : pc[t] = "write" => stream

\* Fails: "If the codec has changed after the device connected ... the worker thread
\* needs to be restarted": no worker plays with parameters that are outdated.
CodecChangeRestarts ==
  Quiescent => \A w \in InUseWorkers :
    exported[w.ba_pcm.pcm_path] \in {Gone, w.ba_pcm.format}
=============================================================================
