--------------------------- MODULE HalPlay_proofs ---------------------------
(***************************************************************************)
(* Theorems about HalPlay: for any PCMs, formats and threads and any       *)
(* number of changes, there is one worker at most, its pointer stays       *)
(* valid, the HAL stream is not leaked, and the worker in the array is the *)
(* one BlueALSA's exports call for once the signals are handled.           *)
(***************************************************************************)
EXTENDS HalPlay, FiniteSetTheorems, SequenceTheorems, TLAPS

-----------------------------------------------------------------------------
(* The inductive invariant *)

\* The array has one element in use, if any: the one at index 0.
HasWorker == workers_count = 1 /\ 0 \in DOMAIN workers

\* Every thread that exists belongs to that element; supervise_pcm_worker scans at
\* most to index 1, and comes to create a worker only when none is left.
ArrayInv ==
  /\ workers_count \in {0, 1}
  /\ workers_count = 1 => HasWorker \/ oom
  /\ HasWorker => pc[workers[0].thread] # "none"
  /\ \A t \in Threads : pc[t] # "none" => HasWorker /\ workers[0].thread = t /\ slot[t] = 0
  /\ sup # NoSup => /\ sup.i \in {0, 1}
                    /\ sup.joining => sup.i = 0 /\ HasWorker
                    /\ sup.op = "start" /\ sup.i = 1 => workers_count = 0
  /\ phase = "matched" => workers_count = 0 /\ sup = NoSup
  /\ cancelled # {} => sup # NoSup /\ sup.joining /\ cancelled = {workers[0].thread}

\* The stream, its flag and the HAL agree, and a live worker answers for them.
StreamInv ==
  /\ open_flag = stream
  /\ halStreams = IF stream THEN 1 ELSE 0
  /\ stream => \E t \in Threads : Live(t)
  /\ \A t \in Threads : pc[t] = "open_output_stream" => ~ stream
  /\ \A t \in Threads : pc[t] = "write" => stream \/ openFailed
  /\ phase = "loop" => device = "loaded"

\* What is to be started or has been started is in ba_pcms.
KnownInv ==
  /\ \A i \in DOMAIN todo : Known(todo[i].pcm_path)
  /\ sup.op = "start" => Known(sup.pcm.pcm_path)
  /\ HasWorker => Known(workers[0].ba_pcm.pcm_path)
  /\ phase # "supervise" => todo = <<>>

\* Every match is added before the list is taken, and before a PCM is supervised.
MatchInv == phase # "matched" => matched = Kinds

Queued(k, p, i) == bus[i].kind = k /\ bus[i].pcm.pcm_path = p

Plays(p)    == HasWorker /\ workers[0].ba_pcm.pcm_path = p
Stopping(p) == sup.op = "stop" /\ sup.pcm.pcm_path = p /\ sup.i = 0

RemovedLast(p) ==
  \E i \in DOMAIN bus :
    Queued("removed", p, i) /\ \A j \in DOMAIN bus : j > i => ~ Queued("added", p, j)

Clean(p) ==
  /\ \A i \in DOMAIN bus : ~ Queued("added", p, i)
  /\ \A i \in DOMAIN todo : todo[i].pcm_path # p
  /\ Plays(p) => Stopping(p)
  /\ sup.op = "start" => sup.pcm.pcm_path # p

\* The removal of a PCM that is gone is still queued, or was the last word on it, or
\* was missed.
GoneInv ==
  ~ silent =>
    \A p \in Paths : exported[p] = Gone => RemovedLast(p) \/ Clean(p) \/ p \in missed

\* Worker t has lost the connection of p it was started for.
Ended(t, p) ==
  \/ exported[p] = Gone
  \/ pc[t] \in {"exit", "dead"}
  \/ pc[t] # "bluealsa_dbus_pcm_open" /\ fifo[t] # gen[p]

Doomed(p) ==
  \/ \E i \in DOMAIN bus : Queued("removed", p, i)
  \/ Stopping(p)
  \/ sup # NoSup /\ sup.joining

\* A worker whose connection has ended is about to be removed.
EndInv ==
  main_loop_on /\ ~ silent /\ ~ failed
    => \A p \in Paths :
         Plays(p) /\ Ended(workers[0].thread, p) => Doomed(p) \/ p \in missed

IInv ==
  /\ TypeOK /\ ArrayInv /\ StreamInv /\ CrashesAreKnown
  /\ KnownInv /\ MatchInv /\ GoneInv /\ EndInv

-----------------------------------------------------------------------------
(* What the steps leave alone *)

\* BlueALSA does not touch the program.
LEMMA EnvFrame ==
  ASSUME BlueAlsa
  PROVE  /\ UNCHANGED <<phase, matched, at, main_loop_on, ba_pcms, todo, sup, workers,
                        workers_count, pc, slot, fifo, cancelled, device, stream, open_flag,
                        halStreams, crashed, oom, openFailed, failed>>
         /\ silent => silent'
         /\ missed \subseteq missed'
<1> USE DEF ProgramUnchanged, main, array, threads, hal, hist
<1>1. ASSUME NEW p \in Paths,
             Withdraw(p) \/ \E f \in Formats : Export(p, f) \/ ChangeCodec(p, f)
      PROVE  /\ UNCHANGED <<at, main, array, threads, hal, crashed, oom, openFailed, failed,
                            silent>>
             /\ missed \subseteq missed'
  BY <1>1 DEF Withdraw, Export, ChangeCodec
<1>2. CASE ServiceDies
  BY <1>2 DEF ServiceDies
<1> QED
  BY <1>1, <1>2 DEF BlueAlsa

Supervised(s, pcm) ==
  \/ s = [op |-> "start", pcm |-> pcm, i |-> 0, joining |-> FALSE]
  \/ s = [op |-> "stop", pcm |-> pcm, i |-> 0, joining |-> FALSE]

LEMMA HeadOfBus ==
  ASSUME TypeOK, bus # <<>>
  PROVE  Head(bus) \in Signals /\ Head(bus).pcm \in Pcms /\ Tail(bus) \in Seq(Signals)
<1>1. bus \in Seq(Signals)
  BY DEF TypeOK
<1>2. Head(bus) \in Signals /\ Tail(bus) \in Seq(Signals)
  BY <1>1, HeadTailProperties
<1> QED
  BY <1>2 DEF Signals

\* What taking a signal from the queue leaves alone.
LEMMA DispatchFrame ==
  ASSUME TypeOK, NEW k, Dispatching(k)
  PROVE  /\ UNCHANGED <<exported, gen, events, workers, workers_count, pc, slot, fifo,
                        cancelled, device, stream, open_flag, halStreams, crashed, oom,
                        openFailed, failed, silent, phase, matched, main_loop_on, todo,
                        unread, at>>
         /\ phase = "loop" /\ at = "dispatch" /\ sup = NoSup
         /\ Len(bus) > unread /\ bus # <<>> /\ bus' = Tail(bus) /\ Head(bus).kind = k
         /\ Head(bus).pcm \in Pcms
         /\ missed' \subseteq missed
         /\ \A p \in missed : p \in missed' \/ (/\ k = "removed" /\ p = Head(bus).pcm.pcm_path
                                              /\ ~ AddedFrom(2, p))
<1>1. UNCHANGED <<sock, env, array, threads, hal>> /\ LoopUnchanged
  BY DEF Dispatching, LoopUnchanged
<1>2. Len(bus) > unread /\ bus # <<>>
  BY DEF Dispatching, TypeOK
<1>3. missed' = {p \in missed :
                   k # "removed" \/ p # Head(bus).pcm.pcm_path \/ AddedFrom(2, p)}
  BY DEF Dispatching
<1>4. /\ missed' \subseteq missed
      /\ \A p \in missed : p \in missed' \/ (/\ k = "removed" /\ p = Head(bus).pcm.pcm_path
                                           /\ ~ AddedFrom(2, p))
  BY <1>3, Zenon
<1>5. /\ phase = "loop" /\ at = "dispatch" /\ sup = NoSup
      /\ bus' = Tail(bus) /\ Head(bus).kind = k
  BY DEF Dispatching, Looping
<1> QED
  BY <1>1, <1>2, <1>4, <1>5, HeadOfBus
  DEF LoopUnchanged, sock, env, array, threads, hal

\* A step between two calls of libdbus, or a blocking call.
LEMMA LoopFrame ==
  ASSUME EnterPoll \/ PollReturns \/ DispatchEnds
  PROVE  /\ UNCHANGED <<exported, gen, events, bus, workers, workers_count, pc, slot, fifo,
                        cancelled, device, stream, open_flag, halStreams, crashed, oom,
                        openFailed, failed, silent, missed, phase, matched, main_loop_on,
                        ba_pcms, todo, sup>>
         /\ phase = "loop" /\ sup = NoSup
  BY DEF EnterPoll, PollReturns, DispatchEnds, Looping, LoopUnchanged, env, array, threads, hal

LEMMA MatchFrame ==
  ASSUME AddMatch \/ AddFilterFails
  PROVE  /\ UNCHANGED <<exported, gen, events, bus, workers, workers_count, pc, slot, fifo,
                        cancelled, device, stream, open_flag, halStreams, crashed, oom,
                        openFailed, failed, silent, missed, main_loop_on, ba_pcms, todo, sup>>
         /\ phase = "matched"
         /\ phase' = "matched" \/ (phase' = "exit" /\ matched = Kinds /\ matched' = matched)
         /\ TypeOK => matched' \in SUBSET Kinds
<1>1. CASE AddMatch
  <2>1. TypeOK => matched' \in SUBSET Kinds
    BY <1>1 DEF AddMatch, Match, TypeOK, Kinds
  <2> QED
    BY <1>1, <2>1 DEF AddMatch, env, array, threads, hal, hist
<1>2. CASE AddFilterFails
  BY <1>2 DEF AddFilterFails, env, array, threads, hal, hist, TypeOK
<1> QED
  BY <1>1, <1>2

\* The main thread outside supervise_pcm_worker touches neither array nor threads.
LEMMA MainFrame ==
  ASSUME TypeOK, Main
  PROVE  /\ UNCHANGED <<exported, gen, events, workers, workers_count, pc, slot, fifo,
                        cancelled, stream, open_flag, halStreams, crashed, oom, openFailed,
                        failed, silent>>
         /\ phase' \in {"matched", "supervise", "loop", "exit"}
         /\ phase' = "matched" => phase = "matched"
         /\ main_loop_on' \in BOOLEAN /\ (main_loop_on' => main_loop_on)
         /\ missed' \subseteq missed
         /\ \/ sup' = sup
            \/ sup = NoSup /\ phase # "matched" /\ \E pcm \in Pcms : Supervised(sup', pcm)
<1> USE DEF env, array, threads, hal, hist
<1>d. ASSUME NEW k, Dispatching(k)
      PROVE  /\ UNCHANGED <<exported, gen, events, workers, workers_count, pc, slot, fifo,
                            cancelled, device, stream, open_flag, halStreams, crashed, oom,
                            openFailed, failed, silent, phase, main_loop_on>>
             /\ phase = "loop" /\ sup = NoSup /\ Head(bus).pcm \in Pcms
             /\ missed' \subseteq missed
  BY <1>d, DispatchFrame
<1>l. main_loop_on \in BOOLEAN
  BY DEF TypeOK
<1>1. CASE ListPcms
  BY <1>1, <1>l DEF ListPcms
<1>2. CASE SuperviseNext
  <2>1. todo \in Seq(Pcms) /\ todo # <<>>
    BY <1>2 DEF SuperviseNext, TypeOK
  <2>2. Head(todo) \in Pcms
    BY <2>1, HeadTailProperties
  <2> QED
    BY <1>2, <1>l, <2>2 DEF SuperviseNext, Supervise, Supervised
<1>3. CASE LoadDevice
  BY <1>3, <1>l DEF LoadDevice
<1>4. CASE HandleAdded
  BY <1>4, <1>l, <1>d DEF HandleAdded, Supervise, Supervised
<1>5. CASE AddedFails
  BY <1>5, <1>l, <1>d DEF AddedFails
<1>6. CASE HandleRemoved
  BY <1>6, <1>l, <1>d DEF HandleRemoved, Supervised
<1>7. CASE HandleProps
  BY <1>7, <1>l, <1>d DEF HandleProps
<1>8. CASE Terminate
  BY <1>8, <1>l DEF Terminate, TypeOK
<1>9. CASE UnloadDevice
  BY <1>9, <1>l DEF UnloadDevice
<1>10. CASE EnterPoll \/ PollReturns \/ DispatchEnds
  BY <1>10, <1>l, LoopFrame
<1>11. CASE AddMatch \/ AddFilterFails
  BY <1>11, <1>l, MatchFrame
<1> QED
  BY <1>1, <1>2, <1>3, <1>4, <1>5, <1>6, <1>7, <1>8, <1>9, <1>10, <1>11 DEF Main, MainThread

SupervisorLeaves ==
  /\ UNCHANGED <<exported, gen, events, bus, unread, at, phase, matched, main_loop_on,
                 ba_pcms, todo, fifo, device, stream, open_flag, halStreams, openFailed,
                 failed, silent, missed>>
  /\ sup # NoSup
  /\ oom => oom'

LEMMA SupervisorFrame == ASSUME Supervisor PROVE SupervisorLeaves
<1> USE DEF SupervisorLeaves, env, sock, main, caller, array, threads, hal, hist, Crash,
            StopWorker, Scanning, ScanDone
<1>1. CASE ScanOutOfBounds
  BY <1>1 DEF ScanOutOfBounds
<1>2. CASE ScanForStart
  BY <1>2 DEF ScanForStart, NoSup
<1>3. CASE WorkerExists
  BY <1>3 DEF WorkerExists, NoSup
<1>4. CASE ScanForStop
  BY <1>4 DEF ScanForStop, NoSup
<1>5. CASE JoinWorker
  BY <1>5 DEF JoinWorker
<1>6. CASE FinishStop
  BY <1>6 DEF FinishStop
<1>7. CASE CreateFails
  BY <1>7 DEF CreateFails
<1>8. CASE GrowFails
  BY <1>8 DEF GrowFails
<1>9. ASSUME NEW t \in Threads, CreateWorker(t) PROVE SupervisorLeaves
  BY <1>9 DEF CreateWorker
<1> QED
  BY <1>1, <1>2, <1>3, <1>4, <1>5, <1>6, <1>7, <1>8, <1>9 DEF Supervisor

\* What the steps of thread t leave alone.
WorkerLeaves(t) ==
  /\ UNCHANGED <<exported, gen, events, bus, phase, matched, main_loop_on, ba_pcms, todo,
                 sup, workers_count, slot, cancelled, oom, silent, missed>>
  /\ pc[t] \notin {"none", "dead"} /\ pc'[t] # "none"
  /\ pc' \in [Threads -> Labels]
  /\ \A u \in Threads \ {t} : pc'[u] = pc[u] /\ fifo'[u] = fifo[u]
  /\ fifo' \in [Threads -> Nat]
  /\ DOMAIN workers' = DOMAIN workers
  /\ \A i \in DOMAIN workers : workers'[i].ba_pcm = workers[i].ba_pcm
                            /\ workers'[i].thread = workers[i].thread

LEMMA ArrayType ==
  ASSUME TypeOK
  PROVE  \E n \in 0 .. Chunk : DOMAIN workers = 0 .. n - 1
                            /\ \A i \in DOMAIN workers : workers[i] \in Workers
  BY DEF TypeOK

LEMMA SetActiveType ==
  ASSUME TypeOK, NEW t \in Threads, NEW b \in BOOLEAN, SetActive(t, b)
  PROVE  /\ \E n \in 0 .. Chunk : workers' \in [0 .. n - 1 -> Workers]
         /\ DOMAIN workers' = DOMAIN workers
         /\ \A i \in DOMAIN workers : workers'[i].ba_pcm = workers[i].ba_pcm
                                   /\ workers'[i].thread = workers[i].thread
<1>1. PICK n \in 0 .. Chunk : workers \in [0 .. n - 1 -> Workers]
  BY DEF TypeOK
<1>2. \A i \in 0 .. n - 1 : /\ [workers[i] EXCEPT !.active = b] \in Workers
                            /\ [workers[i] EXCEPT !.active = b].ba_pcm = workers[i].ba_pcm
                            /\ [workers[i] EXCEPT !.active = b].thread = workers[i].thread
  BY <1>1 DEF Workers
<1>3. workers' = [i \in 0 .. n - 1 |->
                    IF i = slot[t] THEN [workers[i] EXCEPT !.active = b] ELSE workers[i]]
  BY <1>1 DEF SetActive
<1> QED
  BY <1>1, <1>2, <1>3

\* A thread that exists plays the PCM of the one element in use.
LEMMA WorkerSlot ==
  ASSUME TypeOK, ArrayInv, NEW t \in Threads, pc[t] # "none"
  PROVE  /\ workers[0] \in Workers /\ workers[0].thread = t /\ slot[t] = 0 /\ HasWorker
         /\ PathOf(t) = workers[0].ba_pcm.pcm_path /\ PathOf(t) \in Paths
<1>1. HasWorker /\ workers[0].thread = t /\ slot[t] = 0
  BY DEF ArrayInv
<1>2. workers[0] \in Workers
  BY <1>1, ArrayType DEF HasWorker
<1> QED
  BY <1>1, <1>2 DEF PathOf, Workers, Pcms

LEMMA WorkerFrame ==
  ASSUME TypeOK, ArrayInv, NEW t \in Threads, pcm_worker_routine(t)
  PROVE  WorkerLeaves(t)
<1> USE DEF WorkerLeaves, OpenUnchanged, WorkerUnchanged, env, main, array, threads, hal,
            hist, Polls
<1>t. pc \in [Threads -> Labels] /\ fifo \in [Threads -> Nat] /\ gen \in [Paths -> Nat]
  BY DEF TypeOK
<1>g. ASSUME NEW l \in Labels, Goto(t, l)
      PROVE  /\ pc' \in [Threads -> Labels] /\ pc'[t] = l
             /\ \A u \in Threads \ {t} : pc'[u] = pc[u]
  BY <1>t, <1>g DEF Goto
<1>l. /\ "none" \in Labels /\ "bluealsa_dbus_pcm_open" \in Labels /\ "poll" \in Labels
      /\ "open_output_stream" \in Labels /\ "write" \in Labels /\ "exit" \in Labels
      /\ "dead" \in Labels
  BY DEF Labels
<1>1. CASE PcmOpen(t)
  <2>1. gen[PathOf(t)] \in Nat
    BY <1>1, <1>t, WorkerSlot DEF PcmOpen
  <2>2. fifo' \in [Threads -> Nat] /\ \A u \in Threads \ {t} : fifo'[u] = fifo[u]
    BY <1>1, <1>t, <2>1 DEF PcmOpen
  <2> QED
    BY <1>1, <1>g, <1>l, <2>2 DEF PcmOpen
<1>2. CASE PcmOpenFails(t)
  BY <1>2, <1>t, <1>g, <1>l DEF PcmOpenFails
<1>3. CASE Cancelled(t)
  BY <1>3, <1>t, <1>g, <1>l DEF Cancelled
<1>4. CASE PollTimeout(t)
  BY <1>4, <1>t, SetActiveType DEF PollTimeout
<1>5. CASE PollEnds(t)
  BY <1>5, <1>t, <1>g, <1>l DEF PollEnds
<1>6. CASE PollFails(t)
  BY <1>6, <1>t, <1>g, <1>l DEF PollFails
<1>7. CASE ReadAudio(t)
  BY <1>7, <1>t, <1>g, <1>l DEF ReadAudio
<1>8. CASE OpenStream(t)
  BY <1>8, <1>t, <1>g, <1>l DEF OpenStream
<1>9. CASE OpenStreamFails(t)
  BY <1>9, <1>t, <1>g, <1>l DEF OpenStreamFails
<1>10. CASE WriteAudio(t)
  BY <1>10, <1>t, <1>g, <1>l, SetActiveType DEF WriteAudio
<1>11. CASE WriteFails(t)
  BY <1>11, <1>t, <1>g, <1>l, SetActiveType DEF WriteFails
<1>12. CASE ExitWorker(t)
  BY <1>12, <1>t, <1>g, <1>l DEF ExitWorker
<1>13. CASE OpenWithoutDevice(t) \/ WriteWithoutStream(t) \/ WriteWithoutDevice(t)
            \/ CloseWithoutDevice(t)
  BY <1>13, <1>t DEF OpenWithoutDevice, WriteWithoutStream, WriteWithoutDevice,
                     CloseWithoutDevice, Crash
<1> QED
  BY <1>1, <1>2, <1>3, <1>4, <1>5, <1>6, <1>7, <1>8, <1>9, <1>10, <1>11, <1>12, <1>13
  DEF pcm_worker_routine

-----------------------------------------------------------------------------
(* Type correctness *)

LEMMA SignalType ==
  ASSUME NEW k \in Kinds, NEW q \in Paths, NEW f \in Formats
  PROVE  [kind |-> k, pcm |-> [pcm_path |-> q, format |-> f]] \in Signals
  BY DEF Signals, Pcms, Kinds

\* What is sent joins the queue, in the socket, or is lost for want of a match.
LEMMA EmitStep ==
  ASSUME TypeOK, NEW k \in Kinds, NEW p \in Paths, NEW f \in Formats, Emit(k, p, f)
  PROVE  /\ bus' \in Seq(Signals) /\ unread' \in 0 .. Len(bus')
         /\ IF k \in matched
            THEN bus' = Append(bus, [kind |-> k, pcm |-> [pcm_path |-> p, format |-> f]])
            ELSE bus' = bus
<1>0. bus \in Seq(Signals) /\ unread \in 0 .. Len(bus) /\ Len(bus) \in Nat
  BY DEF TypeOK
<1>1. CASE k \in matched
  <2> DEFINE sig == [kind |-> k, pcm |-> [pcm_path |-> p, format |-> f]]
  <2>1. sig \in Signals
    BY SignalType
  <2>2. bus' = Append(bus, sig) /\ unread' = unread + 1
    BY <1>1 DEF Emit, Subscribed
  <2> HIDE DEF sig
  <2>3. bus' \in Seq(Signals) /\ Len(bus') = Len(bus) + 1
    BY <1>0, <2>1, <2>2
  <2>4. unread' \in 0 .. Len(bus')
    BY <1>0, <2>2, <2>3
  <2> QED
    BY <1>1, <2>2, <2>3, <2>4 DEF sig
<1>2. CASE k \notin matched
  BY <1>0, <1>2 DEF Emit, Subscribed
<1> QED
  BY <1>1, <1>2

LEMMA EnvType ==
  ASSUME TypeOK, BlueAlsa
  PROVE  TypeOK'
<1>0. /\ exported \in [Paths -> Formats \cup {Gone}] /\ gen \in [Paths -> Nat]
      /\ bus \in Seq(Signals) /\ unread \in 0 .. Len(bus)
      /\ silent \in BOOLEAN /\ missed \in SUBSET Paths
  BY DEF TypeOK
<1>k. "added" \in Kinds /\ "removed" \in Kinds /\ "props" \in Kinds
  BY DEF Kinds
<1>1. ASSUME exported' \in [Paths -> Formats \cup {Gone}], gen' \in [Paths -> Nat],
             bus' \in Seq(Signals), unread' \in 0 .. Len(bus'), Change,
             silent' \in BOOLEAN, missed' \in SUBSET Paths
      PROVE  TypeOK'
  <2>1. events' \in 0 .. MaxEvents
    BY <1>1, EventsAssumption DEF Change, TypeOK
  <2> QED
    BY <1>1, <2>1, EnvFrame DEF TypeOK
<1>3. ASSUME NEW p \in Paths, NEW f \in Formats, Export(p, f) PROVE TypeOK'
  <2>1. bus' \in Seq(Signals) /\ unread' \in 0 .. Len(bus')
    BY <1>3, <1>k, EmitStep DEF Export
  <2>2. exported' \in [Paths -> Formats \cup {Gone}] /\ gen' \in [Paths -> Nat]
    BY <1>0, <1>3 DEF Export
  <2> QED
    BY <1>0, <1>1, <1>3, <2>1, <2>2 DEF Export, hist
<1>4. ASSUME NEW p \in Paths, Withdraw(p) PROVE TypeOK'
  <2>1. exported[p] \in Formats
    BY <1>0, <1>4 DEF Withdraw
  <2>2. bus' \in Seq(Signals) /\ unread' \in 0 .. Len(bus')
    BY <1>4, <1>k, <2>1, EmitStep DEF Withdraw
  <2>3. exported' \in [Paths -> Formats \cup {Gone}] /\ missed' \in SUBSET Paths
    BY <1>0, <1>4 DEF Withdraw
  <2> QED
    BY <1>0, <1>1, <1>4, <2>2, <2>3 DEF Withdraw
<1>5. ASSUME NEW p \in Paths, NEW f \in Formats, ChangeCodec(p, f) PROVE TypeOK'
  <2>1. bus' \in Seq(Signals) /\ unread' \in 0 .. Len(bus')
    BY <1>5, <1>k, EmitStep DEF ChangeCodec
  <2>2. exported' \in [Paths -> Formats \cup {Gone}]
    BY <1>0, <1>5 DEF ChangeCodec
  <2> QED
    BY <1>0, <1>1, <1>5, <2>1, <2>2 DEF ChangeCodec, hist
<1>6. CASE ServiceDies
  BY <1>0, <1>1, <1>6 DEF ServiceDies
<1> QED
  BY <1>3, <1>4, <1>5, <1>6 DEF BlueAlsa

\* What is listed is exported, and is a sequence whatever its order.
LEMMA ListType ==
  ASSUME TypeOK, NEW s \in SetToSeqs({p \in Paths : exported[p] # Gone}) \cup {<<>>}
  PROVE  /\ [i \in DOMAIN s |-> [pcm_path |-> s[i], format |-> exported[s[i]]]] \in Seq(Pcms)
         /\ \A i \in DOMAIN s : s[i] \in Paths /\ exported[s[i]] # Gone
<1> DEFINE E == {p \in Paths : exported[p] # Gone}
           n == Cardinality(E)
           l == [i \in DOMAIN s |-> [pcm_path |-> s[i], format |-> exported[s[i]]]]
<1>1. \A p \in E : exported[p] \in Formats /\ p \in Paths
  BY DEF TypeOK
<1>2. n \in Nat
  BY PathsAssumption, FS_Subset, FS_CardinalityType
<1>3. CASE s \in SetToSeqs(E)
  <2>1. s \in [1 .. n -> E]
    BY <1>3 DEF SetToSeqs
  <2>2. \A i \in DOMAIN s : s[i] \in Paths /\ exported[s[i]] # Gone
    BY <2>1
  <2>3. l \in [1 .. n -> Pcms]
    BY <1>1, <2>1 DEF Pcms
  <2> HIDE DEF n, l
  <2>4. l \in Seq(Pcms)
    BY <1>2, <2>3, SeqDef
  <2> QED
    BY <2>2, <2>4 DEF l
<1>4. CASE s = <<>>
  <2>1. l = <<>>
    BY <1>4
  <2> QED
    BY <1>4, <2>1
<1> QED
  BY <1>3, <1>4

LEMMA SupervisedType ==
  ASSUME NEW s, NEW pcm \in Pcms, Supervised(s, pcm)
  PROVE  s \in [op : {"start", "stop"}, pcm : Pcms, i : Nat, joining : BOOLEAN]
<1>1. ASSUME NEW o \in {"start", "stop"}
      PROVE  [op |-> o, pcm |-> pcm, i |-> 0, joining |-> FALSE]
               \in [op : {"start", "stop"}, pcm : Pcms, i : Nat, joining : BOOLEAN]
  OBVIOUS
<1> QED
  BY <1>1 DEF Supervised

LEMMA PropsType ==
  ASSUME TypeOK, HandleProps
  PROVE  /\ ba_pcms' \in Seq(Pcms) /\ DOMAIN ba_pcms' = DOMAIN ba_pcms
         /\ \A i \in DOMAIN ba_pcms : ba_pcms'[i].pcm_path = ba_pcms[i].pcm_path
<1> DEFINE First(i) == /\ ba_pcms[i].pcm_path = Head(bus).pcm.pcm_path
                       /\ \A j \in 1 .. i - 1 : ba_pcms[j].pcm_path # ba_pcms[i].pcm_path
<1>1. ba_pcms' = [i \in DOMAIN ba_pcms |-> IF First(i) THEN Head(bus).pcm ELSE ba_pcms[i]]
  BY DEF HandleProps
<1>2. Head(bus).pcm \in Pcms
  BY DispatchFrame DEF HandleProps
<1>3. ba_pcms \in Seq(Pcms)
  BY DEF TypeOK
<1>4. \A i \in DOMAIN ba_pcms : First(i) => ba_pcms[i].pcm_path = Head(bus).pcm.pcm_path
  OBVIOUS
<1> HIDE DEF First
<1>5. Len(ba_pcms) \in Nat /\ DOMAIN ba_pcms = 1 .. Len(ba_pcms)
      /\ \A i \in DOMAIN ba_pcms : ba_pcms[i] \in Pcms
  BY <1>3
<1>6. ba_pcms' \in [1 .. Len(ba_pcms) -> Pcms]
  BY <1>1, <1>2, <1>5
<1>7. ba_pcms' \in Seq(Pcms)
  BY <1>5, <1>6, SeqDef
<1> QED
  BY <1>1, <1>4, <1>7

\* A blocking call empties the socket.
LEMMA ReadsAheadType ==
  ASSUME TypeOK, ReadsAhead
  PROVE  unread' \in 0 .. Len(bus) /\ at' \in {"top", "poll", "dispatch"}
  BY DEF TypeOK, ReadsAhead

LEMMA SockType ==
  ASSUME TypeOK, UNCHANGED sock
  PROVE  unread' \in 0 .. Len(bus) /\ at' \in {"top", "poll", "dispatch"}
  BY DEF TypeOK, sock

LEMMA MainType ==
  ASSUME TypeOK, Main
  PROVE  TypeOK'
<1>1. ASSUME bus' \in Seq(Signals), unread' \in 0 .. Len(bus'), at' \in {"top", "poll", "dispatch"},
             matched' \in SUBSET Kinds, ba_pcms' \in Seq(Pcms), todo' \in Seq(Pcms),
             device' \in {"null", "loaded", "unloaded"}
      PROVE  TypeOK'
  <2>1. sup' \in [op : {"start", "stop"}, pcm : Pcms, i : Nat, joining : BOOLEAN] \cup {NoSup}
    BY MainFrame, SupervisedType DEF TypeOK
  <2>2. missed' \in SUBSET Paths
    BY MainFrame DEF TypeOK
  <2> QED
    BY <1>1, <2>1, <2>2, MainFrame DEF TypeOK
<1>0. /\ bus \in Seq(Signals) /\ ba_pcms \in Seq(Pcms) /\ todo \in Seq(Pcms)
      /\ device \in {"null", "loaded", "unloaded"} /\ matched \in SUBSET Kinds
      /\ unread \in 0 .. Len(bus) /\ Len(bus) \in Nat
  BY DEF TypeOK
<1>d. ASSUME NEW k, Dispatching(k)
      PROVE  /\ bus' \in Seq(Signals) /\ unread' \in 0 .. Len(bus')
             /\ at' \in {"top", "poll", "dispatch"} /\ matched' \in SUBSET Kinds
             /\ todo' = todo /\ device' = device /\ Head(bus).pcm \in Pcms
  <2>1. bus' = Tail(bus) /\ bus # <<>> /\ Len(bus) > unread /\ unread' = unread
    BY <1>d, DispatchFrame
  <2>2. bus' \in Seq(Signals) /\ Len(bus') = Len(bus) - 1
    BY <1>0, <2>1
  <2>3. unread' \in 0 .. Len(bus')
    BY <1>0, <2>1, <2>2
  <2> QED
    BY <1>0, <1>d, <2>2, <2>3, DispatchFrame
<1>2. CASE ListPcms
  <2>1. unread' \in 0 .. Len(bus') /\ at' \in {"top", "poll", "dispatch"}
    BY <1>2, ReadsAheadType DEF ListPcms
  <2> QED
    BY <1>0, <1>1, <1>2, <2>1, ListType DEF ListPcms, hal
<1>3. CASE SuperviseNext
  <2>1. Tail(todo) \in Seq(Pcms)
    BY <1>0, <1>3, HeadTailProperties DEF SuperviseNext
  <2> QED
    BY <1>0, <1>1, <1>3, <2>1, SockType DEF SuperviseNext, hal
<1>4. CASE LoadDevice
  BY <1>0, <1>1, <1>4, SockType DEF LoadDevice
<1>5. CASE HandleAdded
  <2>1. Append(ba_pcms, Head(bus).pcm) \in Seq(Pcms)
    BY <1>0, <1>5, <1>d DEF HandleAdded
  <2> QED
    BY <1>0, <1>1, <1>5, <1>d, <2>1 DEF HandleAdded
<1>6. CASE AddedFails
  BY <1>0, <1>1, <1>6, <1>d DEF AddedFails
<1>7. CASE HandleRemoved
  BY <1>0, <1>1, <1>7, <1>d DEF HandleRemoved
<1>8. CASE HandleProps
  BY <1>0, <1>1, <1>8, <1>d, PropsType DEF HandleProps
<1>9. CASE Terminate
  <2>1. at' \in {"top", "poll", "dispatch"}
    BY <1>9 DEF Terminate, TypeOK
  <2> QED
    BY <1>0, <1>1, <1>9, <2>1 DEF Terminate, hal
<1>10. CASE UnloadDevice
  BY <1>0, <1>1, <1>10, SockType DEF UnloadDevice
<1>11. CASE EnterPoll \/ PollReturns \/ DispatchEnds
  <2>1. unread' \in 0 .. Len(bus) /\ at' \in {"top", "poll", "dispatch"}
    BY <1>0, <1>11 DEF EnterPoll, PollReturns, DispatchEnds
  <2> QED
    BY <1>0, <1>1, <1>11, <2>1, LoopFrame
<1>12. CASE AddMatch
  <2>1. unread' \in 0 .. Len(bus') /\ at' \in {"top", "poll", "dispatch"}
    BY <1>12, ReadsAheadType DEF AddMatch
  <2> QED
    BY <1>0, <1>1, <1>12, <2>1, MatchFrame
<1>13. CASE AddFilterFails
  <2>1. unread' \in 0 .. Len(bus') /\ at' \in {"top", "poll", "dispatch"}
    BY <1>13, SockType DEF AddFilterFails
  <2> QED
    BY <1>0, <1>1, <1>13, <2>1, MatchFrame
<1> QED
  BY <1>2, <1>3, <1>4, <1>5, <1>6, <1>7, <1>8, <1>9, <1>10, <1>11, <1>12, <1>13
  DEF Main, MainThread

Sups == [op : {"start", "stop"}, pcm : Pcms, i : Nat, joining : BOOLEAN]

LEMMA SupType == ASSUME TypeOK, sup # NoSup PROVE sup \in Sups
  BY DEF TypeOK, Sups

\* The ways the call in progress moves on.
LEMMA SupMoves ==
  ASSUME NEW s \in Sups
  PROVE  /\ [s EXCEPT !.joining = TRUE] \in Sups
         /\ [s EXCEPT !.i = @ + 1] \in Sups
         /\ [s EXCEPT !.joining = FALSE, !.i = @ + 1] \in Sups
<1>1. [s EXCEPT !.joining = TRUE] \in Sups
  BY DEF Sups
<1>2. s.i + 1 \in Nat
  BY DEF Sups
<1>3. ASSUME NEW n \in Nat, NEW u \in Sups PROVE [u EXCEPT !.i = n] \in Sups
  BY <1>3 DEF Sups
<1>4. [s EXCEPT !.joining = FALSE] \in Sups /\ [s EXCEPT !.joining = FALSE].i = s.i
  BY DEF Sups
<1>5. [[s EXCEPT !.joining = FALSE] EXCEPT !.i = s.i + 1] \in Sups
  BY <1>2, <1>3, <1>4
<1> QED
  BY <1>1, <1>2, <1>3, <1>5, <1>4

\* Creating a worker: there was none, and now there is one at index 0.
Created(t) ==
  /\ workers_count = 0 /\ workers_count' = 1
  /\ \A u \in Threads : pc[u] = "none"
  /\ sup.pcm \in Pcms /\ sup.op = "start" /\ sup' = NoSup /\ cancelled' = cancelled
  /\ \E n \in 0 .. Chunk : workers' \in [0 .. n - 1 -> Workers]
  /\ HasWorker'
  /\ workers'[0] = [ba_pcm |-> sup.pcm, thread |-> t, active |-> FALSE]
  /\ pc' = [pc EXCEPT ![t] = "bluealsa_dbus_pcm_open"]
  /\ slot' = [slot EXCEPT ![t] = 0]
  /\ oom' = oom /\ crashed' = crashed

LEMMA CreateStep ==
  ASSUME TypeOK, ArrayInv, NEW t \in Threads, CreateWorker(t)
  PROVE  Created(t)
<1> DEFINE w == [ba_pcm |-> sup.pcm, thread |-> t, active |-> FALSE]
<1>1. sup # NoSup /\ ~ sup.joining /\ ~ InUse /\ sup.op = "start"
  BY DEF CreateWorker, ScanDone
<1>2. workers_count = 0
  BY <1>1 DEF ArrayInv, InUse
<1>3. \A u \in Threads : pc[u] = "none"
  BY <1>2 DEF ArrayInv, HasWorker
<1>4. sup.pcm \in Pcms /\ w \in Workers
  BY <1>1, SupType DEF Workers, Sups
<1>5. PICK n \in 0 .. Chunk : DOMAIN workers = 0 .. n - 1
                           /\ \A i \in DOMAIN workers : workers[i] \in Workers
  BY ArrayType
<1>6. n \in Nat /\ Chunk \in Nat \ {0}
  BY <1>5, ChunkAssumption
<1>7. Size = n
  <2>1. Cardinality(0 .. n - 1) = n
    BY <1>6, FS_Interval
  <2> QED
    BY <1>5, <2>1 DEF Size
<1>8. PICK m \in 1 .. Chunk : workers' \in [0 .. m - 1 -> Workers] /\ workers'[0] = w
  <2> DEFINE m == IF n = 0 THEN Chunk ELSE n
  <2>1. m \in 1 .. Chunk
    BY <1>5, <1>6
  <2>2. workers' = [i \in 0 .. m - 1 |->
                      IF i = 0 \/ i \notin DOMAIN workers THEN w ELSE workers[i]]
    BY <1>2, <1>6, <1>7 DEF CreateWorker, Grown
  <2> HIDE DEF m, w
  <2>3. workers' \in [0 .. m - 1 -> Workers] /\ workers'[0] = w
    BY <1>4, <1>5, <2>1, <2>2
  <2> QED
    BY <2>1, <2>3
<1>9. workers_count' = 1 /\ m \in 0 .. Chunk /\ 0 \in DOMAIN workers'
  BY <1>2, <1>6, <1>8 DEF CreateWorker
<1>10. slot' = [slot EXCEPT ![t] = 0]
  BY <1>2 DEF CreateWorker
<1> QED
  BY <1>1, <1>2, <1>3, <1>4, <1>8, <1>9, <1>10
  DEF CreateWorker, Created, HasWorker, Goto, hist

\* Joining a worker: it was the only one.
Joined ==
  /\ workers_count = 1 /\ workers_count' = 0 /\ workers' = workers
  /\ sup # NoSup /\ sup.joining /\ sup.i = 0 /\ HasWorker
  /\ sup' # NoSup /\ sup'.op = sup.op /\ sup'.pcm = sup.pcm
  /\ sup'.i = 1 /\ sup'.joining = FALSE
  /\ workers[0].thread \in Threads
  /\ pc[workers[0].thread] = "dead"
  /\ pc' = [pc EXCEPT ![workers[0].thread] = "none"]
  /\ cancelled' = cancelled \ {workers[0].thread} /\ slot' = slot
  /\ oom' = oom /\ crashed' = crashed

LEMMA JoinStep ==
  ASSUME TypeOK, ArrayInv, JoinWorker
  PROVE  Joined
<1>1. sup # NoSup /\ sup.joining /\ sup.i = 0 /\ HasWorker
  BY DEF JoinWorker, ArrayInv
<1>2. workers[0] \in Workers /\ workers[0].thread \in Threads
  BY <1>1, ArrayType DEF HasWorker, Workers
<1>3. workers_count = 1 /\ workers_count' = 0
  BY <1>1 DEF HasWorker, JoinWorker
<1>4. workers' = workers
  <2>1. PICK n \in 0 .. Chunk : workers \in [0 .. n - 1 -> Workers]
    BY DEF TypeOK
  <2>2. workers' = [workers EXCEPT ![0] = workers[0]]
    BY <1>1, <1>3 DEF JoinWorker
  <2> QED
    BY <2>1, <2>2
<1>5. /\ sup' # NoSup /\ sup'.op = sup.op /\ sup'.pcm = sup.pcm
      /\ sup'.i = 1 /\ sup'.joining = FALSE
  <2>1. sup \in [op : {"start", "stop"}, pcm : Pcms, i : Nat, joining : BOOLEAN]
    BY <1>1, SupType DEF Sups
  <2>2. sup' = [sup EXCEPT !.joining = FALSE, !.i = sup.i + 1]
    BY DEF JoinWorker
  <2>3. sup'.op = sup.op /\ sup'.pcm = sup.pcm /\ sup'.i = 1 /\ sup'.joining = FALSE
    BY <1>1, <2>1, <2>2
  <2> QED
    BY <2>1, <2>3 DEF NoSup
<1> QED
  BY <1>1, <1>2, <1>3, <1>4, <1>5 DEF JoinWorker, Joined, Goto, hist

LEMMA SupervisorType ==
  ASSUME TypeOK, ArrayInv, Supervisor
  PROVE  TypeOK'
<1>0. ASSUME sup' \in Sups \cup {NoSup},
             \E n \in 0 .. Chunk : workers' \in [0 .. n - 1 -> Workers],
             workers_count' \in 0 .. Chunk, pc' \in [Threads -> Labels],
             slot' \in [Threads -> Nat], cancelled' \subseteq Threads,
             crashed' \in {"no", "out_of_bounds", "no_device", "no_stream"}, oom' \in BOOLEAN
      PROVE  TypeOK'
  <2>1. UNCHANGED <<exported, gen, events, bus, unread, at, phase, matched, main_loop_on,
                    ba_pcms, todo, fifo, device, stream, open_flag, halStreams, openFailed,
                    failed, silent, missed>>
    BY SupervisorFrame DEF SupervisorLeaves
  <2>2. sup' \in [op : {"start", "stop"}, pcm : Pcms, i : Nat, joining : BOOLEAN] \cup {NoSup}
    BY <1>0 DEF Sups
  <2>3. /\ exported' \in [Paths -> Formats \cup {Gone}] /\ gen' \in [Paths -> Nat]
        /\ bus' \in Seq(Signals) /\ unread' \in 0 .. Len(bus') /\ events' \in 0 .. MaxEvents
    BY <2>1 DEF TypeOK
  <2>4. /\ phase' \in {"matched", "supervise", "loop", "exit"} /\ main_loop_on' \in BOOLEAN
        /\ matched' \in SUBSET Kinds /\ at' \in {"top", "poll", "dispatch"}
        /\ ba_pcms' \in Seq(Pcms) /\ todo' \in Seq(Pcms)
    BY <2>1 DEF TypeOK
  <2>5. /\ fifo' \in [Threads -> Nat] /\ device' \in {"null", "loaded", "unloaded"}
        /\ stream' \in BOOLEAN /\ open_flag' \in BOOLEAN /\ halStreams' \in Nat
        /\ openFailed' \in BOOLEAN /\ failed' \in BOOLEAN
        /\ silent' \in BOOLEAN /\ missed' \in SUBSET Paths
    BY <2>1 DEF TypeOK
  <2> QED
    BY <1>0, <2>2, <2>3, <2>4, <2>5 DEF TypeOK
<1>u. /\ sup \in Sups /\ workers_count \in 0 .. Chunk /\ pc \in [Threads -> Labels]
      /\ slot \in [Threads -> Nat] /\ cancelled \subseteq Threads
      /\ crashed \in {"no", "out_of_bounds", "no_device", "no_stream"} /\ oom \in BOOLEAN
  BY SupervisorFrame, SupType DEF SupervisorLeaves, TypeOK
<1>w. \E n \in 0 .. Chunk : workers \in [0 .. n - 1 -> Workers]
  BY DEF TypeOK
<1>c. Chunk \in Nat \ {0}
  BY ChunkAssumption
<1>j. [sup EXCEPT !.joining = TRUE] \in Sups /\ [sup EXCEPT !.i = @ + 1] \in Sups
  BY <1>u, SupMoves
<1>s. sup.i \in DOMAIN workers => workers[sup.i].thread \in Threads
  BY ArrayType DEF Workers
<1> USE DEF main, caller, array, threads, hist
<1>1. CASE ScanOutOfBounds
  BY <1>0, <1>1, <1>u, <1>w DEF ScanOutOfBounds, Crash
<1>2. CASE ScanForStart
  BY <1>0, <1>2, <1>u, <1>w, <1>j, <1>s DEF ScanForStart, StopWorker
<1>3. CASE WorkerExists
  BY <1>0, <1>3, <1>u, <1>w DEF WorkerExists
<1>4. CASE ScanForStop
  <2>1. CASE SamePath
    BY <1>0, <1>4, <2>1, <1>u, <1>w, <1>j, <1>s DEF ScanForStop, StopWorker
  <2>2. CASE ~ SamePath
    BY <1>0, <1>4, <2>2, <1>u, <1>w, <1>j DEF ScanForStop
  <2> QED
    BY <2>1, <2>2
<1>5. CASE JoinWorker
  <2>1. Joined
    BY <1>5, JoinStep
  <2>2. pc' \in [Threads -> Labels]
    BY <1>u, <2>1 DEF Joined, Labels
  <2>3. sup' \in Sups
    BY <1>5, <1>u, SupMoves DEF JoinWorker
  <2>4. workers_count' \in 0 .. Chunk
    BY <1>c, <2>1 DEF Joined
  <2> QED
    BY <1>0, <1>u, <1>w, <2>1, <2>2, <2>3, <2>4 DEF Joined
<1>6. CASE FinishStop
  BY <1>0, <1>6, <1>u, <1>w DEF FinishStop
<1>7. CASE CreateFails
  BY <1>0, <1>7, <1>u, <1>w DEF CreateFails
<1>8. CASE GrowFails
  <2>1. workers_count' \in 0 .. Chunk
    <3>1. workers_count = 0
      BY <1>8 DEF GrowFails, ScanDone, InUse, ArrayInv
    <3> QED
      BY <1>8, <1>c, <3>1 DEF GrowFails
  <2> QED
    BY <1>0, <1>8, <1>u, <1>w, <2>1 DEF GrowFails
<1>9. ASSUME NEW t \in Threads, CreateWorker(t) PROVE TypeOK'
  <2>1. Created(t)
    BY <1>9, CreateStep
  <2>2. pc' \in [Threads -> Labels] /\ slot' \in [Threads -> Nat]
    BY <1>u, <2>1 DEF Created, Labels
  <2>3. workers_count' \in 0 .. Chunk
    BY <1>c, <2>1 DEF Created
  <2> QED
    BY <1>0, <1>u, <2>1, <2>2, <2>3 DEF Created
<1> QED
  BY <1>1, <1>2, <1>3, <1>4, <1>5, <1>6, <1>7, <1>8, <1>9 DEF Supervisor

\* A worker reads from the socket only as it opens its PCM.
LEMMA WorkerSock ==
  ASSUME NEW t \in Threads, pcm_worker_routine(t)
  PROVE  ReadsAhead \/ UNCHANGED sock
<1>1. CASE PcmOpen(t) \/ PcmOpenFails(t)
  BY <1>1 DEF PcmOpen, PcmOpenFails
<1>2. CASE OpenWithoutDevice(t) \/ WriteWithoutStream(t) \/ WriteWithoutDevice(t)
           \/ CloseWithoutDevice(t)
  BY <1>2 DEF OpenWithoutDevice, WriteWithoutStream, WriteWithoutDevice,
              CloseWithoutDevice, Crash
<1>3. CASE WorkerUnchanged
  BY <1>3 DEF WorkerUnchanged
<1> QED
  BY <1>1, <1>2, <1>3
  DEF pcm_worker_routine, Cancelled, PollTimeout, PollEnds, PollFails, ReadAudio, OpenStream,
      OpenStreamFails, WriteAudio, WriteFails, ExitWorker

LEMMA WorkerType ==
  ASSUME TypeOK, ArrayInv, StreamInv, NEW t \in Threads, pcm_worker_routine(t)
  PROVE  TypeOK'
<1>s. unread' \in 0 .. Len(bus) /\ at' \in {"top", "poll", "dispatch"}
  BY WorkerSock, ReadsAheadType, SockType
<1>0. ASSUME \E n \in 0 .. Chunk : workers' \in [0 .. n - 1 -> Workers],
             device' = device, stream' \in BOOLEAN, open_flag' \in BOOLEAN,
             halStreams' \in Nat,
             crashed' \in {"no", "out_of_bounds", "no_device", "no_stream"},
             openFailed' \in BOOLEAN, failed' \in BOOLEAN
      PROVE  TypeOK'
  BY <1>0, <1>s, WorkerFrame DEF WorkerLeaves, TypeOK
<1>u. /\ stream \in BOOLEAN /\ open_flag \in BOOLEAN /\ halStreams \in Nat
      /\ crashed \in {"no", "out_of_bounds", "no_device", "no_stream"}
      /\ openFailed \in BOOLEAN /\ failed \in BOOLEAN
      /\ \E n \in 0 .. Chunk : workers \in [0 .. n - 1 -> Workers]
  BY DEF TypeOK
<1>c. ASSUME CloseStream
      PROVE  stream' \in BOOLEAN /\ open_flag' \in BOOLEAN /\ halStreams' \in Nat
             /\ device' = device
  <2>1. CASE stream
    <3>1. halStreams = 1
      BY <2>1 DEF StreamInv
    <3>2. halStreams' = halStreams - 1
      BY <1>c, <2>1 DEF CloseStream
    <3>3. halStreams' \in Nat
      BY <3>1, <3>2
    <3> QED
      BY <1>c, <3>3 DEF CloseStream
  <2>2. CASE ~ stream
    BY <1>c, <1>u, <2>2 DEF CloseStream
  <2> QED
    BY <2>1, <2>2
<1> USE DEF array, threads, hal, hist
<1>1. CASE PcmOpen(t)
  BY <1>0, <1>1, <1>u DEF PcmOpen
<1>2. CASE PcmOpenFails(t)
  BY <1>0, <1>2, <1>u DEF PcmOpenFails
<1>3. CASE Cancelled(t)
  BY <1>0, <1>3, <1>u DEF Cancelled
<1>4. CASE PollTimeout(t)
  BY <1>0, <1>4, <1>u, <1>c, SetActiveType DEF PollTimeout
<1>5. CASE PollEnds(t)
  BY <1>0, <1>5, <1>u DEF PollEnds
<1>6. CASE PollFails(t)
  BY <1>0, <1>6, <1>u DEF PollFails
<1>7. CASE ReadAudio(t)
  BY <1>0, <1>7, <1>u DEF ReadAudio
<1>8. CASE OpenStream(t)
  BY <1>0, <1>8, <1>u DEF OpenStream
<1>9. CASE OpenStreamFails(t)
  BY <1>0, <1>9, <1>u DEF OpenStreamFails
<1>10. CASE WriteAudio(t)
  BY <1>0, <1>10, <1>u, SetActiveType DEF WriteAudio
<1>11. CASE WriteFails(t)
  BY <1>0, <1>11, <1>u, SetActiveType DEF WriteFails
<1>12. CASE ExitWorker(t)
  BY <1>0, <1>12, <1>u, <1>c DEF ExitWorker
<1>13. CASE OpenWithoutDevice(t) \/ WriteWithoutStream(t) \/ WriteWithoutDevice(t)
            \/ CloseWithoutDevice(t)
  BY <1>0, <1>13, <1>u DEF OpenWithoutDevice, WriteWithoutStream, WriteWithoutDevice,
                           CloseWithoutDevice, Crash
<1> QED
  BY <1>1, <1>2, <1>3, <1>4, <1>5, <1>6, <1>7, <1>8, <1>9, <1>10, <1>11, <1>12, <1>13
  DEF pcm_worker_routine

-----------------------------------------------------------------------------
(* One worker *)

LEMMA ArrayEnv ==
  ASSUME TypeOK, ArrayInv, BlueAlsa
  PROVE  ArrayInv'
  BY EnvFrame DEF ArrayInv, HasWorker

LEMMA ArrayMain ==
  ASSUME TypeOK, ArrayInv, Main
  PROVE  ArrayInv'
<1>1. HasWorker' = HasWorker
  BY MainFrame DEF HasWorker
<1>2. CASE sup' = sup
  BY <1>1, <1>2, MainFrame DEF ArrayInv
<1>3. CASE sup = NoSup /\ \E pcm \in Pcms : Supervised(sup', pcm)
  <2>1. sup'.i = 0 /\ sup'.joining = FALSE
    BY <1>3 DEF Supervised
  <2>2. cancelled = {}
    BY <1>3 DEF ArrayInv
  <2> QED
    BY <1>1, <2>1, <2>2, MainFrame DEF ArrayInv
<1> QED
  BY <1>2, <1>3, MainFrame

LEMMA ArrayWorker ==
  ASSUME TypeOK, ArrayInv, NEW t \in Threads, pcm_worker_routine(t)
  PROVE  ArrayInv'
<1>1. WorkerLeaves(t)
  BY WorkerFrame
<1>2. HasWorker /\ workers[0].thread = t /\ slot[t] = 0
  BY <1>1, WorkerSlot DEF WorkerLeaves
<1>3. HasWorker' /\ workers'[0].thread = t /\ slot'[t] = 0
  BY <1>1, <1>2 DEF WorkerLeaves, HasWorker
<1>4. \A u \in Threads : pc'[u] # "none" => u = t
  BY <1>1, <1>2 DEF WorkerLeaves, ArrayInv
<1> QED
  BY <1>1, <1>2, <1>3, <1>4 DEF WorkerLeaves, ArrayInv

\* The step of the scan that leaves the array alone: what it may do to sup.
LEMMA ArrayScan ==
  ASSUME TypeOK, ArrayInv, UNCHANGED <<workers, workers_count, pc, slot, phase, oom>>,
         phase # "matched",
         \/ sup' = NoSup /\ cancelled' = cancelled /\ cancelled = {}
         \/ /\ sup' # NoSup /\ sup'.i = 0 /\ sup'.joining /\ HasWorker
            /\ cancelled' \in {{}, {workers[0].thread}}
         \/ /\ sup' # NoSup /\ sup'.i = 1 /\ ~ sup'.joining /\ sup'.op = "stop"
            /\ cancelled' = cancelled /\ cancelled = {}
  PROVE  ArrayInv'
<1>1. HasWorker' = HasWorker
  BY DEF HasWorker
<1> QED
  BY <1>1 DEF ArrayInv

\* realloc is called only for an empty array.
LEMMA EmptyArray ==
  ASSUME TypeOK, ArrayInv, GrowFails
  PROVE  DOMAIN workers = {}
<1>1. PICK n \in 0 .. Chunk : DOMAIN workers = 0 .. n - 1
  BY ArrayType
<1>2. n \in Nat
  BY <1>1, ChunkAssumption
<1>3. Cardinality(0 .. n - 1) = n
  BY <1>2, FS_Interval
<1>4. workers_count = 0
  BY DEF GrowFails, ScanDone, InUse, ArrayInv
<1>5. n = 0
  BY <1>1, <1>3, <1>4 DEF GrowFails, Size
<1> QED
  BY <1>1, <1>5

LEMMA ArraySupervisor ==
  ASSUME TypeOK, ArrayInv, Supervisor, crashed = "no"
  PROVE  ArrayInv'
<1> USE DEF main, caller, array, threads, hist
<1>f. SupervisorLeaves /\ phase # "matched" /\ sup \in Sups
  BY SupervisorFrame, SupType DEF SupervisorLeaves, ArrayInv
<1>c. ~ sup.joining => cancelled = {}
  BY DEF ArrayInv
<1>i. InUse /\ sup.i \in DOMAIN workers => sup.i = 0 /\ HasWorker
  BY <1>f DEF InUse, ArrayInv, HasWorker, SupervisorLeaves
<1>j. /\ [sup EXCEPT !.joining = TRUE] # NoSup /\ [sup EXCEPT !.joining = TRUE].i = sup.i
      /\ [sup EXCEPT !.joining = TRUE].joining
      /\ [sup EXCEPT !.i = @ + 1] # NoSup /\ [sup EXCEPT !.i = @ + 1].i = sup.i + 1
      /\ [sup EXCEPT !.i = @ + 1].joining = sup.joining /\ [sup EXCEPT !.i = @ + 1].op = sup.op
  BY <1>f DEF Sups, NoSup
<1>1. CASE ScanOutOfBounds
  BY <1>1, <1>f DEF ScanOutOfBounds, Crash, ArrayInv, HasWorker
<1>2. CASE ScanForStart
  BY <1>2, <1>f, <1>c, <1>i, <1>j, ArrayScan
  DEF ScanForStart, StopWorker, Scanning, SupervisorLeaves
<1>3. CASE WorkerExists
  BY <1>3, <1>f, <1>c, ArrayScan DEF WorkerExists, Scanning
<1>4. CASE ScanForStop
  <2>1. CASE SamePath
    BY <1>4, <2>1, <1>f, <1>c, <1>i, <1>j, ArrayScan
    DEF ScanForStop, StopWorker, Scanning, SupervisorLeaves
  <2>2. CASE ~ SamePath
    <3>1. sup' = [sup EXCEPT !.i = @ + 1] /\ sup.i = 0 /\ ~ sup.joining /\ sup.op = "stop"
      BY <1>4, <2>2, <1>i DEF ScanForStop, Scanning
    <3>2. sup' # NoSup /\ sup'.i = 1 /\ ~ sup'.joining /\ sup'.op = "stop"
      BY <1>j, <3>1
    <3>3. UNCHANGED <<workers, workers_count, pc, slot, phase, oom, cancelled>>
      BY <1>4, <2>2 DEF ScanForStop
    <3> QED
      BY <1>f, <1>c, <3>1, <3>2, <3>3, ArrayScan
  <2> QED
    BY <2>1, <2>2
<1>5. CASE JoinWorker
  <2>1. Joined
    BY <1>5, JoinStep
  <2>2. \A u \in Threads : pc'[u] = "none"
    BY <2>1 DEF Joined, ArrayInv, TypeOK
  <2>3. cancelled' = {} /\ ~ HasWorker'
    BY <2>1 DEF Joined, ArrayInv, HasWorker
  <2> QED
    BY <1>f, <2>1, <2>2, <2>3 DEF Joined, ArrayInv, SupervisorLeaves
<1>6. CASE FinishStop
  BY <1>6, <1>f, <1>c, ArrayScan DEF FinishStop, ScanDone
<1>7. CASE CreateFails
  <2>1. sup' = NoSup /\ cancelled' = cancelled /\ cancelled = {}
    BY <1>7, <1>c DEF CreateFails, ScanDone
  <2>2. UNCHANGED <<workers, workers_count, pc, slot, phase>> /\ oom'
    BY <1>7 DEF CreateFails
  <2> QED
    BY <1>f, <2>1, <2>2 DEF ArrayInv, HasWorker
<1>8. CASE GrowFails
  <2>1. workers_count = 0 /\ workers_count' = 1 /\ oom' /\ sup' = NoSup
    BY <1>8 DEF GrowFails, ScanDone, InUse, ArrayInv
  <2>2. UNCHANGED <<workers, pc, cancelled, phase>> /\ cancelled = {}
    BY <1>8, <1>c DEF GrowFails, ScanDone
  <2>3. DOMAIN workers = {}
    BY <1>8, EmptyArray
  <2>4. \A u \in Threads : pc'[u] = "none"
    BY <2>1, <2>2 DEF ArrayInv, HasWorker
  <2> QED
    BY <1>f, <2>1, <2>2, <2>3, <2>4 DEF ArrayInv, HasWorker
<1>9. ASSUME NEW t \in Threads, CreateWorker(t) PROVE ArrayInv'
  <2>1. Created(t)
    BY <1>9, CreateStep
  <2>2. workers'[0].thread = t /\ HasWorker' /\ workers_count' = 1 /\ sup' = NoSup
    BY <2>1 DEF Created
  <2>3. cancelled' = {}
    BY <1>9, <1>c, <2>1 DEF Created, CreateWorker, ScanDone
  <2>4. /\ pc'[t] # "none" /\ slot'[t] = 0
        /\ \A u \in Threads : pc'[u] # "none" => u = t
    BY <2>1 DEF Created, TypeOK
  <2> QED
    BY <1>f, <2>2, <2>3, <2>4 DEF ArrayInv, SupervisorLeaves
<1> QED
  BY <1>1, <1>2, <1>3, <1>4, <1>5, <1>6, <1>7, <1>8, <1>9 DEF Supervisor

-----------------------------------------------------------------------------
(* The stream and the crashes *)

\* Steps that leave the HAL alone and do not take a live worker away.
LEMMA StreamKept ==
  ASSUME StreamInv, UNCHANGED <<stream, open_flag, halStreams>>,
         openFailed => openFailed',
         phase' = "loop" => device' = "loaded",
         \A t \in Threads : /\ Live(t) => Live(t)'
                            /\ pc'[t] = "open_output_stream" => pc[t] = "open_output_stream"
                            /\ pc'[t] = "write" => pc[t] = "write"
  PROVE  StreamInv'
  BY DEF StreamInv

LEMMA StreamEnv ==
  ASSUME StreamInv, BlueAlsa
  PROVE  StreamInv'
  BY EnvFrame DEF StreamInv, Live

LEMMA StreamMain ==
  ASSUME TypeOK, StreamInv, Main
  PROVE  StreamInv'
<1>1. phase' = "loop" => device' = "loaded"
  BY LoopFrame, MatchFrame, DispatchFrame
  DEF StreamInv, Main, MainThread, ListPcms, SuperviseNext, LoadDevice, HandleAdded,
      AddedFails, HandleRemoved, HandleProps, Terminate, UnloadDevice, hal
<1> QED
  BY <1>1, MainFrame DEF StreamInv, Live

LEMMA StreamSupervisor ==
  ASSUME TypeOK, ArrayInv, StreamInv, Supervisor
  PROVE  StreamInv'
<1>1. SupervisorLeaves
  BY SupervisorFrame
<1>2. \A t \in Threads : /\ Live(t) => Live(t)'
                         /\ pc'[t] = "open_output_stream" => pc[t] = "open_output_stream"
                         /\ pc'[t] = "write" => pc[t] = "write"
  <2>1. CASE JoinWorker
    BY <2>1, JoinStep DEF Joined, Live, TypeOK
  <2>2. ASSUME NEW t \in Threads, CreateWorker(t)
        PROVE  \A u \in Threads : pc[u] = "none" /\ pc'[u] \in {"none", "bluealsa_dbus_pcm_open"}
    BY <2>2, CreateStep DEF Created, TypeOK
  <2>3. ASSUME ~ JoinWorker, ~ \E t \in Threads : CreateWorker(t) PROVE pc' = pc
    BY <2>3 DEF Supervisor, ScanOutOfBounds, Crash, ScanForStart, StopWorker, WorkerExists,
                ScanForStop, FinishStop, CreateFails, GrowFails, threads
  <2>4. ASSUME NEW t \in Threads, CreateWorker(t)
        PROVE  \A u \in Threads :
                 /\ Live(u) => Live(u)'
                 /\ pc'[u] = "open_output_stream" => pc[u] = "open_output_stream"
                 /\ pc'[u] = "write" => pc[u] = "write"
    BY <2>2, <2>4 DEF Live
  <2> QED
    BY <2>1, <2>3, <2>4 DEF Live
<1>3. phase' = "loop" => device' = "loaded"
  BY <1>1 DEF SupervisorLeaves, StreamInv
<1> QED
  BY <1>1, <1>2, <1>3, StreamKept DEF SupervisorLeaves

\* Only thread t exists.
LEMMA AloneThread ==
  ASSUME ArrayInv, NEW t \in Threads, pc[t] # "none"
  PROVE  \A u \in Threads : pc[u] # "none" => u = t
  BY DEF ArrayInv

LEMMA StreamWorker ==
  ASSUME TypeOK, ArrayInv, StreamInv, NEW t \in Threads, pcm_worker_routine(t)
  PROVE  StreamInv'
<1>f. WorkerLeaves(t) /\ \A u \in Threads : pc'[u] # "none" => u = t
  BY WorkerFrame, AloneThread DEF WorkerLeaves
<1>p. device' = device => (phase' = "loop" => device' = "loaded")
  BY <1>f DEF WorkerLeaves, StreamInv
<1>t. pc \in [Threads -> Labels] /\ stream \in BOOLEAN
  BY DEF TypeOK
<1>c. ASSUME CloseStream, pc'[t] \notin {"open_output_stream", "write"} PROVE StreamInv'
  <2>1. device' = device /\ stream' = FALSE /\ open_flag' = FALSE
    BY <1>c DEF CloseStream
  <2>2. halStreams' = 0
    <3>1. CASE stream
      <4>1. halStreams = 1
        BY <3>1 DEF StreamInv
      <4> QED
        BY <1>c, <3>1, <4>1 DEF CloseStream
    <3>2. CASE ~ stream
      BY <1>c, <3>2 DEF CloseStream, StreamInv
    <3> QED
      BY <3>1, <3>2
  <2>3. \A u \in Threads : pc'[u] \notin {"open_output_stream", "write"}
    BY <1>c, <1>f
  <2> QED
    BY <1>p, <2>1, <2>2, <2>3 DEF StreamInv
\* A step that does nothing to the stream, and reaches a state that stream allows.
<1>k. ASSUME UNCHANGED hal, openFailed => openFailed', pc'[t] # "dead",
             pc'[t] = "open_output_stream" => ~ stream,
             pc'[t] = "write" => stream \/ openFailed
      PROVE  StreamInv'
  <2>1. UNCHANGED <<device, stream, open_flag, halStreams>>
    BY <1>k DEF hal
  <2>2. Live(t)'
    BY <1>f, <1>k DEF Live, WorkerLeaves
  <2>3. \A u \in Threads : /\ pc'[u] = "open_output_stream" => ~ stream'
                           /\ pc'[u] = "write" => stream' \/ openFailed'
    BY <1>f, <1>k, <2>1
  <2> QED
    BY <1>p, <2>1, <2>2, <2>3 DEF StreamInv
<1>g. ASSUME NEW l, Goto(t, l) PROVE pc'[t] = l
  BY <1>t, <1>g DEF Goto
<1> USE DEF hist, array, threads
<1>1. CASE PcmOpen(t)
  BY <1>1, <1>g, <1>k DEF PcmOpen
<1>2. CASE PcmOpenFails(t)
  BY <1>2, <1>g, <1>k DEF PcmOpenFails
<1>3. CASE Cancelled(t)
  BY <1>3, <1>g, <1>k DEF Cancelled
<1>4. CASE PollTimeout(t)
  BY <1>4, <1>c DEF PollTimeout, Polls
<1>5. CASE PollEnds(t)
  BY <1>5, <1>g, <1>k DEF PollEnds
<1>6. CASE PollFails(t)
  BY <1>6, <1>g, <1>k DEF PollFails
<1>7. CASE ReadAudio(t)
  <2>1. open_flag = stream
    BY DEF StreamInv
  <2>2. pc'[t] = IF open_flag THEN "write" ELSE "open_output_stream"
    BY <1>7, <1>g DEF ReadAudio
  <2> QED
    BY <1>7, <1>k, <2>1, <2>2 DEF ReadAudio
<1>8. CASE OpenStream(t)
  <2>1. pc'[t] = "write" /\ device' = device /\ stream' = TRUE /\ open_flag' = TRUE
    BY <1>8, <1>g DEF OpenStream
  <2>2. halStreams' = 1
    <3>1. stream = FALSE
      BY <1>8, <1>t DEF OpenStream, StreamInv
    <3>2. halStreams = 0
      BY <3>1 DEF StreamInv
    <3> QED
      BY <1>8, <3>2 DEF OpenStream
  <2>3. Live(t)' /\ \A u \in Threads : pc'[u] # "open_output_stream"
    BY <1>f, <2>1 DEF Live
  <2> QED
    BY <1>p, <2>1, <2>2, <2>3 DEF StreamInv
<1>9. CASE OpenStreamFails(t)
  <2>1. /\ pc'[t] = "write" /\ device' = device /\ stream' = FALSE /\ open_flag' = FALSE
        /\ halStreams' = halStreams /\ openFailed' = TRUE
    BY <1>9, <1>g DEF OpenStreamFails
  <2>2. halStreams = 0
    <3>1. stream = FALSE
      BY <1>9, <1>t DEF OpenStreamFails, StreamInv
    <3> QED
      BY <3>1 DEF StreamInv
  <2> QED
    BY <1>p, <2>1, <2>2 DEF StreamInv
<1>10. CASE WriteAudio(t)
  BY <1>10, <1>g, <1>k DEF WriteAudio
<1>11. CASE WriteFails(t)
  BY <1>11, <1>g, <1>k DEF WriteFails
<1>12. CASE ExitWorker(t)
  BY <1>12, <1>g, <1>c DEF ExitWorker
<1>13. CASE OpenWithoutDevice(t) \/ WriteWithoutStream(t) \/ WriteWithoutDevice(t)
            \/ CloseWithoutDevice(t)
  BY <1>13, <1>p DEF OpenWithoutDevice, WriteWithoutStream, WriteWithoutDevice,
                     CloseWithoutDevice, Crash, StreamInv, Live, hal, main
<1> QED
  BY <1>1, <1>2, <1>3, <1>4, <1>5, <1>6, <1>7, <1>8, <1>9, <1>10, <1>11, <1>12, <1>13
  DEF pcm_worker_routine

LEMMA CrashStep ==
  ASSUME TypeOK, ArrayInv, StreamInv, CrashesAreKnown, crashed = "no", BlueAlsa \/ Program
  PROVE  CrashesAreKnown'
<1>0. ASSUME crashed' = crashed PROVE CrashesAreKnown'
  BY <1>0 DEF CrashesAreKnown
<1>1. CASE BlueAlsa
  BY <1>0, <1>1, EnvFrame
<1>2. CASE Main
  BY <1>0, <1>2, MainFrame
<1>3. CASE Supervisor
  <2>1. CASE ScanOutOfBounds
    <3>1. oom
      <4>1. sup \in Sups
        BY <2>1, SupType DEF ScanOutOfBounds
      <4> QED
        BY <2>1, <4>1 DEF ScanOutOfBounds, InUse, ArrayInv, HasWorker, Sups
    <3> QED
      BY <2>1, <3>1 DEF ScanOutOfBounds, Crash, CrashesAreKnown, hist
  <2>2. CASE ~ ScanOutOfBounds
    BY <1>0, <1>3, <2>2, CreateStep, JoinStep
    DEF Supervisor, ScanForStart, StopWorker, WorkerExists, ScanForStop, Joined, FinishStop,
        CreateFails, GrowFails, Created
  <2> QED
    BY <2>1, <2>2
<1>4. ASSUME NEW t \in Threads, pcm_worker_routine(t) PROVE CrashesAreKnown'
  <2>1. pc[t] # "none" /\ phase \in {"matched", "supervise", "loop", "exit"}
    BY <1>4, WorkerFrame DEF WorkerLeaves, TypeOK
  <2>2. phase # "matched"
    BY <2>1 DEF ArrayInv, HasWorker
  <2>3. device # "loaded" => phase \in {"supervise", "exit"}
    BY <2>1, <2>2 DEF StreamInv
  <2>4. CASE OpenWithoutDevice(t) \/ WriteWithoutDevice(t) \/ CloseWithoutDevice(t)
    BY <2>3, <2>4 DEF OpenWithoutDevice, WriteWithoutDevice, CloseWithoutDevice, CanClose,
                      Crash, CrashesAreKnown, main
  <2>5. CASE WriteWithoutStream(t)
    BY <2>5 DEF WriteWithoutStream, Crash, CrashesAreKnown, StreamInv, hist
  <2>6. CASE ~ (OpenWithoutDevice(t) \/ WriteWithoutDevice(t) \/ CloseWithoutDevice(t)
                \/ WriteWithoutStream(t))
    BY <1>0, <1>4, <2>6
    DEF pcm_worker_routine, PcmOpen, PcmOpenFails, Cancelled, PollTimeout, PollEnds, PollFails,
        ReadAudio, OpenStream, OpenStreamFails, WriteAudio, WriteFails, ExitWorker
  <2> QED
    BY <2>4, <2>5, <2>6
<1> QED
  BY <1>1, <1>2, <1>3, <1>4 DEF Program, WorkerThreads

-----------------------------------------------------------------------------
(* What the array holds *)

\* The effects of a step of the supervisor on the array, its threads and the call.
ScanOnly ==
  /\ UNCHANGED <<workers, pc>> /\ ~ sup.joining
  /\ HasWorker' => HasWorker
  /\ sup' = NoSup \/ (sup'.op = sup.op /\ sup'.pcm = sup.pcm)
  /\ \A p \in Paths : Plays(p) /\ Stopping(p) => Stopping(p)'

LEMMA SupervisorStep ==
  ASSUME TypeOK, ArrayInv, Supervisor
  PROVE  Joined \/ (\E t \in Threads : Created(t)) \/ ScanOnly
<1> USE DEF main, caller, array, threads
<1>f. sup \in Sups
  BY SupervisorFrame, SupType DEF SupervisorLeaves
<1>i. HasWorker /\ sup.i = 0 => InUse
  BY DEF HasWorker, InUse
<1>m. /\ [sup EXCEPT !.joining = TRUE].op = sup.op /\ [sup EXCEPT !.joining = TRUE].pcm = sup.pcm
      /\ [sup EXCEPT !.joining = TRUE].i = sup.i
      /\ [sup EXCEPT !.i = @ + 1].op = sup.op /\ [sup EXCEPT !.i = @ + 1].pcm = sup.pcm
  BY <1>f DEF Sups
<1>1. CASE ScanOutOfBounds
  BY <1>1 DEF ScanOutOfBounds, Crash, ScanOnly, HasWorker, Stopping
<1>2. CASE ScanForStart
  BY <1>2, <1>m DEF ScanForStart, Scanning, StopWorker, ScanOnly, HasWorker, Stopping
<1>3. CASE WorkerExists
  BY <1>3 DEF WorkerExists, Scanning, ScanOnly, HasWorker, Stopping
<1>4. CASE ScanForStop
  <2>1. CASE SamePath
    BY <1>4, <2>1, <1>m DEF ScanForStop, Scanning, StopWorker, ScanOnly, HasWorker, Stopping
  <2>2. CASE ~ SamePath
    <3>1. \A p \in Paths : ~ (Plays(p) /\ Stopping(p))
      BY <2>2 DEF SamePath, Plays, Stopping
    <3> QED
      BY <1>4, <2>2, <1>m, <3>1 DEF ScanForStop, Scanning, ScanOnly, HasWorker
  <2> QED
    BY <2>1, <2>2
<1>5. CASE JoinWorker
  BY <1>5, JoinStep
<1>6. CASE FinishStop
  <2>1. \A p \in Paths : ~ (Plays(p) /\ Stopping(p))
    BY <1>6, <1>i DEF FinishStop, ScanDone, Plays, Stopping
  <2> QED
    BY <1>6, <2>1 DEF FinishStop, ScanDone, ScanOnly, HasWorker
<1>7. CASE CreateFails
  BY <1>7 DEF CreateFails, ScanDone, ScanOnly, HasWorker, Stopping
<1>8. CASE GrowFails
  <2>1. ~ HasWorker'
    BY <1>8, EmptyArray DEF GrowFails, HasWorker
  <2> QED
    BY <1>8, <2>1 DEF GrowFails, ScanDone, ScanOnly, Stopping
<1>9. ASSUME NEW t \in Threads, CreateWorker(t) PROVE Created(t)
  BY <1>9, CreateStep
<1> QED
  BY <1>1, <1>2, <1>3, <1>4, <1>5, <1>6, <1>7, <1>8, <1>9 DEF Supervisor

LEMMA WorkerPlays ==
  ASSUME TypeOK, ArrayInv, NEW t \in Threads, pcm_worker_routine(t)
  PROVE  /\ HasWorker' /\ HasWorker /\ workers'[0].thread = t /\ workers[0].thread = t
         /\ workers'[0].ba_pcm = workers[0].ba_pcm
  BY WorkerFrame, WorkerSlot DEF WorkerLeaves, HasWorker

LEMMA KnownMain ==
  ASSUME TypeOK, ArrayInv, KnownInv, Main
  PROVE  KnownInv'
<1>0. bus \in Seq(Signals) /\ ba_pcms \in Seq(Pcms) /\ todo \in Seq(Pcms)
  BY DEF TypeOK
<1>h. HasWorker' = HasWorker /\ workers' = workers
  BY MainFrame DEF HasWorker
<1>1. CASE ListPcms
  <2>1. todo' = ba_pcms' /\ phase' = "supervise" /\ sup' = NoSup /\ ~ HasWorker
    BY <1>1 DEF ListPcms, ArrayInv, HasWorker
  <2> QED
    BY <1>h, <2>1 DEF KnownInv, Known, NoSup
<1>2. CASE SuperviseNext
  <2>1. /\ sup'.pcm = todo[1] /\ 1 \in DOMAIN todo /\ ba_pcms' = ba_pcms /\ phase' = "supervise"
        /\ \A i \in DOMAIN todo' : i + 1 \in DOMAIN todo /\ todo'[i] = todo[i + 1]
    BY <1>0, <1>2 DEF SuperviseNext, Supervise
  <2> QED
    BY <1>h, <2>1 DEF KnownInv, Known
<1>3. ASSUME ba_pcms' = ba_pcms, todo' = todo, sup' = sup, phase' # "supervise" => todo = <<>>
      PROVE  KnownInv'
  BY <1>h, <1>3 DEF KnownInv, Known
<1>4. CASE LoadDevice
  BY <1>3, <1>4 DEF LoadDevice
<1>5. ASSUME todo' = todo, phase' = phase,
             \A p \in Paths : Known(p) => Known(p)',
             (sup.op = "start" => Known(sup.pcm.pcm_path))'
      PROVE  KnownInv'
  <2>1. HasWorker => workers[0].ba_pcm.pcm_path \in Paths
    BY ArrayType DEF HasWorker, Workers, Pcms
  <2>2. \A i \in DOMAIN todo : todo[i].pcm_path \in Paths
    <3>1. \A i \in DOMAIN todo : todo[i] \in Pcms
      BY <1>0
    <3> QED
      BY <3>1 DEF Pcms
  <2> QED
    <3>1. \A i \in DOMAIN todo : Known(todo[i].pcm_path)'
      BY <1>5, <2>2 DEF KnownInv, Known
    <3>2. HasWorker' => Known(workers[0].ba_pcm.pcm_path)'
      BY <1>h, <1>5, <2>1 DEF KnownInv, Known
    <3> QED
      BY <1>5, <3>1, <3>2 DEF KnownInv
<1>6. CASE HandleAdded
  <2>1. ba_pcms' = Append(ba_pcms, Head(bus).pcm) /\ Head(bus).pcm \in Pcms
    BY <1>6, DispatchFrame DEF HandleAdded
  <2>2. /\ \A i \in DOMAIN ba_pcms : i \in DOMAIN ba_pcms' /\ ba_pcms'[i] = ba_pcms[i]
        /\ Len(ba_pcms) + 1 \in DOMAIN ba_pcms'
        /\ ba_pcms'[Len(ba_pcms) + 1] = Head(bus).pcm
    BY <1>0, <2>1
  <2>3. sup'.pcm = Head(bus).pcm
    BY <1>6 DEF HandleAdded, Supervise
  <2>4. \A p \in Paths : Known(p) => Known(p)'
    BY <2>2 DEF Known
  <2>5. Known(sup.pcm.pcm_path)'
    BY <2>2, <2>3 DEF Known
  <2> QED
    BY <1>5, <1>6, <2>4, <2>5, DispatchFrame DEF HandleAdded
<1>7. CASE AddedFails
  BY <1>3, <1>7, DispatchFrame DEF AddedFails, KnownInv
<1>8. CASE HandleRemoved
  <2>1. sup'.op # "start"
    BY <1>8 DEF HandleRemoved, NoSup
  <2>2. ba_pcms' = ba_pcms /\ todo' = todo /\ phase' = phase
    BY <1>8, DispatchFrame DEF HandleRemoved
  <2> QED
    BY <1>5, <2>1, <2>2 DEF Known
<1>9. CASE HandleProps
  <2>1. \A p \in Paths : Known(p) => Known(p)'
    BY <1>9, PropsType DEF Known
  <2>2. sup' = NoSup /\ todo' = todo /\ phase' = phase
    BY <1>9, DispatchFrame DEF HandleProps
  <2> QED
    BY <1>5, <2>1, <2>2 DEF NoSup
<1>10. CASE Terminate
  BY <1>3, <1>10 DEF Terminate, KnownInv
<1>11. CASE UnloadDevice
  BY <1>3, <1>11 DEF UnloadDevice, Looping, KnownInv
<1>12. CASE EnterPoll \/ PollReturns \/ DispatchEnds
  BY <1>3, <1>12, LoopFrame DEF KnownInv
<1>13. CASE AddMatch \/ AddFilterFails
  BY <1>3, <1>13, MatchFrame DEF KnownInv
<1> QED
  BY <1>1, <1>2, <1>4, <1>6, <1>7, <1>8, <1>9, <1>10, <1>11, <1>12, <1>13 DEF Main, MainThread

LEMMA KnownStep ==
  ASSUME TypeOK, ArrayInv, KnownInv, BlueAlsa \/ Program
  PROVE  KnownInv'
<1>1. CASE BlueAlsa
  BY <1>1, EnvFrame DEF KnownInv, Known, HasWorker
<1>2. CASE Main
  BY <1>2, KnownMain
<1>3. CASE Supervisor
  <2>1. UNCHANGED <<ba_pcms, todo, phase>>
    BY <1>3, SupervisorFrame DEF SupervisorLeaves
  <2>2. CASE Joined
    BY <2>1, <2>2 DEF Joined, HasWorker, KnownInv, Known
  <2>3. ASSUME NEW t \in Threads, Created(t) PROVE KnownInv'
    BY <2>1, <2>3 DEF Created, KnownInv, Known, NoSup
  <2>4. CASE ScanOnly
    BY <2>1, <2>4 DEF ScanOnly, KnownInv, Known, NoSup
  <2> QED
    BY <1>3, <2>2, <2>3, <2>4, SupervisorStep
<1>4. ASSUME NEW t \in Threads, pcm_worker_routine(t) PROVE KnownInv'
  BY <1>4, WorkerPlays, WorkerFrame DEF WorkerLeaves, KnownInv, Known
<1> QED
  BY <1>1, <1>2, <1>3, <1>4 DEF Program, WorkerThreads

LEMMA MatchStep ==
  ASSUME TypeOK, ArrayInv, MatchInv, BlueAlsa \/ Program
  PROVE  MatchInv'
<1>1. CASE BlueAlsa
  BY <1>1, EnvFrame DEF MatchInv
<1>2. CASE AddMatch \/ AddFilterFails
  BY <1>2, MatchFrame DEF MatchInv
<1>3. CASE ListPcms \/ SuperviseNext \/ LoadDevice \/ Terminate \/ UnloadDevice
  BY <1>3 DEF ListPcms, SuperviseNext, LoadDevice, Terminate, UnloadDevice, Looping, MatchInv
<1>4. CASE EnterPoll \/ PollReturns \/ DispatchEnds
  BY <1>4, LoopFrame DEF MatchInv
<1>5. CASE HandleAdded \/ AddedFails \/ HandleRemoved \/ HandleProps
  BY <1>5, DispatchFrame DEF HandleAdded, AddedFails, HandleRemoved, HandleProps, MatchInv
<1>6. CASE Supervisor
  BY <1>6, SupervisorFrame DEF SupervisorLeaves, MatchInv
<1>7. ASSUME NEW t \in Threads, pcm_worker_routine(t) PROVE MatchInv'
  BY <1>7, WorkerFrame DEF WorkerLeaves, MatchInv
<1> QED
  BY <1>1, <1>2, <1>3, <1>4, <1>5, <1>6, <1>7 DEF Program, Main, MainThread, WorkerThreads

\* While a match is missing nothing is played, listed or supervised.
LEMMA BeforeMatches ==
  ASSUME ArrayInv, KnownInv, MatchInv, NEW k \in Kinds, k \notin matched
  PROVE  /\ phase = "matched" /\ todo = <<>> /\ sup = NoSup /\ ~ HasWorker
         /\ \A p \in Paths : ~ Plays(p)
  BY DEF ArrayInv, KnownInv, MatchInv, HasWorker, Plays

-----------------------------------------------------------------------------
(* The queue *)

\* A signal is appended that is not an announcement of p.
LEMMA QueueGrows ==
  ASSUME TypeOK, NEW p \in Paths, NEW sig \in Signals, bus' = Append(bus, sig),
         ~ (sig.kind = "added" /\ sig.pcm.pcm_path = p),
         UNCHANGED <<todo, sup, workers, workers_count>>
  PROVE  /\ RemovedLast(p) => RemovedLast(p)'
         /\ Clean(p) => Clean(p)'
         /\ sig.kind = "removed" /\ sig.pcm.pcm_path = p => RemovedLast(p)'
<1>1. bus \in Seq(Signals)
  BY DEF TypeOK
<1>2. /\ Len(bus) \in Nat /\ DOMAIN bus = 1 .. Len(bus) /\ DOMAIN bus' = 1 .. Len(bus) + 1
      /\ \A i \in DOMAIN bus : bus'[i] = bus[i]
      /\ bus'[Len(bus) + 1] = sig
  BY <1>1
<1>3. \A i \in DOMAIN bus' : Queued("added", p, i)' => i \in DOMAIN bus /\ Queued("added", p, i)
  BY <1>2 DEF Queued
<1>4. \A i \in DOMAIN bus :
        i \in DOMAIN bus' /\ (Queued("removed", p, i) => Queued("removed", p, i)')
  BY <1>2 DEF Queued
<1>5. RemovedLast(p) => RemovedLast(p)'
  BY <1>3, <1>4 DEF RemovedLast
<1>6. Clean(p) => Clean(p)'
  BY <1>3 DEF Clean, Plays, Stopping, HasWorker
<1>7. ASSUME sig.kind = "removed", sig.pcm.pcm_path = p PROVE RemovedLast(p)'
  <2>1. PICK n \in DOMAIN bus' : n = Len(bus) + 1 /\ bus'[n] = sig
    BY <1>2
  <2>2. Queued("removed", p, n)' /\ \A j \in DOMAIN bus' : ~ (j > n)
    BY <1>2, <1>7, <2>1 DEF Queued
  <2> QED
    BY <1>2, <2>1, <2>2 DEF RemovedLast
<1> QED
  BY <1>5, <1>6, <1>7

\* Any signal: removals stay queued.
LEMMA RemovalStays ==
  ASSUME TypeOK, NEW p \in Paths, NEW sig \in Signals, bus' = Append(bus, sig), sup' = sup
  PROVE  /\ Doomed(p) => Doomed(p)'
         /\ sig.kind = "removed" /\ sig.pcm.pcm_path = p => Doomed(p)'
<1>1. bus \in Seq(Signals)
  BY DEF TypeOK
<1>2. /\ Len(bus) + 1 \in DOMAIN bus' /\ bus'[Len(bus) + 1] = sig
      /\ \A i \in DOMAIN bus : i \in DOMAIN bus' /\ bus'[i] = bus[i]
  BY <1>1
<1> QED
  BY <1>2 DEF Doomed, Queued, Stopping

\* A signal has been taken off the queue.
LEMMA QueueShrinks ==
  ASSUME TypeOK, bus # <<>>, bus' = Tail(bus), NEW p \in Paths
  PROVE  /\ RemovedLast(p) =>
              \/ RemovedLast(p)'
              \/ /\ Head(bus).kind = "removed" /\ Head(bus).pcm.pcm_path = p
                 /\ \A i \in DOMAIN bus' : ~ Queued("added", p, i)'
         /\ (\A i \in DOMAIN bus : ~ Queued("added", p, i)) =>
              \A i \in DOMAIN bus' : ~ Queued("added", p, i)'
         /\ (\E i \in DOMAIN bus : Queued("removed", p, i)) =>
              \/ \E i \in DOMAIN bus' : Queued("removed", p, i)'
              \/ Head(bus).kind = "removed" /\ Head(bus).pcm.pcm_path = p
         /\ Queued("added", p, 1) <=> (Head(bus).kind = "added" /\ Head(bus).pcm.pcm_path = p)
         /\ 1 \in DOMAIN bus
<1>1. bus \in Seq(Signals)
  BY DEF TypeOK
<1>2. /\ DOMAIN bus = 1 .. Len(bus) /\ Len(bus) \in Nat \ {0} /\ Head(bus) = bus[1]
      /\ DOMAIN bus' = 1 .. Len(bus) - 1
      /\ \A i \in DOMAIN bus' : bus'[i] = bus[i + 1]
  BY <1>1
<1>3. \A k : \A i \in DOMAIN bus' :
        i + 1 \in DOMAIN bus /\ (Queued(k, p, i)' <=> Queued(k, p, i + 1))
  BY <1>2 DEF Queued
<1>4. \A i \in DOMAIN bus : i = 1 \/ (i - 1 \in DOMAIN bus' /\ (i - 1) + 1 = i)
  BY <1>2
<1>5. ASSUME \A i \in DOMAIN bus : ~ Queued("added", p, i)
      PROVE  \A i \in DOMAIN bus' : ~ Queued("added", p, i)'
  BY <1>3, <1>5
<1>6. ASSUME NEW i \in DOMAIN bus, Queued("removed", p, i), i # 1
      PROVE  i - 1 \in DOMAIN bus' /\ Queued("removed", p, i - 1)'
  BY <1>3, <1>4, <1>6
<1>7. Queued("removed", p, 1) => Head(bus).kind = "removed" /\ Head(bus).pcm.pcm_path = p
  BY <1>2 DEF Queued
<1>8. ASSUME RemovedLast(p)
      PROVE  \/ RemovedLast(p)'
             \/ /\ Head(bus).kind = "removed" /\ Head(bus).pcm.pcm_path = p
                /\ \A i \in DOMAIN bus' : ~ Queued("added", p, i)'
  <2>1. PICK i \in DOMAIN bus :
          Queued("removed", p, i) /\ \A j \in DOMAIN bus : j > i => ~ Queued("added", p, j)
    BY <1>8 DEF RemovedLast
  <2>2. CASE i = 1
    <3>1. \A j \in DOMAIN bus' : j + 1 > 1
      BY <1>2
    <3> QED
      BY <1>3, <1>7, <2>1, <2>2, <3>1
  <2>3. CASE i # 1
    <3>1. i - 1 \in DOMAIN bus' /\ Queued("removed", p, i - 1)'
      BY <1>6, <2>1, <2>3
    <3>2. \A j \in DOMAIN bus' : j > i - 1 => j + 1 > i
      BY <1>2
    <3>3. \A j \in DOMAIN bus' : j > i - 1 => ~ Queued("added", p, j)'
      BY <1>3, <2>1, <3>2
    <3> QED
      BY <3>1, <3>3 DEF RemovedLast
  <2> QED
    BY <2>2, <2>3
<1>9. (\E i \in DOMAIN bus : Queued("removed", p, i)) =>
              \/ \E i \in DOMAIN bus' : Queued("removed", p, i)'
              \/ Head(bus).kind = "removed" /\ Head(bus).pcm.pcm_path = p
  BY <1>6, <1>7
<1>10. Queued("added", p, 1) <=> (Head(bus).kind = "added" /\ Head(bus).pcm.pcm_path = p)
  BY <1>2 DEF Queued
<1>11. 1 \in DOMAIN bus
  BY <1>2
<1> QED
  BY <1>5, <1>8, <1>9, <1>10, <1>11

-----------------------------------------------------------------------------
(* The removal of a PCM that is gone *)

\* No announcement is queued: the PCM was not seen, or its removal is missed.
LEMMA NotAnnounced ==
  ASSUME TypeOK, NEW p \in Paths, ~ AddedFrom(1, p)
  PROVE  \A i \in DOMAIN bus : ~ Queued("added", p, i)
<1>1. DOMAIN bus = 1 .. Len(bus)
  BY DEF TypeOK
<1> QED
  BY <1>1 DEF AddedFrom, Queued

LEMMA GoneEnv ==
  ASSUME TypeOK, ArrayInv, KnownInv, MatchInv, GoneInv, BlueAlsa
  PROVE  GoneInv'
<1> USE DEF hist
<1>k. "added" \in Kinds /\ "removed" \in Kinds /\ "props" \in Kinds
  BY DEF Kinds
<1>0. /\ UNCHANGED <<todo, sup, workers, workers_count>> /\ (silent => silent')
      /\ missed \subseteq missed'
  BY EnvFrame
<1>s. ASSUME bus' = bus, NEW p \in Paths
      PROVE  (RemovedLast(p) => RemovedLast(p)') /\ (Clean(p) => Clean(p)')
  BY <1>0, <1>s DEF RemovedLast, Clean, Queued, Plays, Stopping, HasWorker
<1>1. ASSUME NEW q \in Paths, NEW f \in Formats, Export(q, f) \/ ChangeCodec(q, f)
      PROVE  GoneInv'
  <2>1. PICK k \in {"added", "props"} : Emit(k, q, f)
    BY <1>1 DEF Export, ChangeCodec
  <2>2. exported' = [exported EXCEPT ![q] = f]
    BY <1>1 DEF Export, ChangeCodec
  <2>3. ASSUME NEW p \in Paths, exported'[p] = Gone PROVE exported[p] = Gone /\ p # q
    BY <2>2, <2>3, GoneAssumption DEF TypeOK
  <2>4. ASSUME NEW p \in Paths, p # q
        PROVE  (RemovedLast(p) => RemovedLast(p)') /\ (Clean(p) => Clean(p)')
    <3>1. CASE k \in matched
      <4>1. bus' = Append(bus, [kind |-> k, pcm |-> [pcm_path |-> q, format |-> f]])
        BY <1>k, <2>1, <3>1, EmitStep
      <4> QED
        BY <1>0, <1>k, <2>4, <4>1, QueueGrows, SignalType
    <3>2. CASE k \notin matched
      BY <1>k, <1>s, <2>1, <3>2, EmitStep
    <3> QED
      BY <3>1, <3>2
  <2> QED
    BY <1>0, <2>3, <2>4 DEF GoneInv
<1>2. ASSUME NEW q \in Paths, Withdraw(q) PROVE GoneInv'
  <2>0. Emit("removed", q, exported[q]) /\ exported[q] \in Formats
    BY <1>2 DEF Withdraw, TypeOK
  <2>1. exported' = [exported EXCEPT ![q] = Gone]
    BY <1>2 DEF Withdraw
  <2>2. \A p \in Paths : p # q => exported'[p] = exported[p]
    BY <2>1 DEF TypeOK
  <2>3. ASSUME NEW p \in Paths
        PROVE  /\ RemovedLast(p) => RemovedLast(p)'
               /\ Clean(p) => Clean(p)'
               /\ p = q => RemovedLast(p)' \/ Clean(p)' \/ p \in missed'
    <3>1. CASE "removed" \in matched
      <4> DEFINE sig == [kind |-> "removed", pcm |-> [pcm_path |-> q, format |-> exported[q]]]
      <4>1. sig \in Signals /\ sig.kind = "removed" /\ sig.pcm.pcm_path = q
        BY <1>k, <2>0, SignalType
      <4>2. bus' = Append(bus, sig)
        BY <1>k, <2>0, <3>1, EmitStep
      <4> HIDE DEF sig
      <4> QED
        BY <1>0, <4>1, <4>2, QueueGrows
    <3>2. CASE "removed" \notin matched
      <4>1. bus' = bus
        BY <1>k, <2>0, <3>2, EmitStep
      <4>2. AddedFrom(1, q) => q \in missed'
        BY <1>2, <3>2 DEF Withdraw, Subscribed
      <4>3. ~ AddedFrom(1, q) => Clean(q)
        BY <1>k, <3>2, NotAnnounced, BeforeMatches DEF Clean, NoSup
      <4> QED
        BY <1>s, <4>1, <4>2, <4>3
    <3> QED
      BY <3>1, <3>2
  <2> QED
    BY <1>0, <2>2, <2>3 DEF GoneInv
<1>3. CASE ServiceDies
  BY <1>3 DEF ServiceDies, GoneInv
<1> QED
  BY <1>1, <1>2, <1>3 DEF BlueAlsa

\* A removal with no announcement behind it is the last word on its PCM.
LEMMA LastRemoval ==
  ASSUME TypeOK, NEW p \in Paths, bus # <<>>, Head(bus).kind = "removed",
         Head(bus).pcm.pcm_path = p, ~ AddedFrom(2, p)
  PROVE  RemovedLast(p)
<1>1. DOMAIN bus = 1 .. Len(bus) /\ Len(bus) \in Nat \ {0} /\ Head(bus) = bus[1]
  BY DEF TypeOK
<1>2. 1 \in DOMAIN bus /\ Queued("removed", p, 1)
  BY <1>1 DEF Queued
<1>3. ASSUME NEW j \in DOMAIN bus, j > 1 PROVE ~ Queued("added", p, j)
  <2>1. j \in 2 .. Len(bus)
    BY <1>1, <1>3
  <2> QED
    BY <2>1 DEF AddedFrom, Queued
<1> QED
  BY <1>2, <1>3 DEF RemovedLast

\* A signal is dispatched while phase = "loop".
LEMMA GoneDispatch ==
  ASSUME TypeOK, ArrayInv, KnownInv, NEW p \in Paths,
         RemovedLast(p) \/ Clean(p) \/ p \in missed,
         HandleAdded \/ AddedFails \/ HandleRemoved \/ HandleProps
  PROVE  RemovedLast(p)' \/ Clean(p)' \/ p \in missed'
<1>1. /\ bus # <<>> /\ bus' = Tail(bus) /\ phase = "loop" /\ sup = NoSup
      /\ todo = <<>> /\ todo' = <<>> /\ UNCHANGED <<workers, workers_count>>
  BY DispatchFrame DEF HandleAdded, AddedFails, HandleRemoved, HandleProps, KnownInv
<1>2. Plays(p)' = Plays(p)
  BY <1>1 DEF Plays, HasWorker
<1>3. /\ AddedFails \/ HandleProps => sup' = NoSup
      /\ HandleAdded => Head(bus).kind = "added" /\ sup'.pcm = Head(bus).pcm
      /\ HandleRemoved => Head(bus).kind = "removed" /\ sup'.op # "start"
  BY <1>1, DispatchFrame DEF AddedFails, HandleProps, HandleAdded, HandleRemoved, Supervise, NoSup
<1>6. RemovedLast(p) \/ Clean(p) \/ p \in missed'
  BY <1>1, DispatchFrame, LastRemoval DEF HandleAdded, AddedFails, HandleRemoved, HandleProps
<1>4. CASE Clean(p)
  <2>1. ~ Plays(p) /\ ~ Queued("added", p, 1)
    BY <1>1, <1>4, QueueShrinks DEF Clean, Stopping, NoSup
  <2>2. \A i \in DOMAIN bus' : ~ Queued("added", p, i)'
    BY <1>1, <1>4, QueueShrinks DEF Clean
  <2>3. sup'.op = "start" => sup'.pcm.pcm_path # p
    BY <1>1, <1>3, <2>1, QueueShrinks DEF NoSup
  <2> QED
    BY <1>1, <1>2, <2>1, <2>2, <2>3 DEF Clean
<1>5. CASE RemovedLast(p) /\ ~ RemovedLast(p)'
  <2>1. /\ Head(bus).kind = "removed" /\ Head(bus).pcm.pcm_path = p
        /\ \A i \in DOMAIN bus' : ~ Queued("added", p, i)'
    BY <1>1, <1>5, QueueShrinks
  <2>2. HandleRemoved
    BY <2>1, DispatchFrame DEF HandleAdded, AddedFails, HandleRemoved, HandleProps
  <2>3. Plays(p) => Known(p)
    BY DEF Plays, KnownInv
  <2>4. Known(p) => sup' = [op |-> "stop", pcm |-> Head(bus).pcm, i |-> 0, joining |-> FALSE]
    BY <2>1, <2>2 DEF HandleRemoved
  <2>5. Plays(p) => Stopping(p)'
    BY <2>1, <2>3, <2>4 DEF Stopping
  <2> QED
    BY <1>1, <1>2, <1>3, <2>1, <2>2, <2>5 DEF Clean
<1> QED
  BY <1>4, <1>5, <1>6

LEMMA GoneMain ==
  ASSUME TypeOK, ArrayInv, KnownInv, GoneInv, Main
  PROVE  GoneInv'
<1>1. UNCHANGED <<exported, silent, workers, workers_count>>
  BY MainFrame
<1>2. SUFFICES ASSUME NEW p \in Paths, exported[p] = Gone,
                      RemovedLast(p) \/ Clean(p) \/ p \in missed
               PROVE  RemovedLast(p)' \/ Clean(p)' \/ p \in missed'
  BY <1>1 DEF GoneInv
<1>3. ASSUME bus' = bus, missed' = missed,
             Clean(p) => /\ \A i \in DOMAIN todo' : todo'[i].pcm_path # p
                         /\ Plays(p) => Stopping(p)'
                         /\ sup'.op = "start" => sup'.pcm.pcm_path # p
      PROVE  RemovedLast(p)' \/ Clean(p)' \/ p \in missed'
  BY <1>1, <1>2, <1>3 DEF RemovedLast, Clean, Queued, Plays, HasWorker
<1>4. CASE ListPcms
  <2>1. PICK s \in SetToSeqs({q \in Paths : exported[q] # Gone}) \cup {<<>>} :
          todo' = [i \in DOMAIN s |-> [pcm_path |-> s[i], format |-> exported[s[i]]]]
    BY <1>4 DEF ListPcms
  <2>2. \A i \in DOMAIN todo' : todo'[i].pcm_path # p
    BY <1>2, <2>1, ListType
  <2>3. ~ Plays(p) /\ sup' = NoSup /\ bus' = bus /\ missed' = missed
    BY <1>4 DEF ListPcms, ArrayInv, Plays, HasWorker, hist
  <2> QED
    BY <1>3, <2>2, <2>3 DEF NoSup
<1>5. CASE SuperviseNext
  <2>1. todo \in Seq(Pcms) /\ todo # <<>> /\ bus' = bus /\ todo' = Tail(todo)
        /\ sup = NoSup /\ sup'.pcm = Head(todo) /\ missed' = missed
    BY <1>5 DEF SuperviseNext, Supervise, TypeOK, hist
  <2>2. /\ sup'.pcm = todo[1] /\ 1 \in DOMAIN todo
        /\ \A i \in DOMAIN todo' : i + 1 \in DOMAIN todo /\ todo'[i] = todo[i + 1]
    BY <2>1
  <2> QED
    BY <1>3, <2>1, <2>2 DEF Clean, Stopping, NoSup
<1>6. CASE LoadDevice \/ Terminate \/ UnloadDevice
  <2>1. UNCHANGED <<bus, todo, sup, missed>>
    BY <1>6 DEF LoadDevice, Terminate, UnloadDevice, hist
  <2> QED
    BY <1>3, <2>1 DEF Clean, Stopping
<1>7. CASE HandleAdded \/ AddedFails \/ HandleRemoved \/ HandleProps
  BY <1>2, <1>7, GoneDispatch
<1>8. CASE \/ EnterPoll \/ PollReturns \/ DispatchEnds
           \/ AddMatch \/ AddFilterFails
  <2>1. UNCHANGED <<bus, todo, sup, missed>>
    BY <1>8, LoopFrame, MatchFrame
  <2> QED
    BY <1>3, <2>1 DEF Clean, Stopping
<1> QED
  BY <1>4, <1>5, <1>6, <1>7, <1>8 DEF Main, MainThread

LEMMA GoneStep ==
  ASSUME TypeOK, ArrayInv, KnownInv, MatchInv, GoneInv, BlueAlsa \/ Program
  PROVE  GoneInv'
<1>1. CASE BlueAlsa
  BY <1>1, GoneEnv
<1>2. CASE Main
  BY <1>2, GoneMain
<1>3. CASE Supervisor
  <2>1. UNCHANGED <<exported, bus, todo, silent, missed>>
    BY <1>3, SupervisorFrame DEF SupervisorLeaves
  <2>2. SUFFICES ASSUME NEW p \in Paths, exported[p] = Gone, RemovedLast(p) \/ Clean(p)
                 PROVE  RemovedLast(p)' \/ Clean(p)'
    BY <2>1 DEF GoneInv
  <2>3. CASE RemovedLast(p)
    BY <2>1, <2>3 DEF RemovedLast, Queued
  <2>4. CASE Clean(p)
    <3>1. ASSUME Plays(p)' => Stopping(p)', sup'.op = "start" => sup'.pcm.pcm_path # p
          PROVE  Clean(p)'
      BY <2>1, <2>4, <3>1 DEF Clean, Queued
    <3>2. CASE Joined
      BY <2>4, <3>1, <3>2 DEF Joined, Plays, HasWorker, Clean
    <3>3. ASSUME NEW t \in Threads, Created(t) PROVE Clean(p)'
      BY <2>4, <3>1, <3>3 DEF Created, Plays, Clean, NoSup
    <3>4. CASE ScanOnly
      <4>1. Plays(p)' => Plays(p)
        BY <3>4 DEF ScanOnly, Plays
      <4> QED
        BY <2>4, <3>1, <3>4, <4>1 DEF ScanOnly, Clean, NoSup
    <3> QED
      BY <1>3, <3>2, <3>3, <3>4, SupervisorStep
  <2> QED
    BY <2>2, <2>3, <2>4
<1>4. ASSUME NEW t \in Threads, pcm_worker_routine(t) PROVE GoneInv'
  <2>1. UNCHANGED <<exported, bus, todo, sup, silent, missed>>
    BY <1>4, WorkerFrame DEF WorkerLeaves
  <2>2. \A p \in Paths : Plays(p)' => Plays(p)
    BY <1>4, WorkerPlays DEF Plays
  <2>3. \A p \in Paths : (RemovedLast(p) => RemovedLast(p)') /\ (Clean(p) => Clean(p)')
    BY <2>1, <2>2 DEF RemovedLast, Clean, Queued, Stopping
  <2> QED
    BY <2>1, <2>3 DEF GoneInv
<1> QED
  BY <1>1, <1>2, <1>3, <1>4 DEF Program, WorkerThreads

-----------------------------------------------------------------------------
(* Workers that have ended *)

\* Nothing excuses a worker whose connection has ended but that it is about to go.
Owed == main_loop_on /\ ~ silent /\ ~ failed

LEMMA EndEnv ==
  ASSUME TypeOK, ArrayInv, KnownInv, MatchInv, EndInv, BlueAlsa
  PROVE  EndInv'
<1> USE DEF hist
<1>k. "added" \in Kinds /\ "removed" \in Kinds /\ "props" \in Kinds
  BY DEF Kinds
<1>0. /\ UNCHANGED <<sup, workers, workers_count, pc, fifo>>
      /\ Owed' => Owed
      /\ missed \subseteq missed'
      /\ \A p \in Paths : Plays(p)' = Plays(p)
  BY EnvFrame DEF Plays, HasWorker, Owed
<1>1. ASSUME NEW q \in Paths, NEW sig \in Signals, bus' = Append(bus, sig),
             \A p \in Paths \ {q} : exported'[p] = exported[p] /\ gen'[p] = gen[p],
             \/ sig.kind = "removed" /\ sig.pcm.pcm_path = q
             \/ exported[q] = Gone
             \/ exported'[q] # Gone /\ gen'[q] = gen[q]
      PROVE  EndInv'
  <2>1. SUFFICES ASSUME Owed', NEW p \in Paths, Plays(p)', Ended(workers[0].thread, p)'
                 PROVE  Doomed(p)' \/ p \in missed'
    BY DEF EndInv, Owed
  <2>2. Doomed(p) => Doomed(p)'
    BY <1>0, <1>1, RemovalStays
  <2>3. CASE p = q /\ sig.kind = "removed" /\ sig.pcm.pcm_path = q
    BY <1>0, <1>1, <2>3, RemovalStays
  <2>4. CASE ~ (p = q /\ sig.kind = "removed" /\ sig.pcm.pcm_path = q)
    <3>1. Ended(workers[0].thread, p)
      BY <1>0, <1>1, <2>1, <2>4 DEF Ended
    <3> QED
      BY <1>0, <2>1, <2>2, <3>1 DEF EndInv, Owed
  <2> QED
    BY <2>3, <2>4
\* Before the matches are complete there is no worker.
<1>m. ASSUME NEW k \in Kinds, k \notin matched PROVE EndInv'
  BY <1>0, <1>m, BeforeMatches DEF EndInv
<1>2. ASSUME NEW q \in Paths, NEW f \in Formats, Export(q, f), "added" \in matched
      PROVE  EndInv'
  <2> DEFINE sig == [kind |-> "added", pcm |-> [pcm_path |-> q, format |-> f]]
  <2>1. sig \in Signals
    BY <1>k, SignalType
  <2>2. bus' = Append(bus, sig)
    BY <1>2, <1>k, EmitStep DEF Export
  <2>3. /\ exported[q] = Gone
        /\ \A p \in Paths \ {q} : exported'[p] = exported[p] /\ gen'[p] = gen[p]
    BY <1>2 DEF Export, TypeOK
  <2> HIDE DEF sig
  <2> QED
    BY <1>1, <2>1, <2>2, <2>3
<1>3. ASSUME NEW q \in Paths, Withdraw(q), "removed" \in matched PROVE EndInv'
  <2> DEFINE sig == [kind |-> "removed", pcm |-> [pcm_path |-> q, format |-> exported[q]]]
  <2>0. exported[q] \in Formats
    BY <1>3 DEF Withdraw, TypeOK
  <2>1. sig \in Signals /\ sig.kind = "removed" /\ sig.pcm.pcm_path = q
    BY <1>k, <2>0, SignalType
  <2>2. bus' = Append(bus, sig)
    BY <1>3, <1>k, <2>0, EmitStep DEF Withdraw
  <2>3. \A p \in Paths \ {q} : exported'[p] = exported[p] /\ gen'[p] = gen[p]
    BY <1>3 DEF Withdraw, TypeOK
  <2> HIDE DEF sig
  <2> QED
    BY <1>1, <2>1, <2>2, <2>3
<1>4. ASSUME NEW q \in Paths, NEW f \in Formats, ChangeCodec(q, f), "props" \in matched
      PROVE  EndInv'
  <2> DEFINE sig == [kind |-> "props", pcm |-> [pcm_path |-> q, format |-> f]]
  <2>1. sig \in Signals
    BY <1>k, SignalType
  <2>2. bus' = Append(bus, sig)
    BY <1>4, <1>k, EmitStep DEF ChangeCodec
  <2>3. /\ exported'[q] # Gone /\ gen' = gen
        /\ \A p \in Paths \ {q} : exported'[p] = exported[p] /\ gen'[p] = gen[p]
    BY <1>4, GoneAssumption DEF ChangeCodec, TypeOK
  <2> HIDE DEF sig
  <2> QED
    BY <1>1, <2>1, <2>2, <2>3
<1>5. CASE ServiceDies
  BY <1>5 DEF ServiceDies, EndInv
<1> QED
  BY <1>k, <1>m, <1>2, <1>3, <1>4, <1>5 DEF BlueAlsa

LEMMA EndMain ==
  ASSUME TypeOK, ArrayInv, KnownInv, EndInv, Main
  PROVE  EndInv'
<1>0. /\ UNCHANGED <<exported, gen, workers, workers_count, pc, fifo>> /\ (Owed' => Owed)
      /\ sup' = sup \/ sup = NoSup
  BY MainFrame DEF Owed
<1>1. SUFFICES ASSUME NEW p \in Paths, Plays(p), Doomed(p) \/ p \in missed
               PROVE  Doomed(p)' \/ p \in missed'
  BY <1>0 DEF EndInv, Owed, Plays, HasWorker, Ended
<1>2. CASE Stopping(p) \/ (sup # NoSup /\ sup.joining)
  <2>1. sup # NoSup
    BY <1>2 DEF Stopping, NoSup
  <2> QED
    BY <1>0, <1>2, <2>1 DEF Doomed, Stopping
<1>3. CASE \E i \in DOMAIN bus : Queued("removed", p, i)
  <2>1. CASE HandleAdded \/ AddedFails \/ HandleRemoved \/ HandleProps
    <3>1. bus # <<>> /\ bus' = Tail(bus)
      BY <2>1, DispatchFrame DEF HandleAdded, AddedFails, HandleRemoved, HandleProps
    <3>2. CASE \E i \in DOMAIN bus' : Queued("removed", p, i)'
      BY <3>2 DEF Doomed
    <3>3. CASE Head(bus).kind = "removed" /\ Head(bus).pcm.pcm_path = p
      <4>1. HandleRemoved
        BY <2>1, <3>3, DispatchFrame DEF HandleAdded, AddedFails, HandleRemoved, HandleProps
      <4>2. Known(p)
        BY <1>1 DEF Plays, KnownInv
      <4>3. sup' = [op |-> "stop", pcm |-> Head(bus).pcm, i |-> 0, joining |-> FALSE]
        BY <3>3, <4>1, <4>2 DEF HandleRemoved
      <4> QED
        BY <3>3, <4>3 DEF Doomed, Stopping
    <3> QED
      BY <1>3, <3>1, <3>2, <3>3, QueueShrinks
  <2>2. CASE ~ (HandleAdded \/ AddedFails \/ HandleRemoved \/ HandleProps)
    <3>1. bus' = bus
      BY <2>2, LoopFrame, MatchFrame
      DEF Main, MainThread, ListPcms, SuperviseNext, LoadDevice, Terminate, UnloadDevice
    <3> QED
      BY <1>3, <3>1 DEF Doomed, Queued
  <2> QED
    BY <2>1, <2>2
\* A missed removal is made up for by a later one.
<1>4. CASE p \in missed
  <2>1. CASE HandleAdded \/ AddedFails \/ HandleRemoved \/ HandleProps
    <3>1. CASE p \in missed'
      BY <3>1
    <3>2. CASE p \notin missed'
      <4>1. Head(bus).kind = "removed" /\ Head(bus).pcm.pcm_path = p /\ HandleRemoved
        BY <1>4, <2>1, <3>2, DispatchFrame DEF HandleAdded, AddedFails, HandleRemoved, HandleProps
      <4>2. Known(p)
        BY <1>1 DEF Plays, KnownInv
      <4>3. sup' = [op |-> "stop", pcm |-> Head(bus).pcm, i |-> 0, joining |-> FALSE]
        BY <4>1, <4>2 DEF HandleRemoved
      <4> QED
        BY <4>1, <4>3 DEF Doomed, Stopping
    <3> QED
      BY <3>1, <3>2
  <2>2. CASE ~ (HandleAdded \/ AddedFails \/ HandleRemoved \/ HandleProps)
    <3>1. missed' = missed
      BY <2>2, LoopFrame, MatchFrame
      DEF Main, MainThread, ListPcms, SuperviseNext, LoadDevice, Terminate, UnloadDevice, hist
    <3> QED
      BY <1>4, <3>1
  <2> QED
    BY <2>1, <2>2
<1> QED
  BY <1>1, <1>2, <1>3, <1>4 DEF Doomed

LEMMA EndSupervisor ==
  ASSUME TypeOK, ArrayInv, GoneInv, EndInv, Supervisor
  PROVE  EndInv'
<1>0. UNCHANGED <<exported, gen, bus, fifo, main_loop_on, silent, failed, missed>> /\ sup # NoSup
  BY SupervisorFrame DEF SupervisorLeaves
<1>1. CASE Joined
  BY <1>1 DEF Joined, EndInv, Plays, HasWorker
<1>2. ASSUME NEW t \in Threads, Created(t) PROVE EndInv'
  <2>1. SUFFICES ASSUME ~ silent, NEW p \in Paths, Plays(p)', Ended(t, p)'
                 PROVE  Doomed(p)' \/ p \in missed'
    BY <1>0, <1>2 DEF EndInv, Created
  <2>2. pc'[t] = "bluealsa_dbus_pcm_open"
    BY <1>2 DEF Created, TypeOK
  <2>3. exported[p] = Gone
    BY <1>0, <2>1, <2>2 DEF Ended
  <2>4. sup.op = "start" /\ sup.pcm.pcm_path = p
    BY <1>2, <2>1 DEF Created, Plays
  <2>5. RemovedLast(p) \/ p \in missed
    BY <2>1, <2>3, <2>4 DEF GoneInv, Clean
  <2> QED
    BY <1>0, <2>5 DEF RemovedLast, Doomed, Queued
<1>3. CASE ScanOnly
  <2>1. SUFFICES ASSUME Owed, NEW p \in Paths, Plays(p)', Ended(workers[0].thread, p)'
                 PROVE  Doomed(p)' \/ p \in missed'
    BY <1>0 DEF EndInv, Owed
  <2>2. Plays(p) /\ Ended(workers[0].thread, p)
    BY <1>0, <1>3, <2>1 DEF ScanOnly, Plays, Ended
  <2>3. Doomed(p) \/ p \in missed
    BY <2>1, <2>2 DEF EndInv, Owed
  <2>4. CASE Stopping(p)
    BY <1>3, <2>2, <2>4 DEF ScanOnly, Doomed
  <2>5. CASE \E i \in DOMAIN bus : Queued("removed", p, i)
    BY <1>0, <2>5 DEF Doomed, Queued
  <2> QED
    BY <1>0, <1>3, <2>3, <2>4, <2>5 DEF Doomed, ScanOnly
<1> QED
  BY <1>1, <1>2, <1>3, SupervisorStep

LEMMA EndWorker ==
  ASSUME TypeOK, ArrayInv, EndInv, NEW t \in Threads, pcm_worker_routine(t)
  PROVE  EndInv'
<1>0. UNCHANGED <<exported, gen, bus, sup, main_loop_on, silent, missed, cancelled>>
  BY WorkerFrame DEF WorkerLeaves
<1>w. /\ workers[0].thread = t /\ workers'[0].thread = t
      /\ \A p \in Paths : (Plays(p)' <=> Plays(p)) /\ (Plays(p) => PathOf(t) = p)
  <2>1. pc[t] # "none"
    BY WorkerFrame DEF WorkerLeaves
  <2> QED
    BY <2>1, WorkerPlays, WorkerSlot DEF Plays
<1>t. pc \in [Threads -> Labels] /\ fifo \in [Threads -> Nat] /\ failed \in BOOLEAN
  BY DEF TypeOK
<1>d. \A p \in Paths : Doomed(p)' <=> Doomed(p)
  BY <1>0 DEF Doomed, Queued, Stopping
\* Ended before: then there was a reason, which is still there.
<1>1. ASSUME failed => failed',
             \A p \in Paths : Owed' /\ Plays(p) /\ Ended(t, p)' => Ended(t, p) \/ Doomed(p)
      PROVE  EndInv'
  <2>1. SUFFICES ASSUME Owed', NEW p \in Paths, Plays(p), Ended(t, p)'
                 PROVE  Doomed(p) \/ p \in missed
    BY <1>0, <1>w, <1>d DEF EndInv, Owed
  <2>2. Owed
    BY <1>0, <1>1, <2>1 DEF Owed
  <2> QED
    BY <1>1, <1>w, <2>1, <2>2 DEF EndInv, Owed
<1>g. ASSUME NEW l, Goto(t, l) PROVE pc'[t] = l
  BY <1>t, <1>g DEF Goto
\* The thread keeps its FIFO and goes on.
<1>2. ASSUME fifo' = fifo, failed' = failed, pc[t] # "bluealsa_dbus_pcm_open",
             pc'[t] \notin {"exit", "dead"} \/ pc[t] = "exit"
      PROVE  EndInv'
  BY <1>0, <1>1, <1>2 DEF Ended
<1> USE DEF hist, WorkerUnchanged
<1>3. CASE PcmOpen(t)
  <2>1. pc'[t] = "poll" /\ fifo'[t] = gen[PathOf(t)] /\ exported[PathOf(t)] # Gone
    BY <1>3, <1>t, <1>g DEF PcmOpen
  <2>2. \A p \in Paths : Plays(p) => ~ Ended(t, p)'
    BY <1>0, <1>w, <2>1 DEF Ended
  <2> QED
    BY <1>1, <1>3, <2>2 DEF PcmOpen
<1>4. CASE PcmOpenFails(t)
  <2>1. failed' = (failed \/ exported[PathOf(t)] # Gone)
    BY <1>4 DEF PcmOpenFails
  <2>2. \A p \in Paths : Owed' /\ Plays(p) => Ended(t, p)
    BY <1>w, <2>1 DEF Owed, Ended
  <2> QED
    BY <1>1, <2>1, <2>2
<1>5. CASE Cancelled(t)
  <2>1. sup # NoSup /\ sup.joining
    BY <1>5 DEF Cancelled, ArrayInv
  <2> QED
    BY <1>1, <1>5, <2>1 DEF Cancelled, Doomed
<1>6. CASE PollTimeout(t)
  BY <1>2, <1>6 DEF PollTimeout, Polls
<1>7. CASE PollEnds(t)
  <2>1. failed' = failed
    BY <1>7 DEF PollEnds
  <2>2. \A p \in Paths : Owed' /\ Plays(p) => Ended(t, p)
    BY <1>0, <1>7, <1>w DEF PollEnds, Polls, HungUp, Owed, Ended
  <2> QED
    BY <1>1, <2>1, <2>2
<1>8. CASE PollFails(t)
  BY <1>1, <1>8 DEF PollFails, Owed
<1>9. CASE ReadAudio(t)
  <2>1. pc'[t] \in {"write", "open_output_stream"}
    BY <1>9, <1>g DEF ReadAudio
  <2> QED
    BY <1>2, <1>9, <2>1 DEF ReadAudio, Polls
<1>10. CASE OpenStream(t)
  BY <1>2, <1>10, <1>g DEF OpenStream
<1>11. CASE OpenStreamFails(t)
  BY <1>2, <1>11, <1>g DEF OpenStreamFails
<1>12. CASE WriteAudio(t)
  BY <1>2, <1>12, <1>g DEF WriteAudio
<1>13. CASE WriteFails(t)
  BY <1>1, <1>13 DEF WriteFails, Owed
<1>14. CASE ExitWorker(t)
  BY <1>2, <1>14 DEF ExitWorker
<1>15. CASE OpenWithoutDevice(t) \/ WriteWithoutStream(t) \/ WriteWithoutDevice(t)
            \/ CloseWithoutDevice(t)
  <2>1. UNCHANGED <<pc, fifo, failed>>
    BY <1>15 DEF OpenWithoutDevice, WriteWithoutStream, WriteWithoutDevice,
                 CloseWithoutDevice, Crash, threads
  <2> QED
    BY <1>0, <1>1, <2>1 DEF Ended
<1> QED
  BY <1>3, <1>4, <1>5, <1>6, <1>7, <1>8, <1>9, <1>10, <1>11, <1>12, <1>13, <1>14, <1>15
  DEF pcm_worker_routine

-----------------------------------------------------------------------------
(* The theorems *)

LEMMA InitInv == Init => IInv
<1> SUFFICES ASSUME Init PROVE IInv
  OBVIOUS
<1>1. TypeOK
  <2>1. workers \in [0 .. 0 - 1 -> Workers] /\ 0 \in 0 .. Chunk
    BY ChunkAssumption DEF Init
  <2>2. \E n \in 0 .. Chunk : workers \in [0 .. n - 1 -> Workers]
    BY <2>1
  <2>3. events \in 0 .. MaxEvents /\ workers_count \in 0 .. Chunk
    BY EventsAssumption, ChunkAssumption DEF Init
  <2>4. bus \in Seq(Signals) /\ ba_pcms \in Seq(Pcms) /\ todo \in Seq(Pcms)
    BY EmptySeq DEF Init
  <2>5. unread \in 0 .. Len(bus) /\ matched \in SUBSET Kinds
    BY DEF Init
  <2> QED
    BY <2>2, <2>3, <2>4, <2>5 DEF Init, TypeOK, Labels
<1>2. ~ HasWorker
  BY DEF Init, HasWorker
<1>3. \A t \in Threads : pc[t] = "none"
  BY DEF Init
<1>4. ArrayInv
  <2>1. sup = NoSup /\ workers_count = 0 /\ cancelled = {}
    BY DEF Init
  <2> QED
    BY <1>2, <1>3, <2>1 DEF ArrayInv
<1>5. StreamInv
  <2>1. /\ stream = FALSE /\ open_flag = FALSE /\ halStreams = 0 /\ phase = "matched"
    BY DEF Init
  <2> QED
    BY <1>3, <2>1 DEF StreamInv
<1>6. ArrayInv /\ StreamInv /\ CrashesAreKnown
  BY <1>4, <1>5 DEF Init, CrashesAreKnown
<1>7. KnownInv
  BY <1>2 DEF Init, KnownInv, NoSup
<1>8. GoneInv
  BY <1>2 DEF Init, GoneInv, Clean, Plays, NoSup
<1>9. EndInv /\ MatchInv
  BY <1>2 DEF EndInv, Plays, MatchInv, Init
<1> QED
  BY <1>1, <1>6, <1>7, <1>8, <1>9 DEF IInv

LEMMA NextInv == IInv /\ [Next]_vars => IInv'
<1> SUFFICES ASSUME IInv, [Next]_vars PROVE IInv'
  OBVIOUS
<1> USE DEF IInv
<1>1. CASE crashed = "no" /\ BlueAlsa
  BY <1>1, EnvType, ArrayEnv, StreamEnv, CrashStep, KnownStep, MatchStep, GoneStep, EndEnv
<1>2. CASE crashed = "no" /\ Main
  BY <1>2, MainType, ArrayMain, StreamMain, CrashStep, KnownStep, MatchStep, GoneStep, EndMain
  DEF Program, WorkerThreads
<1>3. CASE crashed = "no" /\ Supervisor
  BY <1>3, SupervisorType, ArraySupervisor, StreamSupervisor, CrashStep, KnownStep, MatchStep,
     GoneStep, EndSupervisor DEF Program, WorkerThreads
<1>4. ASSUME crashed = "no", NEW t \in Threads, pcm_worker_routine(t) PROVE IInv'
  BY <1>4, WorkerType, ArrayWorker, StreamWorker, CrashStep, KnownStep, MatchStep, GoneStep,
     EndWorker
  DEF Program, WorkerThreads
<1>5. CASE UNCHANGED vars
  <2> USE <1>5 DEF vars, env, sock, main, array, threads, hal, hist
  <2>1. TypeOK'
    BY DEF TypeOK
  <2>2. HasWorker' = HasWorker /\ ArrayInv'
    BY DEF ArrayInv, HasWorker
  <2>3. StreamInv' /\ CrashesAreKnown'
    BY DEF StreamInv, Live, CrashesAreKnown
  <2>4. KnownInv' /\ MatchInv'
    BY <2>2 DEF KnownInv, Known, MatchInv
  <2>5. GoneInv'
    BY <2>2 DEF GoneInv, RemovedLast, Clean, Queued, Plays, Stopping
  <2>6. EndInv'
    BY <2>2 DEF EndInv, Ended, Doomed, Queued, Plays, Stopping
  <2> QED
    BY <2>1, <2>2, <2>3, <2>4, <2>5, <2>6
<1> QED
  BY <1>1, <1>2, <1>3, <1>4, <1>5 DEF Next, Program, WorkerThreads

THEOREM Invariant == Spec => []IInv
  BY InitInv, NextInv, PTL DEF Spec

\* Every variable keeps its type; the array never grows past one chunk.
THEOREM TypeCorrect == Spec => []TypeOK
<1>1. IInv => TypeOK
  BY DEF IInv
<1> QED
  BY <1>1, Invariant, PTL

\* However PCMs come, go and change, at most one worker is alive: pcm_worker_start
\* is reached only after every other worker was joined.
THEOREM AtMostOneWorker == Spec => []OneWorker
<1>1. IInv => OneWorker
  BY DEF IInv, ArrayInv, OneWorker, Live
<1> QED
  BY <1>1, Invariant, PTL

\* The pointer a worker was created with refers to its own element all its life,
\* although the array is reallocated and elements are moved.
THEOREM PointersStayCurrent == Spec => []PointersAreCurrent
<1>1. IInv => PointersAreCurrent
  BY DEF IInv, ArrayInv, HasWorker, PointersAreCurrent, Live
<1> QED
  BY <1>1, Invariant, PTL

\* audio_hal_open_stream and audio_hal_close_stream, called from three places of a
\* worker, keep the HAL's streams and hal_audio_stream together, and the last worker
\* leaves none open.
THEOREM StreamsDoNotLeak == Spec => []NoStreamLeak
<1>1. IInv => NoStreamLeak
  BY DEF IInv, StreamInv, NoStreamLeak
<1> QED
  BY <1>1, Invariant, PTL

\* The process dies only without a stream, without the device, or out of memory.
THEOREM CrashesStayKnown == Spec => []CrashesAreKnown
<1>1. IInv => CrashesAreKnown
  BY DEF IInv
<1> QED
  BY <1>1, Invariant, PTL

LEMMA TheOnlyWorker ==
  ASSUME TypeOK, ArrayInv, NEW w \in InUseWorkers
  PROVE  HasWorker /\ w = workers[0] /\ w \in Workers /\ w.thread \in Threads
         /\ w.ba_pcm.pcm_path \in Paths /\ Plays(w.ba_pcm.pcm_path)
<1>1. PICK i \in (0 .. workers_count - 1) \cap DOMAIN workers : w = workers[i]
  BY DEF InUseWorkers
<1>2. i = 0 /\ HasWorker
  BY <1>1 DEF ArrayInv, HasWorker
<1>3. w \in Workers
  BY <1>1, ArrayType
<1> QED
  BY <1>1, <1>2, <1>3 DEF Workers, Pcms, Plays

\* When all signals have been handled, no worker is kept for a PCM that is gone,
\* unless BlueALSA died without a word, or the removal fell between the matches.
THEOREM StaleWorkersGo == Spec => []NoStaleWorker
<1>1. IInv => NoStaleWorker
  <2> SUFFICES ASSUME IInv, Quiescent, ~ silent, NEW w \in InUseWorkers,
                      w.ba_pcm.pcm_path \notin missed
               PROVE  exported[w.ba_pcm.pcm_path] # Gone
    BY DEF NoStaleWorker
  <2> DEFINE p == w.ba_pcm.pcm_path
  <2>1. Plays(p) /\ p \in Paths
    BY TheOnlyWorker DEF IInv
  <2>2. ~ RemovedLast(p) /\ ~ Stopping(p)
    BY DEF Quiescent, RemovedLast, Stopping, NoSup
  <2>3. ~ Clean(p)
    BY <2>1, <2>2 DEF Clean
  <2> QED
    BY <2>1, <2>2, <2>3 DEF IInv, GoneInv
<1> QED
  BY <1>1, Invariant, PTL

\* When all signals have been handled, the worker of an exported PCM is alive: a
\* reconnect finds the dead worker of the connection before only while the removal is
\* still queued, or if it fell between the matches.
THEOREM WorkersKeepRunning == Spec => []WorkersAreRunning
<1>1. IInv => WorkersAreRunning
  <2> SUFFICES ASSUME IInv, Quiescent, main_loop_on, ~ silent, ~ failed, NEW w \in InUseWorkers,
                      w.ba_pcm.pcm_path \notin missed
               PROVE  Live(w.thread) /\ pc[w.thread] # "exit"
    BY DEF WorkersAreRunning
  <2> DEFINE p == w.ba_pcm.pcm_path
  <2>1. Plays(p) /\ p \in Paths /\ HasWorker /\ w = workers[0]
    BY TheOnlyWorker DEF IInv
  <2>2. ~ Doomed(p)
    BY DEF Quiescent, Doomed, Stopping, NoSup
  <2>3. ~ Ended(w.thread, p)
    BY <2>1, <2>2 DEF IInv, EndInv
  <2>4. pc[w.thread] # "none"
    BY <2>1 DEF IInv, ArrayInv
  <2> QED
    BY <2>3, <2>4 DEF Ended, Live
<1> QED
  BY <1>1, Invariant, PTL
-----------------------------------------------------------------------------
(* The workers as one player at a time *)

Playing == {<<t, workers[slot[t]].ba_pcm>> : t \in LiveThreads}

\* A worker that is alive is the only player, and plays what its element says.
LEMMA ThePlayer ==
  ASSUME ArrayInv, NEW t \in Threads, Live(t)
  PROVE  Playing = {<<t, workers[0].ba_pcm>>}
<1>1. LiveThreads = {t} /\ slot[t] = 0
  BY DEF ArrayInv, LiveThreads, Live
<1> QED
  BY <1>1 DEF Playing

LEMMA NoPlayer == (\A t \in Threads : ~ Live(t)) => Playing = {}
  BY DEF Playing, LiveThreads

LEMMA NobodyStarts ==
  ASSUME UNCHANGED <<slot, halStreams>>,
         \A t \in Threads : Live(t)' <=> Live(t),
         \A t \in LiveThreads : workers'[slot[t]].ba_pcm = workers[slot[t]].ba_pcm
  PROVE  UNCHANGED <<Playing, halStreams>>
<1>1. LiveThreads' = LiveThreads
  BY DEF LiveThreads
<1> QED
  BY <1>1 DEF Playing

LEMMA SpeakerSupervisor ==
  ASSUME IInv, Supervisor
  PROVE  [Output!Next]_<<Playing, halStreams>>
<1> USE DEF IInv, caller, array, threads, hist, Crash
<1>f. UNCHANGED halStreams
  BY SupervisorFrame DEF SupervisorLeaves
<1>1. CASE JoinWorker
  <2>1. Joined
    BY <1>1, JoinStep
  <2>2. \A t \in Threads : Live(t)' <=> Live(t)
    BY <2>1 DEF Joined, TypeOK, Live
  <2> QED
    BY <1>f, <2>1, <2>2, NobodyStarts DEF Joined
<1>2. ASSUME NEW t \in Threads, CreateWorker(t)
      PROVE  [Output!Next]_<<Playing, halStreams>>
  <2>1. Created(t)
    BY <1>2, CreateStep
  <2>2. \A u \in Threads : ~ Live(u)
    BY <2>1 DEF Created, Live
  <2>3. Playing = {} /\ halStreams = 0
    BY <2>2, NoPlayer DEF StreamInv
  <2>4. Playing' = {<<t, workers'[0].ba_pcm>>}
    <3>1. LiveThreads' = {t} /\ slot'[t] = 0
      BY <2>1 DEF Created, TypeOK, LiveThreads, Live
    <3> QED
      BY <3>1 DEF Playing
  <2>5. Output!Begin
    BY <1>f, <2>3, <2>4 DEF Output!Begin, Playing
  <2> QED
    BY <2>5 DEF Output!Next
<1>3. CASE UNCHANGED <<workers, pc, slot>>
  BY <1>3, <1>f, NobodyStarts DEF Live
<1>4. Supervisor => JoinWorker \/ UNCHANGED <<workers, pc, slot>>
                    \/ \E t \in Threads : CreateWorker(t)
  BY DEF Supervisor, ScanOutOfBounds, ScanForStart, WorkerExists, ScanForStop, StopWorker,
         FinishStop, CreateFails, GrowFails
<1> QED
  BY <1>1, <1>2, <1>3, <1>4

\* A worker opens and closes the stream while it plays, and ends with the stream closed.
LEMMA SpeakerWorker ==
  ASSUME IInv, IInv', NEW t \in Threads, pcm_worker_routine(t)
  PROVE  [Output!Next]_<<Playing, halStreams>>
<1> USE DEF IInv
<1>1. WorkerLeaves(t) /\ Live(t)
  BY WorkerFrame DEF WorkerLeaves, Live
<1>2. Playing = {<<t, workers[0].ba_pcm>>}
  BY <1>1, ThePlayer
<1>3. halStreams \in {0, 1} /\ halStreams' \in {0, 1}
  BY DEF StreamInv
<1>4. CASE pc'[t] = "dead"
  <2>1. \A u \in Threads : ~ Live(u)'
    BY <1>1, <1>4, AloneThread DEF WorkerLeaves, Live
  <2>2. Playing' = {}
    BY <2>1 DEF Playing, LiveThreads
  <2>3. halStreams' = 0
    BY <2>1 DEF StreamInv
  <2>4. Output!End
    BY <1>2, <2>2, <2>3 DEF Output!End, Playing
  <2> QED
    BY <2>4 DEF Output!Next
<1>5. CASE pc'[t] # "dead"
  <2>1. \A u \in Threads : Live(u)' <=> Live(u)
    BY <1>1, <1>5 DEF WorkerLeaves, Live
  <2>2. LiveThreads' = LiveThreads /\ LiveThreads = {t} /\ slot[t] = 0
    BY <1>1, <2>1 DEF LiveThreads, ArrayInv, Live
  <2>3. workers'[0].ba_pcm = workers[0].ba_pcm /\ slot' = slot
    BY <1>1, WorkerSlot DEF WorkerLeaves, HasWorker, Live
  <2>4. Playing' = Playing
    BY <2>2, <2>3 DEF Playing
  <2>5. CASE halStreams' = halStreams
    BY <2>4, <2>5
  <2>6. CASE halStreams = 0 /\ halStreams' = 1
    <3>1. Output!Open
      BY <1>2, <2>4, <2>6 DEF Output!Open, Playing
    <3> QED
      BY <3>1 DEF Output!Next
  <2>7. CASE halStreams = 1 /\ halStreams' = 0
    <3>1. Output!Close
      BY <2>4, <2>7 DEF Output!Close, Playing
    <3> QED
      BY <3>1 DEF Output!Next
  <2> QED
    BY <1>3, <2>5, <2>6, <2>7
<1> QED
  BY <1>4, <1>5

LEMMA SpeakerStep ==
  ASSUME IInv, IInv', [Next]_vars
  PROVE  [Output!Next]_<<Playing, halStreams>>
<1>1. CASE BlueAlsa
  BY <1>1, EnvFrame, NobodyStarts DEF Live
<1>2. CASE Main
  BY <1>2, MainFrame, NobodyStarts DEF IInv, Live
<1>3. CASE Supervisor
  BY <1>3, SpeakerSupervisor
<1>4. ASSUME NEW t \in Threads, pcm_worker_routine(t)
      PROVE  [Output!Next]_<<Playing, halStreams>>
  BY <1>4, SpeakerWorker
<1>5. CASE UNCHANGED vars
  BY <1>5, NobodyStarts DEF vars, array, threads, hal, Live
<1> QED
  BY <1>1, <1>2, <1>3, <1>4, <1>5 DEF Next, Program, WorkerThreads

\* For any PCMs and threads and any changes, the workers use the HAL as one player at
\* a time: a worker starts when the last has ended with its stream closed, and keeps the
\* PCM it was started for.
THEOREM OnePlayerAtATime == Spec => ImplementsSpeaker
<1>1. Init => Output!Init
  BY NoPlayer DEF Init, Output!Init, Live, Playing
<1>2. IInv /\ IInv' /\ [Next]_vars => [Output!Next]_<<Playing, halStreams>>
  BY SpeakerStep
<1> QED
  BY <1>1, <1>2, Invariant, PTL DEF Spec, ImplementsSpeaker, Output!Spec, Output!vars, Playing
-----------------------------------------------------------------------------
(* No thread is stuck *)

\* The guards of what a worker can do without an I/O error, by its label.
WorkerWayOn(t) ==
  \/ pc[t] = "bluealsa_dbus_pcm_open" /\ exported[PathOf(t)] # Gone
  \/ pc[t] = "bluealsa_dbus_pcm_open" /\ exported[PathOf(t)] = Gone
  \/ pc[t] = "poll" /\ t \in cancelled
  \/ Polls(t) /\ HungUp(t)
  \/ Polls(t) /\ ~ HungUp(t)
  \/ pc[t] \in {"open_output_stream", "write"} /\ device = "loaded"
  \/ pc[t] \in {"open_output_stream", "write"} /\ device # "loaded"   \* the process dies
  \/ pc[t] = "exit" /\ CanClose
  \/ pc[t] = "exit" /\ ~ CanClose                                     \* the process dies

\* The guards of what supervise_pcm_worker can do while an allocation still succeeds.
\* Threads has room for a worker that is to be created, if it has any.
SupervisorWayOn ==
  \/ Scanning("start") /\ InUse
  \/ Scanning("stop") /\ InUse
  \/ sup # NoSup /\ sup.joining /\ pc[workers[sup.i].thread] = "dead"
  \/ ScanDone /\ sup.op = "stop"
  \/ ScanDone /\ sup.op = "start" /\ \A t \in Threads : pc[t] = "none"

\* The loop of main() has something to do: it goes on to poll() or to the end, comes
\* out of poll(), takes a signal or finds none to take.
MainWayOn ==
  \/ Looping("top")
  \/ Looping("poll") /\ unread > 0
  \/ Looping("dispatch") /\ Len(bus) > unread /\ Head(bus).kind \in Kinds
  \/ Looping("dispatch") /\ Len(bus) = unread

NotStuck ==
  /\ \A t \in Threads : Live(t) => WorkerWayOn(t)
  /\ sup # NoSup => SupervisorWayOn \/ (sup.joining /\ Live(workers[sup.i].thread))

\* Where a guard is true its action has a step that changes something.  That is plain
\* from the actions, each of which is a guard and an assignment to every variable.
GuardsSuffice ==
  crashed = "no" =>
    /\ \A t \in Threads :
         WorkerWayOn(t) => ENABLED <<crashed = "no" /\ WorkerThreads>>_vars
    /\ SupervisorWayOn \/ MainWayOn =>
         ENABLED <<crashed = "no" /\ (Supervisor \/ MainThread)>>_vars

LEMMA WorkerHasAWayOn ==
  ASSUME IInv, NEW t \in Threads, Live(t)
  PROVE  WorkerWayOn(t)
<1>1. pc[t] \in Labels \ {"none", "dead"}
  BY DEF IInv, TypeOK, Live
<1> QED
  BY <1>1 DEF Labels, WorkerWayOn, Polls

\* The thread that is joined was created and has not been joined before: it is alive,
\* or dead and waiting for the join.  A scan that reaches its end to start a worker has
\* left none behind.
LEMMA SupervisorHasAWayOn ==
  ASSUME IInv, sup # NoSup
  PROVE  SupervisorWayOn \/ (sup.joining /\ Live(workers[sup.i].thread))
<1>1. sup \in Sups
  BY SupType DEF IInv
<1>2. CASE sup.joining
  <2>1. sup.i = 0 /\ HasWorker /\ pc[workers[0].thread] # "none"
    BY <1>2 DEF IInv, ArrayInv
  <2> QED
    BY <1>2, <2>1 DEF SupervisorWayOn, Live
<1>3. CASE ~ sup.joining /\ InUse
  BY <1>1, <1>3 DEF Sups, SupervisorWayOn, Scanning
<1>4. CASE ~ sup.joining /\ ~ InUse
  <2>1. sup.op = "start" => workers_count = 0
    BY <1>4 DEF IInv, ArrayInv, InUse
  <2>2. sup.op = "start" => \A t \in Threads : pc[t] = "none"
    BY <2>1 DEF IInv, ArrayInv, HasWorker
  <2> QED
    BY <1>1, <1>4, <2>2 DEF Sups, SupervisorWayOn, ScanDone
<1> QED
  BY <1>2, <1>3, <1>4

\* A worker has a branch for whatever device, stream and connection are like; and
\* supervise_pcm_worker waits for nothing but a thread that is alive, never for one that
\* it has joined before or that was not created.
THEOREM NobodyIsStuck == Spec => []NotStuck
<1>1. IInv => NotStuck
  BY WorkerHasAWayOn, SupervisorHasAWayOn DEF NotStuck
<1> QED
  BY <1>1, Invariant, PTL

\* Hence no thread is ever stuck, if a true guard is all that an action of its needs.
THEOREM ThreadsCanGoOn == Spec /\ []GuardsSuffice => []ThreadsGoOn
<1>1. IInv /\ GuardsSuffice => ThreadsGoOn
  <2> SUFFICES ASSUME IInv, GuardsSuffice, crashed = "no"
               PROVE  /\ \A t \in Threads :
                           Live(t) => ENABLED <<crashed = "no" /\ WorkerThreads>>_vars
                      /\ sup # NoSup =>
                           \/ ENABLED <<crashed = "no" /\ (Supervisor \/ MainThread)>>_vars
                           \/ sup.joining /\ Live(workers[sup.i].thread)
    BY DEF ThreadsGoOn
  <2>1. ASSUME NEW t \in Threads, Live(t)
        PROVE  ENABLED <<crashed = "no" /\ WorkerThreads>>_vars
    BY <2>1, WorkerHasAWayOn DEF GuardsSuffice
  <2>2. ASSUME sup # NoSup
        PROVE  \/ ENABLED <<crashed = "no" /\ (Supervisor \/ MainThread)>>_vars
               \/ sup.joining /\ Live(workers[sup.i].thread)
    BY <2>2, SupervisorHasAWayOn DEF GuardsSuffice
  <2> QED
    BY <2>1, <2>2
<1> QED
  BY <1>1, Invariant, PTL
-----------------------------------------------------------------------------
(* pthread_join returns *)

Waits     == sup # NoSup /\ sup.joining
JoinedNow == workers[0].thread

\* The thread that is waited for has been told to end.
JoinInv == Waits => JoinedNow \in cancelled

LEMMA JoinInvStep ==
  ASSUME IInv, JoinInv, [Next]_vars
  PROVE  JoinInv'
<1> USE DEF IInv, JoinInv, Waits, JoinedNow
<1>1. CASE BlueAlsa
  BY <1>1, EnvFrame
<1>2. CASE Main
  BY <1>2, MainFrame DEF Supervised
<1>3. CASE JoinWorker
  BY <1>3, JoinStep DEF Joined
<1>4. ASSUME StopWorker, sup.i \in DOMAIN workers, InUse PROVE JoinInv'
  <2>1. sup.i = 0
    BY <1>4 DEF InUse, ArrayInv, NoSup, TypeOK
  <2> QED
    BY <1>4, <2>1 DEF StopWorker, array
<1>5. ASSUME sup # NoSup, sup' = NoSup \/ sup' = [sup EXCEPT !.i = @ + 1], ~ sup.joining
      PROVE  JoinInv'
  <2>1. sup' = NoSup \/ sup'.joining = sup.joining
    BY <1>5, SupType DEF Sups
  <2> QED
    BY <1>5, <2>1
<1>6. CASE Supervisor /\ ~ JoinWorker
  BY <1>4, <1>5, <1>6
  DEF Supervisor, ScanOutOfBounds, ScanForStart, WorkerExists, ScanForStop, FinishStop,
      CreateFails, GrowFails, CreateWorker, Scanning, ScanDone, Crash, main, array, threads,
      NoSup
<1>7. ASSUME NEW t \in Threads, pcm_worker_routine(t) PROVE JoinInv'
  BY <1>7, WorkerFrame DEF WorkerLeaves, ArrayInv, HasWorker
<1>8. CASE UNCHANGED vars
  BY <1>8 DEF vars, main, array, threads
<1> QED
  BY <1>1, <1>2, <1>3, <1>6, <1>7, <1>8 DEF Next, Program, WorkerThreads

\* Steps of supervise_pcm_worker and of the thread it waits for, at most: a scan that
\* finds the worker, its way through open, write, poll and exit, the join, the end of
\* the scan.
Rank ==
  IF ~ Waits THEN IF sup.i = 0 /\ InUse THEN 7 ELSE 1
  ELSE CASE pc[JoinedNow] \in {"bluealsa_dbus_pcm_open", "open_output_stream"} -> 6
         [] pc[JoinedNow] = "write" -> 5
         [] pc[JoinedNow] = "poll"  -> 4
         [] pc[JoinedNow] = "exit"  -> 3
         [] OTHER -> 2

Over == sup = NoSup \/ crashed # "no"

\* In which states who has to act.
MainsTurn == ~ Waits \/ pc[JoinedNow] = "dead"

LEMMA WaitsForLabel ==
  ASSUME IInv, Waits
  PROVE  JoinedNow \in Threads /\ pc[JoinedNow] \in Labels \ {"none"} /\ sup.i = 0 /\ HasWorker
<1>1. HasWorker /\ sup.i = 0
  BY DEF IInv, ArrayInv, Waits
<1>2. workers[0] \in Workers
  BY <1>1, ArrayType DEF IInv, HasWorker
<1> QED
  BY <1>1, <1>2 DEF IInv, ArrayInv, TypeOK, Workers, JoinedNow

LEMMA RankOfTurn ==
  ASSUME IInv, sup # NoSup
  PROVE  Rank \in 1 .. 7 /\ (MainsTurn <=> Rank \in {1, 2, 7})
  BY WaitsForLabel DEF Rank, MainsTurn, Labels

\* The main thread moves a call on; nobody else can while it is its turn.
LEMMA MainMoves ==
  ASSUME IInv, sup # NoSup, Supervisor
  PROVE  MainsTurn /\ (Over' \/ Rank' < Rank)
<1> USE DEF IInv, MainsTurn, Waits
<1>1. CASE ScanOutOfBounds
  BY <1>1 DEF ScanOutOfBounds, Crash, Over
<1>2. CASE WorkerExists \/ FinishStop \/ CreateFails \/ GrowFails
  BY <1>2 DEF WorkerExists, FinishStop, CreateFails, GrowFails, Scanning, ScanDone, Over
<1>3. ASSUME NEW t \in Threads, CreateWorker(t) PROVE MainsTurn /\ Over'
  BY <1>3 DEF CreateWorker, ScanDone, Over
<1>4. ASSUME StopWorker, ~ sup.joining, InUse
      PROVE  MainsTurn /\ Rank' < Rank
  <2>1. sup.i = 0 /\ sup \in Sups
    BY <1>4, SupType DEF InUse, ArrayInv, Sups, NoSup
  <2>2. Rank = 7
    BY <1>4, <2>1 DEF Rank
  <2>3. sup'.joining /\ sup' # NoSup
    BY <1>4, <2>1 DEF StopWorker, Sups, NoSup
  <2>4. Rank' \in {2, 3, 4, 5, 6}
    BY <2>3 DEF Rank
  <2> QED
    BY <1>4, <2>2, <2>4
<1>5. CASE ScanForStart
  BY <1>4, <1>5 DEF ScanForStart, Scanning
<1>6. CASE ScanForStop
  <2>1. CASE SamePath
    BY <1>4, <1>6, <2>1 DEF ScanForStop, Scanning
  <2>2. CASE ~ SamePath
    <3>1. sup.i = 0 /\ sup \in Sups /\ ~ sup.joining /\ InUse /\ workers_count = 1
      BY <1>6, SupType DEF ScanForStop, Scanning, InUse, ArrayInv, NoSup, Sups
    <3>2. sup' = [sup EXCEPT !.i = @ + 1] /\ UNCHANGED array
      BY <1>6, <2>2 DEF ScanForStop
    <3>3. ~ sup'.joining /\ sup'.i = 1
      BY <3>1, <3>2 DEF Sups
    <3>4. Rank = 7 /\ Rank' = 1
      BY <3>1, <3>3 DEF Rank
    <3> QED
      BY <3>1, <3>4
  <2> QED
    BY <2>1, <2>2
<1>7. CASE JoinWorker
  <2>1. Joined
    BY <1>7, JoinStep
  <2>2. Rank = 2 /\ Rank' = 1
    BY <2>1 DEF Joined, Rank, JoinedNow
  <2> QED
    BY <2>1, <2>2 DEF Joined, JoinedNow
<1> QED
  BY <1>1, <1>2, <1>3, <1>5, <1>6, <1>7 DEF Supervisor

\* A cancelled worker cannot poll again: each of its steps brings it nearer to its end.
LEMMA WorkerMoves ==
  ASSUME IInv, JoinInv, Waits, NEW t \in Threads, pcm_worker_routine(t)
  PROVE  Over' \/ Rank' < Rank
<1>f. /\ WorkerLeaves(t) /\ t = JoinedNow /\ t \in cancelled
      /\ Waits' /\ JoinedNow' = t
  BY WorkerFrame, WaitsForLabel
  DEF IInv, JoinInv, Waits, JoinedNow, WorkerLeaves, ArrayInv, HasWorker
<1>g. ASSUME NEW l, Goto(t, l) PROVE pc'[t] = l
  BY <1>g DEF Goto, IInv, TypeOK
<1>1. ASSUME NEW l \in Labels, Goto(t, l),
             \/ pc[t] \in {"bluealsa_dbus_pcm_open", "open_output_stream"}
                /\ l \in {"write", "poll", "exit"}
             \/ pc[t] = "write" /\ l \in {"poll", "exit"}
             \/ pc[t] = "poll" /\ l = "exit"
             \/ pc[t] = "exit" /\ l = "dead"
      PROVE  Rank' < Rank
  BY <1>1, <1>f, <1>g DEF Rank
<1>l. /\ "poll" \in Labels /\ "write" \in Labels /\ "exit" \in Labels /\ "dead" \in Labels
  BY DEF Labels
<1>2. CASE PcmOpen(t) \/ PcmOpenFails(t)
  BY <1>2, <1>1, <1>l DEF PcmOpen, PcmOpenFails
<1>3. CASE Cancelled(t)
  BY <1>3, <1>1, <1>l DEF Cancelled
<1>4. CASE PollTimeout(t) \/ PollEnds(t) \/ PollFails(t) \/ ReadAudio(t)
  BY <1>4, <1>f DEF PollTimeout, PollEnds, PollFails, ReadAudio, Polls
<1>5. CASE OpenStream(t) \/ OpenStreamFails(t)
  BY <1>5, <1>1, <1>l DEF OpenStream, OpenStreamFails
<1>6. CASE WriteAudio(t) \/ WriteFails(t)
  BY <1>6, <1>1, <1>l DEF WriteAudio, WriteFails
<1>7. CASE ExitWorker(t)
  BY <1>7, <1>1, <1>l DEF ExitWorker
<1>8. CASE OpenWithoutDevice(t) \/ WriteWithoutStream(t) \/ WriteWithoutDevice(t)
           \/ CloseWithoutDevice(t)
  BY <1>8 DEF OpenWithoutDevice, WriteWithoutStream, WriteWithoutDevice, CloseWithoutDevice,
              Crash, Over
<1> QED
  BY <1>2, <1>3, <1>4, <1>5, <1>6, <1>7, <1>8 DEF pcm_worker_routine

\* Nothing takes a call back.
LEMMA NobodyHinders ==
  ASSUME IInv, JoinInv, sup # NoSup, [Next]_vars
  PROVE  Over' \/ (sup' # NoSup /\ (Rank' = Rank \/ Rank' < Rank))
<1> USE DEF IInv
<1>1. CASE BlueAlsa
  BY <1>1, EnvFrame DEF Rank, Waits, JoinedNow, InUse
<1>2. CASE Main
  BY <1>2, MainFrame DEF Rank, Waits, JoinedNow, InUse
<1>3. CASE Supervisor
  BY <1>3, MainMoves DEF Over
<1>4. ASSUME NEW t \in Threads, pcm_worker_routine(t)
      PROVE  Over' \/ (sup' # NoSup /\ (Rank' = Rank \/ Rank' < Rank))
  <2>1. WorkerLeaves(t)
    BY <1>4, WorkerFrame
  <2>2. CASE Waits
    BY <1>4, <2>1, <2>2, WorkerMoves DEF WorkerLeaves
  <2>3. CASE ~ Waits
    BY <2>1, <2>3 DEF WorkerLeaves, Rank, Waits, InUse
  <2> QED
    BY <2>2, <2>3
<1>5. CASE UNCHANGED vars
  BY <1>5 DEF vars, main, array, threads, Rank, Waits, JoinedNow, InUse
<1> QED
  BY <1>1, <1>2, <1>3, <1>4, <1>5 DEF Next, Program, WorkerThreads

\* From some time on, or always: the process lives, and the scheduler runs both the main
\* thread and the workers.
Steady ==
  /\ [](IInv /\ JoinInv /\ GuardsSuffice /\ crashed = "no")
  /\ [][Next]_vars
  /\ WF_vars(crashed = "no" /\ (Supervisor \/ MainThread))
  /\ WF_vars(crashed = "no" /\ WorkerThreads)

Within(n) == sup # NoSup /\ Rank <= n

Nears(m, n) == Steady => (Within(m) ~> sup = NoSup \/ Within(n))

\* What is left of the rank after any step, and after one that brings the call nearer.
LEMMA RankAfter ==
  ASSUME IInv, JoinInv, crashed = "no", crashed' = "no", sup # NoSup, [Next]_vars,
         NEW m \in Nat, NEW n \in Nat, m = n + 1, Rank <= m
  PROVE  /\ sup' = NoSup \/ Within(m)'
         /\ Over' \/ Rank' < Rank => sup' = NoSup \/ Within(n)'
<1> DEFINE r == Rank
           s == Rank'
<1>1. r \in 1 .. 7
  BY RankOfTurn
<1>2. IInv'
  BY NextInv
<1>3. CASE sup' = NoSup
  BY <1>3
<1>4. CASE sup' # NoSup
  <2>1. s \in 1 .. 7
    BY <1>2, <1>4, WaitsForLabel DEF Rank, Labels
  <2>2. s = r \/ s < r
    BY <1>4, NobodyHinders DEF Over
  <2>3. Over' => sup' = NoSup
    BY DEF Over
  <2>4. r <= m
    OBVIOUS
  <2> HIDE DEF r, s
  <2>5. s <= m /\ (s < r => s <= n)
    BY <1>1, <2>1, <2>2, <2>4
  <2> QED
    BY <1>4, <2>3, <2>5 DEF r, s, Within
<1> QED
  BY <1>3, <1>4

\* The main thread is the one to move the call on.
LEMMA MainNears ==
  ASSUME NEW m \in {1, 2, 7}, NEW n \in Nat, m = n + 1
  PROVE  Nears(m, n)
<1>m. m \in Nat
  OBVIOUS
<1>1. IInv /\ JoinInv /\ crashed = "no" /\ (crashed = "no")' /\ Within(m) /\ [Next]_vars
        => (sup = NoSup)' \/ Within(m)'
  BY <1>m, RankAfter DEF Within
<1>2. IInv /\ JoinInv /\ crashed = "no" /\ (crashed = "no")' /\ Within(m)
        /\ <<crashed = "no" /\ (Supervisor \/ MainThread)>>_vars
          => (sup = NoSup)' \/ Within(n)'
  <2> SUFFICES ASSUME IInv, JoinInv, crashed = "no", (crashed = "no")', Within(m),
                      Supervisor \/ MainThread
               PROVE  (sup = NoSup)' \/ Within(n)'
    OBVIOUS
  <2>1. ~ MainThread
    BY LoopFrame, MatchFrame, DispatchFrame
    DEF Within, MainThread, ListPcms, SuperviseNext, LoadDevice, HandleAdded, AddedFails,
        HandleRemoved, HandleProps, UnloadDevice, Looping, IInv, ArrayInv
  <2>2. Over' \/ Rank' < Rank
    BY <2>1, MainMoves DEF Within
  <2>3. Next
    BY DEF Next, Program, Main
  <2> QED
    BY <1>m, <2>2, <2>3, RankAfter DEF Within
<1>3. IInv /\ GuardsSuffice /\ crashed = "no" /\ Within(m) /\ ~ Within(n)
        => ENABLED <<crashed = "no" /\ (Supervisor \/ MainThread)>>_vars
  <2> SUFFICES ASSUME IInv, GuardsSuffice, crashed = "no", Within(m), ~ Within(n)
               PROVE  ENABLED <<crashed = "no" /\ (Supervisor \/ MainThread)>>_vars
    OBVIOUS
  <2>1. Rank = m /\ sup # NoSup
    BY RankOfTurn DEF Within
  <2>2. MainsTurn
    BY <2>1, RankOfTurn
  <2>3. ~ (sup.joining /\ Live(workers[sup.i].thread))
    BY <2>1, <2>2, WaitsForLabel DEF MainsTurn, Waits, JoinedNow, Live
  <2> QED
    BY <2>1, <2>3, SupervisorHasAWayOn DEF GuardsSuffice
<1> QED
  BY <1>1, <1>2, <1>3, PTL DEF Nears, Steady

\* The thread that is waited for is the one to move the call on.
LEMMA WorkerNears ==
  ASSUME NEW m \in {3, 4, 5, 6}, NEW n \in Nat, m = n + 1
  PROVE  Nears(m, n)
<1>m. m \in Nat
  OBVIOUS
<1>1. IInv /\ JoinInv /\ crashed = "no" /\ (crashed = "no")' /\ Within(m) /\ [Next]_vars
        => (sup = NoSup)' \/ Within(m)'
  BY <1>m, RankAfter DEF Within
<1>t. ASSUME IInv, Within(m), ~ Within(n)
      PROVE  Waits /\ JoinedNow \in Threads /\ Live(JoinedNow)
  <2>1. Rank = m /\ sup # NoSup
    BY <1>t, RankOfTurn DEF Within
  <2>2. ~ MainsTurn
    BY <1>t, <2>1, RankOfTurn
  <2> QED
    BY <1>t, <2>2, WaitsForLabel DEF MainsTurn, Live
<1>2. IInv /\ JoinInv /\ crashed = "no" /\ (crashed = "no")' /\ Within(m) /\ ~ Within(n)
        /\ <<crashed = "no" /\ WorkerThreads>>_vars
          => (sup = NoSup)' \/ Within(n)'
  <2> SUFFICES ASSUME IInv, JoinInv, crashed = "no", (crashed = "no")', Within(m), ~ Within(n),
                      WorkerThreads
               PROVE  (sup = NoSup)' \/ Within(n)'
    OBVIOUS
  <2>1. Over' \/ Rank' < Rank
    BY <1>t, WorkerMoves DEF WorkerThreads
  <2>2. Next
    BY DEF Next, Program
  <2> QED
    BY <1>m, <2>1, <2>2, RankAfter DEF Within
<1>3. IInv /\ GuardsSuffice /\ crashed = "no" /\ Within(m) /\ ~ Within(n)
        => ENABLED <<crashed = "no" /\ WorkerThreads>>_vars
  BY <1>t, WorkerHasAWayOn DEF GuardsSuffice
<1> QED
  BY <1>1, <1>2, <1>3, PTL DEF Nears, Steady

LEMMA JoinInvariant == Spec => []JoinInv
<1>1. Init => JoinInv
  BY DEF Init, JoinInv, Waits
<1> QED
  BY <1>1, JoinInvStep, Invariant, PTL DEF Spec

\* In seven steps at most.
LEMMA JoinConverges == Steady => (sup # NoSup ~> sup = NoSup)
<1>1. Nears(7, 6) /\ Nears(2, 1) /\ Nears(1, 0)
  BY MainNears
<1>2. Nears(6, 5) /\ Nears(5, 4) /\ Nears(4, 3) /\ Nears(3, 2)
  BY WorkerNears
<1>3. IInv /\ sup # NoSup => Within(7)
  BY RankOfTurn DEF Within
<1>4. IInv => ~ Within(0)
  BY RankOfTurn DEF Within
<1> QED
  BY <1>1, <1>2, <1>3, <1>4, PTL DEF Nears, Steady

\* While the process lives a call of supervise_pcm_worker returns: what it joins is a
\* thread it has cancelled, and from any place of pcm_worker_routine that thread gets to
\* poll() and ends there, or ends on its own.
THEOREM CallsOfSupervisorReturn == FairSpec /\ []GuardsSuffice => JoinsReturn
  BY JoinConverges, Invariant, JoinInvariant, PTL DEF FairSpec, Spec, Steady, JoinsReturn
-----------------------------------------------------------------------------
(* Signals are taken from the queue, unless poll() does not see them *)

Dispatch == HandleAdded \/ AddedFails \/ HandleRemoved \/ HandleProps

Queueing == phase = "loop" /\ bus # <<>>

\* Between two calls of supervise_pcm_worker, a queue that is not stranded: its head has
\* been read; or all of it is in the socket, with poll() still to come; or in poll().
Ready   == Queueing /\ sup = NoSup /\ at = "dispatch" /\ Len(bus) > unread
AtEnd   == Queueing /\ sup = NoSup /\ at = "dispatch" /\ Len(bus) = unread
AtTop   == Queueing /\ sup = NoSup /\ at = "top"
Polling == Queueing /\ sup = NoSup /\ at = "poll" /\ unread > 0

LEMMA QueueType ==
  ASSUME IInv
  PROVE  /\ bus \in Seq(Signals) /\ Len(bus) \in Nat /\ unread \in 0 .. Len(bus)
         /\ bus # <<>> => Len(bus) > 0
         /\ at \in {"top", "poll", "dispatch"}
  BY DEF IInv, TypeOK

\* What the main thread can do while the loop is not to end.
LEMMA LoopSteps ==
  ASSUME IInv, Queueing, main_loop_on, Supervisor \/ MainThread
  PROVE  \/ Supervisor /\ sup # NoSup
         \/ Dispatch /\ sup = NoSup /\ at = "dispatch" /\ Len(bus) > unread
         \/ EnterPoll \/ PollReturns \/ DispatchEnds
<1>1. CASE Supervisor
  BY <1>1, SupervisorFrame DEF SupervisorLeaves
<1>2. CASE Dispatch
  BY <1>2, DispatchFrame
  DEF Dispatch, HandleAdded, AddedFails, HandleRemoved, HandleProps, IInv
<1>3. CASE MainThread /\ ~ Dispatch
  BY <1>3, MatchFrame
  DEF MainThread, Dispatch, ListPcms, SuperviseNext, LoadDevice, UnloadDevice, Queueing
<1> QED
  BY <1>1, <1>2, <1>3

\* What the queue looks like after a step of anyone else.
LEMMA OthersQueue ==
  ASSUME IInv, Queueing, [Next]_vars, ~ Supervisor, ~ MainThread, (main_loop_on)'
  PROVE  /\ phase' = phase /\ sup' = sup
         /\ \/ bus' = bus /\ unread' = unread /\ at' = at
            \/ bus' = bus /\ unread' = 0 /\ (at' = at \/ (at = "poll" /\ at' = "dispatch"))
            \/ Len(bus') = Len(bus) + 1 /\ unread' = unread + 1 /\ at' = at
         /\ bus' # <<>>
<1>1. CASE BlueAlsa
  <2>1. phase' = phase /\ sup' = sup /\ at' = at
    BY <1>1, EnvFrame
  <2>2. \/ bus' = bus /\ unread' = unread
        \/ Len(bus') = Len(bus) + 1 /\ unread' = unread + 1
    <3>1. ASSUME NEW k, NEW p, NEW g, Emit(k, p, g)
          PROVE  \/ bus' = bus /\ unread' = unread
                 \/ Len(bus') = Len(bus) + 1 /\ unread' = unread + 1
      <4>1. CASE Subscribed(k)
        <5> DEFINE sig == [kind |-> k, pcm |-> [pcm_path |-> p, format |-> g]]
        <5>1. bus' = Append(bus, sig) /\ unread' = unread + 1
          BY <3>1, <4>1 DEF Emit
        <5> HIDE DEF sig
        <5>2. Len(bus') = Len(bus) + 1
          BY <5>1, QueueType
        <5> QED
          BY <5>1, <5>2
      <4>2. CASE ~ Subscribed(k)
        BY <3>1, <4>2 DEF Emit
      <4> QED
        BY <4>1, <4>2
    <3>2. (\E k, p, g : Emit(k, p, g)) \/ UNCHANGED <<bus, unread>>
      BY <1>1 DEF BlueAlsa, Withdraw, Export, ChangeCodec, ServiceDies
    <3> QED
      BY <3>1, <3>2
  <2>3. bus' # <<>>
    BY <2>2, QueueType DEF Queueing
  <2> QED
    BY <2>1, <2>2, <2>3
<1>2. ~ Terminate
  BY DEF Terminate
<1>3. ASSUME NEW t \in Threads, pcm_worker_routine(t)
      PROVE  /\ phase' = phase /\ sup' = sup /\ bus' = bus
             /\ \/ unread' = unread /\ at' = at
                \/ unread' = 0 /\ (at' = at \/ (at = "poll" /\ at' = "dispatch"))
  <2>1. phase' = phase /\ sup' = sup /\ bus' = bus
    BY <1>3, WorkerFrame DEF IInv, WorkerLeaves
  <2>2. CASE ReadsAhead
    BY <2>1, <2>2, QueueType DEF ReadsAhead
  <2>3. CASE UNCHANGED sock
    BY <2>1, <2>3 DEF sock
  <2> QED
    BY <1>3, <2>2, <2>3, WorkerSock
<1>4. CASE UNCHANGED vars
  BY <1>4 DEF vars, main, sock, Queueing
<1> QED
  BY <1>1, <1>2, <1>3, <1>4 DEF Next, Program, Main, WorkerThreads, Queueing

\* Nobody else takes a signal or ends the loop.
LEMMA QueueStays ==
  ASSUME IInv, Queueing, main_loop_on, (main_loop_on)', [Next]_vars
  PROVE  Dispatch \/ (Queueing' /\ (sup = NoSup => sup' = NoSup))
<1>1. CASE Supervisor \/ MainThread
  <2>1. CASE Supervisor /\ sup # NoSup
    BY <2>1, SupervisorFrame DEF SupervisorLeaves, Queueing
  <2>2. CASE EnterPoll \/ PollReturns \/ DispatchEnds
    BY <2>2, LoopFrame DEF Queueing
  <2> QED
    BY <1>1, <2>1, <2>2, LoopSteps
<1>2. CASE ~ (Supervisor \/ MainThread)
  BY <1>2, OthersQueue DEF Queueing
<1> QED
  BY <1>1, <1>2

\* A step of the main thread brings the queue on.
LEMMA ThreadSteps ==
  ASSUME IInv, Queueing, main_loop_on, Supervisor \/ MainThread
  PROVE  /\ Ready => Dispatch
         /\ AtEnd => AtTop'
         /\ AtTop => Polling' \/ Stranded'
         /\ Polling => Ready'
<1>1. CASE Supervisor /\ sup # NoSup
  BY <1>1 DEF Ready, AtEnd, AtTop, Polling
<1>2. CASE Dispatch /\ sup = NoSup /\ at = "dispatch" /\ Len(bus) > unread
  BY <1>2, QueueType DEF AtEnd, AtTop, Polling
<1>3. CASE EnterPoll
  <2>1. /\ at = "top" /\ at' = "poll" /\ unread' = unread /\ sup = NoSup
        /\ phase' = phase /\ bus' = bus /\ sup' = sup
    BY <1>3, LoopFrame DEF EnterPoll, Looping
  <2> QED
    BY <2>1, QueueType DEF Queueing, Ready, AtEnd, AtTop, Polling, Stranded
<1>4. CASE PollReturns
  <2>1. /\ at = "poll" /\ at' = "dispatch" /\ unread' = 0 /\ sup = NoSup
        /\ phase' = phase /\ bus' = bus /\ sup' = sup
    BY <1>4, LoopFrame DEF PollReturns, Looping
  <2> QED
    BY <2>1, QueueType DEF Queueing, Ready, AtEnd, AtTop, Polling
<1>5. CASE DispatchEnds
  <2>1. /\ at = "dispatch" /\ at' = "top" /\ Len(bus) = unread /\ sup = NoSup
        /\ phase' = phase /\ bus' = bus /\ sup' = sup
    BY <1>5, LoopFrame DEF DispatchEnds, Looping
  <2> QED
    BY <2>1, QueueType DEF Queueing, Ready, AtEnd, AtTop, Polling
<1> QED
  BY <1>1, <1>2, <1>3, <1>4, <1>5, LoopSteps

LEMMA PollingStep ==
  ASSUME IInv, Queueing, main_loop_on, (main_loop_on)', [Next]_vars
  PROVE  /\ Ready => Dispatch \/ Ready'
         /\ AtEnd => AtEnd' \/ Ready' \/ AtTop'
         /\ AtTop => AtTop' \/ Polling' \/ Stranded'
         /\ Polling => Polling' \/ Ready' \/ Stranded'
<1>1. CASE Supervisor \/ MainThread
  BY <1>1, ThreadSteps
<1>2. CASE ~ (Supervisor \/ MainThread)
  <2>0. Len(bus) \in Nat /\ unread \in 0 .. Len(bus) /\ Len(bus) > 0
    BY QueueType DEF Queueing
  <2>1. /\ phase' = phase /\ sup' = sup
        /\ \/ bus' = bus /\ unread' = unread /\ at' = at
           \/ bus' = bus /\ unread' = 0 /\ (at' = at \/ (at = "poll" /\ at' = "dispatch"))
           \/ Len(bus') = Len(bus) + 1 /\ unread' = unread + 1 /\ at' = at
        /\ bus' # <<>>
    BY <1>2, OthersQueue
  <2>2. /\ Queueing' /\ (sup = NoSup => sup' = NoSup)
        /\ unread' \in Nat /\ Len(bus') \in Nat /\ Len(bus') > 0
        /\ at # "poll" => at' = at
    BY <2>0, <2>1 DEF Queueing
  <2>3. /\ Len(bus) > unread => Len(bus') > unread'
        /\ Len(bus) = unread => Len(bus') >= unread'
    BY <2>0, <2>1
  <2>4. Ready => Ready'
    BY <2>2, <2>3 DEF Ready
  <2>5. AtEnd => AtEnd' \/ Ready'
    BY <2>2, <2>3 DEF AtEnd, Ready
  <2>6. AtTop => AtTop'
    BY <2>2 DEF AtTop
  <2>7. Polling => Polling' \/ Ready' \/ Stranded'
    <3>1. CASE at' = "dispatch" /\ at = "poll"
      <4>1. unread' = 0
        BY <2>1, <3>1
      <4> QED
        BY <2>2, <3>1, <4>1 DEF Polling, Ready
    <3>2. CASE at' = "poll" /\ unread' = 0
      BY <2>2, <3>2 DEF Stranded, Queueing
    <3>3. CASE at' = "poll" /\ unread' # 0
      BY <2>2, <3>3 DEF Polling
    <3> QED
      BY <2>1, <3>1, <3>2, <3>3 DEF Polling
  <2> QED
    BY <2>4, <2>5, <2>6, <2>7
<1> QED
  BY <1>1, <1>2

LEMMA LoopWayOn ==
  ASSUME IInv, Queueing, sup = NoSup, ~ Stranded
  PROVE  MainWayOn
<1>1. bus[1] \in Signals /\ Head(bus) = bus[1]
  BY QueueType DEF Queueing
<1>2. Head(bus).kind \in Kinds
  BY <1>1 DEF Signals, Kinds
<1> QED
  BY <1>2, QueueType DEF Queueing, Stranded, MainWayOn, Looping

\* While the process lives and nobody ends it, a signal that is queued is taken by the
\* loop: each call of supervise_pcm_worker, join included, comes back to the dispatcher;
\* unless a worker's pcm_open or get_pcms has read the queue before poll() looks.
THEOREM SignalsAreTaken ==
  FairSpec /\ []GuardsSuffice /\ [](crashed = "no" /\ main_loop_on)
    => [](phase = "loop" /\ bus # <<>> => <><<Dispatch>>_vars \/ <>Stranded)
<1>0. IInv /\ Queueing /\ Dispatch => <<Dispatch>>_vars
  <2> SUFFICES ASSUME IInv, Queueing, Dispatch, vars' = vars
               PROVE  FALSE
    OBVIOUS
  <2>1. bus # <<>> /\ bus \in Seq(Signals) /\ bus' = Tail(bus) /\ bus' = bus
    BY DispatchFrame
    DEF Dispatch, HandleAdded, AddedFails, HandleRemoved, HandleProps, IInv, TypeOK, vars
  <2> QED
    BY <2>1
<1>p. Ready \/ AtEnd \/ AtTop \/ Polling => Queueing /\ (sup = NoSup)
  BY DEF Ready, AtEnd, AtTop, Polling
<1>1. IInv /\ Queueing /\ main_loop_on /\ (main_loop_on)' /\ [Next]_vars
        => <<Dispatch>>_vars \/ (Queueing' /\ (sup = NoSup => (sup = NoSup)'))
  BY <1>0, QueueStays
<1>2. /\ IInv /\ Ready /\ main_loop_on /\ (main_loop_on)' /\ [Next]_vars
           => <<Dispatch>>_vars \/ Ready'
      /\ IInv /\ AtEnd /\ main_loop_on /\ (main_loop_on)' /\ [Next]_vars
           => AtEnd' \/ Ready' \/ AtTop'
      /\ IInv /\ AtTop /\ main_loop_on /\ (main_loop_on)' /\ [Next]_vars
           => AtTop' \/ Polling' \/ Stranded'
      /\ IInv /\ Polling /\ main_loop_on /\ (main_loop_on)' /\ [Next]_vars
           => Polling' \/ Ready' \/ Stranded'
  BY <1>0, <1>p, PollingStep
<1>3. /\ IInv /\ Ready /\ main_loop_on /\ <<crashed = "no" /\ (Supervisor \/ MainThread)>>_vars
           => <<Dispatch>>_vars
      /\ IInv /\ AtEnd /\ main_loop_on /\ <<crashed = "no" /\ (Supervisor \/ MainThread)>>_vars
           => AtTop'
      /\ IInv /\ AtTop /\ main_loop_on /\ <<crashed = "no" /\ (Supervisor \/ MainThread)>>_vars
           => Polling' \/ Stranded'
      /\ IInv /\ Polling /\ main_loop_on /\ <<crashed = "no" /\ (Supervisor \/ MainThread)>>_vars
           => Ready'
  BY <1>0, <1>p, ThreadSteps
<1>4. IInv /\ Queueing /\ (sup = NoSup) /\ ~ Stranded /\ crashed = "no" /\ GuardsSuffice
        => ENABLED <<crashed = "no" /\ (Supervisor \/ MainThread)>>_vars
  BY LoopWayOn DEF GuardsSuffice
<1>5. /\ Queueing <=> phase = "loop" /\ bus # <<>>
      /\ sup # NoSup <=> ~ (sup = NoSup)
      /\ IInv /\ Queueing /\ (sup = NoSup) => Ready \/ AtEnd \/ AtTop \/ Polling \/ Stranded
  <2>1. ASSUME IInv, Queueing, sup = NoSup
        PROVE  Ready \/ AtEnd \/ AtTop \/ Polling \/ Stranded
    BY <2>1, QueueType DEF Queueing, Ready, AtEnd, AtTop, Polling, Stranded
  <2> QED
    BY <2>1 DEF Queueing
<1> QED
  BY <1>p, <1>1, <1>2, <1>3, <1>4, <1>5, JoinConverges, Invariant, JoinInvariant, PTL
  DEF FairSpec, Spec, Steady
=============================================================================
