------------------------------ MODULE OutputUnit ------------------------------
(***************************************************************************)
(* The life of one output unit of audio_hal.c: the calls FMOD makes on it  *)
(* (t_start, t_stop, t_uninit, t_dispose, unit_set), the render threads    *)
(* those calls create and join, the IOProc they register with Darling's    *)
(* device, and the host's FIFO.  What the threads do to the ring is        *)
(* AudioRing's subject; here a thread is only where it may wait and when   *)
(* it looks at `producing`.                                                *)
(*                                                                         *)
(* FMOD makes one call at a time.  A call is several steps, because the    *)
(* threads, the device and the host run meanwhile; a call of the system    *)
(* that can fail may.                                                      *)
(***************************************************************************)
EXTENDS Naturals, FiniteSets

CONSTANTS
    Threads,     \* the threads the process may create
    Procs,       \* the IOProc registrations the device may hand out
    Devices,     \* output devices FMOD may select
    None,        \* no thread, no IOProc
    PipeSize     \* blocks the host's FIFO holds

ASSUME UnitAssumption ==
    /\ None \notin Threads /\ None \notin Procs
    /\ Devices # {}
    /\ PipeSize \in Nat \ {0}

VARIABLES
    fifo,       \* MACOBLOX_AUDIO_FIFO is set: which of the two paths is used
    unit,       \* the OutputUnit
    call,       \* FMOD's call under way, and how far it is
    threads,    \* where each thread is
    fd,         \* FIFO path: the thread holds the FIFO open
    procs,      \* the device's registrations: the device, and whether it runs
    host,       \* the launcher's HostAudio, reader of the FIFO
    pipe,       \* blocks in the FIFO
    upset       \* observation: what went wrong so far

hostVars == <<host, pipe>>
vars == <<fifo, unit, call, threads, fd, procs, host, pipe, upset>>

Idle == [op |-> "none", at |-> "idle"]

\* A thread that runs (or may run again) and uses the unit's memory.
Live == {t \in Threads : threads[t] \notin {"none", "exited"}}
Started == {p \in Procs : procs[p].started}

Init ==
    /\ fifo \in BOOLEAN
    /\ \E d \in Devices :
         unit = [magic |-> TRUE, device |-> d, output_enabled |-> TRUE, running |-> FALSE,
                 producing |-> FALSE, ioproc |-> None, thread |-> None]
    /\ call = Idle
    /\ threads = [t \in Threads |-> "none"]
    /\ fd = [t \in Threads |-> FALSE]
    /\ procs = [p \in Procs |-> [device |-> None, started |-> FALSE]]
    /\ host = IF fifo THEN "playing" ELSE "gone"
    /\ pipe = 0
    /\ upset = {}

-----------------------------------------------------------------------------
(* unit_set.  (t_init only sets `initialized`, which nothing reads.)        *)

EnableIO(on) ==
    /\ call = Idle /\ unit.magic
    /\ unit' = [unit EXCEPT !.output_enabled = on]
    /\ UNCHANGED <<fifo, call, threads, fd, procs, hostVars, upset>>

\* CurrentDevice: accepted at any time, also while the IOProc is on another device.
CurrentDevice(d) ==
    /\ call = Idle /\ unit.magic
    /\ unit' = [unit EXCEPT !.device = d]
    /\ upset' = IF unit.ioproc # None /\ d # unit.device
                THEN upset \cup {"device moved"} ELSE upset
    /\ UNCHANGED <<fifo, call, threads, fd, procs, hostVars>>

-----------------------------------------------------------------------------
(* t_start.                                                                *)

\* Mutant: a second start is not turned away.
MayStartAlways == call = Idle /\ unit.magic /\ unit.output_enabled

\* A unit that runs, or has no output, has nothing to start.
MayStart == call = Idle /\ unit.magic /\ ~unit.running /\ unit.output_enabled

\* The thread is created.  With a FIFO that is all; else the device is next.
CreateThread ==
    /\ MayStart
    /\ \E t \in Threads :
         /\ threads[t] = "none"
         /\ threads' = [threads EXCEPT ![t] = "alloc"]
         /\ unit' = [unit EXCEPT !.producing = TRUE, !.thread = t, !.running = fifo]
    /\ call' = IF fifo THEN Idle ELSE [op |-> "start", at |-> "create"]
    /\ UNCHANGED <<fifo, fd, procs, hostVars, upset>>

CreateThreadFails ==
    /\ MayStart
    /\ unit' = [unit EXCEPT !.producing = FALSE]
    /\ UNCHANGED <<fifo, call, threads, fd, procs, hostVars, upset>>

\* The start is given up as it stands: the thread goes on, the unit is not running.
GiveUpStart ==
    /\ unit' = [unit EXCEPT !.running = FALSE]
    /\ call' = Idle
    /\ upset' = upset \cup {"start failed"}

\* AudioDeviceCreateIOProcID, over whatever unit->ioproc held.
CreateIOProc ==
    /\ call = [op |-> "start", at |-> "create"]
    /\ \/ \E p \in Procs :
            /\ procs[p].device = None
            /\ procs' = [procs EXCEPT ![p] = [device |-> unit.device, started |-> FALSE]]
            /\ unit' = [unit EXCEPT !.ioproc = p]
            /\ call' = [op |-> "start", at |-> "device"]
            /\ UNCHANGED upset
       \/ GiveUpStart /\ UNCHANGED procs
    /\ UNCHANGED <<fifo, threads, fd, hostVars>>

\* AudioDeviceStart.
StartDevice ==
    /\ call = [op |-> "start", at |-> "device"]
    /\ \/ /\ procs' = [procs EXCEPT ![unit.ioproc].started = TRUE]
          /\ unit' = [unit EXCEPT !.running = TRUE]
          /\ call' = Idle
          /\ UNCHANGED upset
       \/ GiveUpStart /\ UNCHANGED procs
    /\ UNCHANGED <<fifo, threads, fd, hostVars>>

-----------------------------------------------------------------------------
(* t_stop, t_uninit and t_dispose: unit_stop_producer, then the device.    *)

\* Mutant: the thread is told to end but not waited for.
ClearProducingUnjoined(op) ==
    /\ call = Idle /\ unit.magic
    /\ unit' = [unit EXCEPT !.producing = FALSE]
    /\ call' = [op |-> op, at |-> "device"]
    /\ UNCHANGED <<fifo, threads, fd, procs, hostVars, upset>>

\* unit_stop_producer: a unit whose thread was told to render tells it to end.
ClearProducing(op) ==
    /\ call = Idle /\ unit.magic
    /\ unit' = [unit EXCEPT !.producing = FALSE]
    /\ call' = [op |-> op, at |-> IF unit.producing THEN "join" ELSE "device"]
    /\ UNCHANGED <<fifo, threads, fd, procs, hostVars, upset>>

\* pthread_join(unit->thread): the last thread created, whichever others there are.
JoinThread ==
    /\ call.at = "join"
    /\ threads[unit.thread] = "exited"
    /\ threads' = [threads EXCEPT ![unit.thread] = "none"]
    /\ call' = [call EXCEPT !.at = "device"]
    /\ UNCHANGED <<fifo, unit, fd, procs, hostVars, upset>>

\* The device knows an IOProc only if it was created there.
OnDevice(p) == p # None /\ procs[p].device = unit.device

\* AudioDeviceStop of a running IOProc, and AudioDeviceDestroyIOProcID.
StopProc == IF unit.running /\ OnDevice(unit.ioproc)
            THEN [procs EXCEPT ![unit.ioproc].started = FALSE] ELSE procs
DestroyProc == IF OnDevice(unit.ioproc)
               THEN [procs EXCEPT ![unit.ioproc] = [device |-> None, started |-> FALSE]]
               ELSE procs

\* Mutant: the flag stays set.
StoppedForgotten(u) == u

Stopped(u) == [u EXCEPT !.running = FALSE]

\* t_stop keeps the IOProc for the device; t_uninit and t_dispose (unit_stop) destroy
\* it, and t_dispose frees the unit.
StopDevice ==
    /\ call.at = "device" /\ call.op # "start"
    /\ IF call.op = "stop"
       THEN procs' = StopProc /\ unit' = Stopped(unit)
       ELSE /\ procs' = DestroyProc
            /\ unit' = [Stopped(unit) EXCEPT !.ioproc = None, !.magic = call.op # "dispose"]
    /\ call' = Idle
    /\ UNCHANGED <<fifo, threads, fd, hostVars, upset>>

-----------------------------------------------------------------------------
(* The threads: unit_render_thread and unit_fifo_thread.                   *)

Goto(t, from, to) ==
    /\ threads[t] = from
    /\ threads' = [threads EXCEPT ![t] = to]

\* malloc of the block: without it the thread ends.
Allocate(t) ==
    /\ Goto(t, "alloc", "loop") \/ Goto(t, "alloc", "exited")
    /\ UNCHANGED <<fifo, unit, call, fd, procs, hostVars, upset>>

\* The loop's test of unit->producing; on the way out the FIFO is closed.
TestProducing(t) ==
    /\ IF unit.producing
       THEN Goto(t, "loop", IF fifo /\ ~fd[t] THEN "open" ELSE "work") /\ UNCHANGED fd
       ELSE Goto(t, "loop", "exited") /\ fd' = [fd EXCEPT ![t] = FALSE]
    /\ UNCHANGED <<fifo, unit, call, procs, hostVars, upset>>

\* One block, or a rest: render and copy into the ring, wait for room, or wait
\* because the thread is ahead of the clock.  With a FIFO a block is then written.
Work(t) ==
    /\ Goto(t, "work", "loop") \/ (fifo /\ Goto(t, "work", "write"))
    /\ UNCHANGED <<fifo, unit, call, fd, procs, hostVars, upset>>

\* Mutant: a failed open is tried again without a look at `producing`.
OpenFifoAgain(t) ==
    /\ \/ host \in {"playing", "stuck"} /\ Goto(t, "open", "work") /\ fd' = [fd EXCEPT ![t] = TRUE]
       \/ host = "closing" /\ Goto(t, "open", "lost") /\ UNCHANGED fd
       \/ host = "gone" /\ Goto(t, "open", "open") /\ UNCHANGED fd
    /\ UNCHANGED <<fifo, unit, call, procs, hostVars, upset>>

\* open(path, O_WRONLY): succeeds while somebody has the FIFO open for reading; waits
\* if it still exists but nobody has; fails (and is tried again) once it is gone.
OpenFifo(t) ==
    /\ \/ host \in {"playing", "stuck"} /\ Goto(t, "open", "work") /\ fd' = [fd EXCEPT ![t] = TRUE]
       \/ host = "closing" /\ Goto(t, "open", "lost") /\ UNCHANGED fd
       \/ host = "gone" /\ Goto(t, "open", "loop") /\ UNCHANGED fd
    /\ UNCHANGED <<fifo, unit, call, procs, hostVars, upset>>

\* Mutant: a write that would have to wait is counted as done.
WriteFifoUnpaced(t) ==
    /\ Goto(t, "write", "loop")
    /\ \/ host \in {"playing", "stuck"} /\ pipe' = pipe + 1 /\ UNCHANGED fd
       \/ host \in {"closing", "gone"} /\ fd' = [fd EXCEPT ![t] = FALSE] /\ UNCHANGED pipe
    /\ UNCHANGED <<fifo, unit, call, procs, host, upset>>

\* write: waits while the FIFO is full; with no reader it fails, and the FIFO is closed.
WriteFifo(t) ==
    /\ Goto(t, "write", "loop")
    /\ \/ host \in {"playing", "stuck"} /\ pipe < PipeSize /\ pipe' = pipe + 1 /\ UNCHANGED fd
       \/ host \in {"closing", "gone"} /\ fd' = [fd EXCEPT ![t] = FALSE] /\ UNCHANGED pipe
    /\ UNCHANGED <<fifo, unit, call, procs, host, upset>>

-----------------------------------------------------------------------------
(* The host: HostAudio.                                                    *)

\* pw-cat plays a block.
Drain ==
    /\ host = "playing" /\ pipe > 0
    /\ pipe' = pipe - 1
    /\ UNCHANGED <<fifo, unit, call, threads, fd, procs, host, upset>>

\* pw-cat ends by itself, or HostAudio.stop ends it; the launcher holds the FIFO open.
PlayerEnds ==
    /\ host = "playing"
    /\ host' = "stuck"
    /\ UNCHANGED <<fifo, unit, call, threads, fd, procs, pipe, upset>>

\* HostAudio.stop: os.close(keep) ...
CloseKeep ==
    /\ host = "stuck"
    /\ host' = "closing"
    /\ pipe' = 0
    /\ UNCHANGED <<fifo, unit, call, threads, fd, procs, upset>>

\* ... and fifo.unlink().  An open that waits goes on waiting.
Unlink ==
    /\ host = "closing"
    /\ host' = "gone"
    /\ UNCHANGED <<fifo, unit, call, threads, fd, procs, pipe, upset>>

-----------------------------------------------------------------------------
Thread(t) == Allocate(t) \/ TestProducing(t) \/ Work(t) \/ OpenFifo(t) \/ WriteFifo(t)

Client ==
    \/ \E on \in BOOLEAN : EnableIO(on)
    \/ \E d \in Devices : CurrentDevice(d)
    \/ CreateThread \/ CreateThreadFails \/ CreateIOProc \/ StartDevice
    \/ \E op \in {"stop", "uninit", "dispose"} : ClearProducing(op)
    \/ JoinThread \/ StopDevice

Host == Drain \/ PlayerEnds \/ CloseKeep \/ Unlink

Next == Client \/ Host \/ \E t \in Threads : Thread(t)

Spec == Init /\ [][Next]_vars

\* Threads are scheduled, a call that can go on does, and a player that lives plays.
Fairness ==
    /\ \A t \in Threads : WF_vars(Thread(t))
    /\ WF_vars(JoinThread \/ StopDevice)
    /\ WF_vars(Drain)

FairSpec == Spec /\ Fairness

-----------------------------------------------------------------------------
\* The state has its types: above all, the FIFO never holds more blocks than the kernel
\* lets it (unit_fifo_thread's write, 511-524).
TypeOK ==
    /\ fifo \in BOOLEAN
    /\ unit \in [magic : BOOLEAN, device : Devices, output_enabled : BOOLEAN,
                 running : BOOLEAN, producing : BOOLEAN, ioproc : Procs \cup {None},
                 thread : Threads \cup {None}]
    /\ call \in [op : {"none", "start", "stop", "uninit", "dispose"},
                 at : {"idle", "create", "device", "join"}]
    /\ threads \in [Threads -> {"none", "alloc", "loop", "open", "lost", "work", "write",
                                "exited"}]
    /\ fd \in [Threads -> BOOLEAN]
    /\ procs \in [Procs -> [device : Devices \cup {None}, started : BOOLEAN]]
    /\ host \in {"playing", "stuck", "closing", "gone"}
    /\ pipe \in 0..PipeSize
    /\ upset \subseteq {"start failed", "device moved"}

\* Unless a start failed after its thread was made, there is at most one render
\* thread, it is the one the unit will join, and a unit that is stopped has none:
\* nobody else writes the ring the next start resets (audio_hal.c:784-789).
OneRenderThread ==
    "start failed" \notin upset =>
        /\ \A t \in Live : t = unit.thread
        /\ (call = Idle /\ ~unit.producing) => Live = {}

\* A unit that was disposed of is in nobody's hands: no thread still renders through
\* the freed unit and no running IOProc has it as its context (audio_hal.c:609-616).
FreedUnitUnused ==
    ~unit.magic =>
        /\ "start failed" \in upset \/ Live = {}
        /\ "device moved" \in upset \/ Started = {}

\* What IsRunning tells FMOD is so: the thread was told to render, and without a FIFO
\* the device is running the IOProc; a unit that says it is stopped plays nothing.
RunningIsTrue ==
    call = Idle =>
        /\ unit.running => unit.producing /\ (fifo \/ procs[unit.ioproc].started)
        /\ ~unit.running /\ "device moved" \notin upset => Started = {}

\* Where a thread that was told to stop may stay: writing to a full FIFO the launcher
\* holds open with no player left, or opening the FIFO as HostAudio.stop removed it.
Wedged(t) ==
    \/ threads[t] = "write" /\ host = "stuck" /\ pipe = PipeSize
    \/ threads[t] = "lost"

\* A stop returns to FMOD, but for those two cases.
StopReturns ==
    (call.at = "join") ~> (call.at # "join" \/ Wedged(unit.thread))

\* "FMOD renders on our own thread into this ring" (audio_hal.c:370): on one thread.
SingleRenderThread == Cardinality(Live) <= 1
=============================================================================
