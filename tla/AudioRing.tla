------------------------------ MODULE AudioRing ------------------------------
(***************************************************************************)
(* The sound path of audio_hal.c without a host FIFO: FMOD renders on the  *)
(* unit's own thread (unit_render_thread) into a ring, and the IOProc      *)
(* Darling's device calls (unit_ioproc) copies out of it.  The two share   *)
(* the ring and two counters and take no lock.  One slot of the ring is    *)
(* one frame; both sides move whole frames.  The value in a slot is the    *)
(* number of the sample (unit->sample_time counts them over the unit's     *)
(* whole life), so that a lost, repeated or overwritten sample shows.      *)
(*                                                                         *)
(* Every access to a shared field is a step of its own: the thread's test  *)
(* of `producing`, its read of ring_read, each slot it fills, its store to *)
(* ring_written; and likewise for the IOProc.  The client (FMOD) starts    *)
(* and stops the unit; calls of the device that fail are in OutputUnit.    *)
(***************************************************************************)
EXTENDS Integers, Sequences

CONSTANTS
    RingFrames,     \* ring_bytes, in frames
    RenderFrames,   \* RENDER_FRAMES: frames rendered at a time
    Requests,       \* the numbers of frames the device may ask for at once
    MaxSamples      \* bound on the samples ever rendered (the model's only bound)

ASSUME RingAssumption ==
    /\ RingFrames \in Nat \ {0}
    /\ RenderFrames \in Nat \ {0}
    /\ Requests \subseteq Nat
    /\ MaxSamples \in Nat

VARIABLES
    ring,           \* unit->ring
    ring_written,   \* frames the thread has published since the start
    ring_read,      \* frames the IOProc has consumed since the start
    sample_time,    \* unit->sample_time: the number of the next sample to render
    producing,      \* unit->producing
    render_pc,      \* where the render thread is
    filled,         \* its loop index while it copies a block into the ring
    io_pc,          \* where the IOProc is
    copied,         \* the IOProc's snapshot: frames it will copy
    bytes,          \* what it has copied so far
    client,         \* what FMOD's call into the unit is doing
    base,           \* observation: sample_time when the output was last started
    heard           \* observation: what the last IOProc call played, silence aside

renderVars == <<render_pc, filled>>
ioVars     == <<io_pc, copied, bytes, heard>>
vars == <<ring, ring_written, ring_read, sample_time, producing, render_pc, filled,
          io_pc, copied, bytes, client, base, heard>>

\* (position + i) % ring_bytes, position being a counter modulo ring_bytes.
Slot(counter, i) == ((counter % RingFrames) + i) % RingFrames

\* Mutants: the IOProc takes what it was asked for; the IOProc waits for a full request.
LesserAsked(a, b) == b
LesserAllOrNothing(a, b) == IF a < b THEN 0 ELSE b

Lesser(a, b) == IF a < b THEN a ELSE b

Init ==
    /\ ring = [s \in 0..(RingFrames - 1) |-> 0]
    /\ ring_written = 0 /\ ring_read = 0
    /\ sample_time = 0
    /\ producing = FALSE
    /\ render_pc = "none" /\ filled = 0
    /\ io_pc = "idle" /\ copied = 0 /\ bytes = <<>>
    /\ client = "stopped"
    /\ base = 0 /\ heard = <<>>

-----------------------------------------------------------------------------
(* The client: t_start and t_stop.                                         *)

\* t_start, up to the thread's creation: the counters start over.
Start ==
    /\ client = "stopped"
    /\ ring_written' = 0 /\ ring_read' = 0
    /\ producing' = TRUE
    /\ render_pc' = "alloc"
    /\ client' = "starting"
    /\ base' = sample_time
    /\ UNCHANGED <<ring, sample_time, filled, ioVars>>

\* The rest of t_start: the IOProc is created and the device started.
StartDevice ==
    /\ client = "starting"
    /\ client' = "playing"
    /\ UNCHANGED <<ring, ring_written, ring_read, sample_time, producing,
                   renderVars, ioVars, base>>

\* Mutant: the thread is joined but was never told to end.
StopProducerSilently ==
    /\ client = "playing"
    /\ client' = "joining"
    /\ UNCHANGED <<ring, ring_written, ring_read, sample_time, producing,
                   renderVars, ioVars, base>>

\* unit_stop_producer tells the thread to end ...
StopProducer ==
    /\ client = "playing"
    /\ producing' = FALSE
    /\ client' = "joining"
    /\ UNCHANGED <<ring, ring_written, ring_read, sample_time, renderVars, ioVars, base>>

\* ... and pthread_join waits until it has.
JoinProducer ==
    /\ client = "joining"
    /\ render_pc = "exited"
    /\ render_pc' = "none"
    /\ client' = "stopping"
    /\ UNCHANGED <<ring, ring_written, ring_read, sample_time, producing, filled,
                   ioVars, base>>

\* AudioDeviceStop: the device makes no further call, and it returns once the one
\* under way has ended.
StopDevice ==
    /\ client = "stopping"
    /\ io_pc = "idle"
    /\ client' = "stopped"
    /\ UNCHANGED <<ring, ring_written, ring_read, sample_time, producing,
                   renderVars, ioVars, base>>

-----------------------------------------------------------------------------
(* The producer: unit_render_thread.                                       *)

\* block = malloc(chunk); without one the thread ends at once.
AllocateBlock ==
    /\ render_pc = "alloc"
    /\ render_pc' \in {"loop", "exited"}
    /\ UNCHANGED <<ring, ring_written, ring_read, sample_time, producing, filled,
                   ioVars, client, base>>

\* The loop's test.  (The model lets the thread rest here once MaxSamples are
\* rendered; a thread told to stop still stops.)
TestProducing ==
    /\ render_pc = "loop"
    /\ producing => sample_time + RenderFrames <= MaxSamples
    /\ render_pc' = IF producing THEN "room" ELSE "exited"
    /\ UNCHANGED <<ring, ring_written, ring_read, sample_time, producing, filled,
                   ioVars, client, base>>

\* Mutant: any free slot is taken for room for a block.
HasRoomForOne == RingFrames - (ring_written - ring_read) > 0

HasRoom == RingFrames - (ring_written - ring_read) >= RenderFrames

\* The ring is too full: usleep, then from the top.
WaitForRoom ==
    /\ render_pc = "room"
    /\ ~HasRoom
    /\ render_pc' = "loop"
    /\ UNCHANGED <<ring, ring_written, ring_read, sample_time, producing, filled,
                   ioVars, client, base>>

\* There is room: FMOD renders the next block (unit_render) into private memory.
RenderBlock ==
    /\ render_pc = "room"
    /\ HasRoom
    /\ sample_time' = sample_time + RenderFrames
    /\ filled' = 0
    /\ render_pc' = "copy"
    /\ UNCHANGED <<ring, ring_written, ring_read, producing, ioVars, client, base>>

\* Mutant: `<=` in the copy loop's test, one slot too many.
FillSlotTooMany ==
    /\ render_pc = "copy"
    /\ ring' = [ring EXCEPT ![Slot(ring_written, filled)] =
                   sample_time - RenderFrames + filled]
    /\ filled' = filled + 1
    /\ render_pc' = IF filled = RenderFrames THEN "publish" ELSE "copy"
    /\ UNCHANGED <<ring_written, ring_read, sample_time, producing, ioVars, client, base>>

\* One round of the loop that copies the block into the ring.
FillSlot ==
    /\ render_pc = "copy"
    /\ ring' = [ring EXCEPT ![Slot(ring_written, filled)] =
                   sample_time - RenderFrames + filled]
    /\ filled' = filled + 1
    /\ render_pc' = IF filled + 1 = RenderFrames THEN "publish" ELSE "copy"
    /\ UNCHANGED <<ring_written, ring_read, sample_time, producing, ioVars, client, base>>

\* After the barrier, ring_written += chunk.
Publish ==
    /\ render_pc = "publish"
    /\ ring_written' = ring_written + RenderFrames
    /\ render_pc' = "loop"
    /\ UNCHANGED <<ring, ring_read, sample_time, producing, filled, ioVars, client, base>>

-----------------------------------------------------------------------------
(* The consumer: unit_ioproc, called while the device runs.                *)

\* The device asks for `wanted` frames; the IOProc reads the counters once.
IOProcBegin(wanted) ==
    /\ client \in {"playing", "joining"}
    /\ io_pc = "idle"
    /\ copied' = Lesser(ring_written - ring_read, wanted)
    /\ bytes' = <<>>
    /\ io_pc' = "copy"
    /\ UNCHANGED <<ring, ring_written, ring_read, sample_time, producing,
                   renderVars, client, base, heard>>

\* One round of the loop that copies out of the ring.
TakeSlot ==
    /\ io_pc = "copy"
    /\ Len(bytes) < copied
    /\ bytes' = Append(bytes, ring[Slot(ring_read, Len(bytes))])
    /\ UNCHANGED <<ring, ring_written, ring_read, sample_time, producing,
                   renderVars, io_pc, copied, client, base, heard>>

\* Mutant: ring_read is not advanced, so the same samples are played again.
IOProcEndKeeping ==
    /\ io_pc = "copy"
    /\ Len(bytes) = copied
    /\ heard' = bytes
    /\ io_pc' = "idle"
    /\ UNCHANGED <<ring, ring_written, ring_read, sample_time, producing, renderVars,
                   copied, bytes, client, base>>

\* The rest of the buffer is silence; ring_read += copied gives the slots back.
IOProcEnd ==
    /\ io_pc = "copy"
    /\ Len(bytes) = copied
    /\ ring_read' = ring_read + copied
    /\ heard' = bytes
    /\ io_pc' = "idle"
    /\ UNCHANGED <<ring, ring_written, sample_time, producing, renderVars,
                   copied, bytes, client, base>>

-----------------------------------------------------------------------------
RenderThread ==
    \/ AllocateBlock \/ TestProducing \/ WaitForRoom
    \/ RenderBlock \/ FillSlot \/ Publish

IOProc ==
    \/ \E wanted \in Requests : IOProcBegin(wanted)
    \/ TakeSlot
    \/ IOProcEnd

Client == Start \/ StartDevice \/ StopProducer \/ JoinProducer \/ StopDevice

Next == RenderThread \/ IOProc \/ Client

Spec == Init /\ [][Next]_vars

\* The scheduler runs both threads, and a running device keeps asking for sound
\* (for a callback's worth, not for nothing).
Fairness ==
    /\ WF_vars(RenderThread)
    /\ WF_vars(TakeSlot \/ IOProcEnd)
    /\ WF_vars(\E wanted \in Requests \ {0} : IOProcBegin(wanted))
    /\ WF_vars(JoinProducer \/ StopDevice)

FairSpec == Spec /\ Fairness

-----------------------------------------------------------------------------
\* The state has its types: above all, the thread's loop index never leaves its block
\* (unit_render_thread, 451-456).
TypeOK ==
    /\ ring \in [0..(RingFrames - 1) -> Nat]
    /\ ring_written \in Nat /\ ring_read \in Nat
    /\ sample_time \in Nat /\ base \in Nat
    /\ producing \in BOOLEAN
    /\ render_pc \in {"none", "alloc", "loop", "room", "copy", "publish", "exited"}
    /\ filled \in 0..RenderFrames
    /\ io_pc \in {"idle", "copy"}
    /\ copied \in Nat
    /\ bytes \in Seq(Nat) /\ heard \in Seq(Nat)
    /\ client \in {"stopped", "starting", "playing", "joining", "stopping"}

\* No overrun, whatever the interleaving: the unread part never outgrows the ring
\* (audio_hal.c:449 computes the room left with unsigned arithmetic), and every
\* sample between the counters is in its slot, so nothing the device has still to
\* play was overwritten and nothing is offered before it is in the ring.
UnreadIntact ==
    /\ ring_read <= ring_written
    /\ ring_written - ring_read <= RingFrames
    /\ \A k \in ring_read..(ring_written - 1) : ring[k % RingFrames] = base + k

\* The slots each side may still touch in the copy it is making.
Filling == IF render_pc = "copy"
           THEN {Slot(ring_written, i) : i \in filled..(RenderFrames - 1)} ELSE {}
Taking  == IF io_pc = "copy"
           THEN {Slot(ring_read, i) : i \in Len(bytes)..(copied - 1)} ELSE {}

\* The lock-free ring is free of data races on its slots: the thread never fills
\* a slot the IOProc is about to read (audio_hal.c:453-455 against 544-545).
NoDataRace == Filling \cap Taking = {}

\* The ring is the stream FMOD and the listener expect.
Stream == INSTANCE AudioStream WITH
    Capacity <- RingFrames,
    promised <- base + ring_written,
    owed     <- base + ring_read

\* Every step is a step of the abstract stream: in order, nothing lost, nothing
\* twice, at most a ring's worth held back; only a restart drops samples.
ImplementsStream == Stream!StreamSpec

\* A published sample does not stay in the ring for ever while the output plays
\* (the thread would then wait for room for ever and the game go silent).
RenderedIsPlayed ==
    \A k \in 1..MaxSamples :
        (base + ring_written >= k /\ client = "playing")
            ~> (base + ring_read >= k \/ client = "stopped")

\* A stop that was asked for returns: the thread sees `producing` cleared in every
\* one of its waits, so the join ends, and so does the device's stop.
StopReturns == (client = "joining") ~> (client = "stopped")
=============================================================================
