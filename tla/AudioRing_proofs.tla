--------------------------- MODULE AudioRing_proofs ---------------------------
(***************************************************************************)
(* Proofs about AudioRing, for every ring, block and request size: its     *)
(* type invariant, that no unread sample is overwritten, that the two      *)
(* sides never touch the same slot, and that the ring implements           *)
(* AudioStream.                                                            *)
(*                                                                         *)
(* UnreadIntact is not inductive.  RingInv adds what the steps in the      *)
(* middle of a copy rely on: the thread copies only into room it has       *)
(* checked, the IOProc only out of what was published when it looked, and  *)
(* a client that restarts the counters has no thread and no IOProc call.   *)
(***************************************************************************)
EXTENDS AudioRing, TLAPS

Rendering == render_pc \in {"copy", "publish"}

\* The numbers of the samples rendered and published agree.
CountersAgree ==
    sample_time = base + ring_written + (IF Rendering THEN RenderFrames ELSE 0)

\* The block being copied fits, and its first `filled` samples are in the ring.
BlockFits ==
    Rendering =>
        /\ ring_written + RenderFrames - ring_read <= RingFrames
        /\ \A i \in 0..(filled - 1) :
               ring[(ring_written + i) % RingFrames] = base + ring_written + i

LoopIndex ==
    /\ render_pc = "copy" => filled < RenderFrames
    /\ render_pc = "publish" => filled = RenderFrames

\* The IOProc copies published samples, and has copied the oldest ones.
CopyIsPublished ==
    io_pc = "copy" =>
        /\ ring_read + copied <= ring_written
        /\ Len(bytes) <= copied
        /\ \A j \in 1..Len(bytes) : bytes[j] = base + ring_read + j - 1

\* While the client holds the counters for itself nobody uses them.
ClientAlone ==
    /\ client = "stopped" => render_pc = "none" /\ io_pc = "idle"
    /\ client = "stopping" => render_pc = "none"

RingInv ==
    /\ TypeOK
    /\ UnreadIntact
    /\ CountersAgree
    /\ BlockFits
    /\ LoopIndex
    /\ CopyIsPublished
    /\ ClientAlone

-----------------------------------------------------------------------------
(* Positions in the ring.                                                  *)

\* Division by the ring's size, as the provers need it.
LEMMA Division ==
    ASSUME NEW a \in Nat
    PROVE  /\ a = RingFrames * (a \div RingFrames) + (a % RingFrames)
           /\ a % RingFrames \in 0..(RingFrames - 1)
           /\ a \div RingFrames \in Nat
  BY RingAssumption, SMT

\* The remainder is the only one of its kind.
LEMMA RemainderUnique ==
    ASSUME NEW a \in Nat, NEW q \in Nat, NEW r \in 0..(RingFrames - 1),
           a = RingFrames * q + r
    PROVE  a % RingFrames = r
  BY RingAssumption, SMT

\* A positive multiple of the ring's size is at least that size.
LEMMA PositiveMultiple ==
    ASSUME NEW d \in Int, RingFrames * d > 0
    PROVE  RingFrames * d >= RingFrames
<1>1. CASE d <= 0
  BY <1>1, RingAssumption, SMT
<1>2. CASE d >= 1
  BY <1>2, RingAssumption, SMT
<1> QED
  BY <1>1, <1>2

\* Two samples less than a ring apart have different slots.
LEMMA SlotsDiffer ==
    ASSUME NEW a \in Nat, NEW b \in Nat, a < b, b - a < RingFrames
    PROVE  a % RingFrames # b % RingFrames
<1> SUFFICES ASSUME a % RingFrames = b % RingFrames PROVE FALSE
  OBVIOUS
<1> DEFINE qa == a \div RingFrames
           qb == b \div RingFrames
<1>1. /\ a = RingFrames * qa + (a % RingFrames)
      /\ b = RingFrames * qb + (b % RingFrames)
      /\ qa \in Nat /\ qb \in Nat /\ a % RingFrames \in Int
  BY Division
<1>2. b - a = RingFrames * qb - RingFrames * qa
  BY <1>1, RingAssumption
<1>3. RingFrames * qb - RingFrames * qa = RingFrames * (qb - qa)
  BY <1>1, RingAssumption, SMT
<1>4. qb - qa \in Int /\ RingFrames * (qb - qa) > 0
  BY <1>1, <1>2, <1>3
<1>5. RingFrames * (qb - qa) >= RingFrames
  BY <1>4, PositiveMultiple
<1> QED
  BY <1>2, <1>3, <1>5, RingAssumption

\* The index the loops compute, (counter % size + i) % size, is the slot of
\* sample counter + i.
LEMMA SlotOfSample ==
    ASSUME NEW a \in Nat, NEW i \in Nat
    PROVE  Slot(a, i) = (a + i) % RingFrames /\ Slot(a, i) \in 0..(RingFrames - 1)
<1> DEFINE x == (a % RingFrames) + i
           q == a \div RingFrames
           p == x \div RingFrames
<1>1. a = RingFrames * q + (a % RingFrames) /\ a % RingFrames \in Nat /\ q \in Nat
  BY Division, RingAssumption
<1>2. x \in Nat
  BY <1>1
<1>3. x = RingFrames * p + (x % RingFrames) /\ x % RingFrames \in 0..(RingFrames - 1) /\ p \in Nat
  <2> HIDE DEF x
  <2> QED
    BY Division, <1>2
<1>4. a + i = RingFrames * (q + p) + (x % RingFrames)
  <2>1. RingFrames * (q + p) = RingFrames * q + RingFrames * p
    <3> HIDE DEF q, p
    <3> QED
      BY <1>1, <1>3, RingAssumption, SMT
  <2>2. a + i = RingFrames * q + x
    BY <1>1, RingAssumption
  <2> HIDE DEF q, p, x
  <2> QED
    BY <2>1, <2>2, <1>3, <1>1, RingAssumption
<1>5. q + p \in Nat /\ a + i \in Nat
  BY <1>1, <1>3
<1>6. (a + i) % RingFrames = x % RingFrames
  <2> HIDE DEF q, p, x
  <2> QED
    BY <1>4, <1>5, <1>3, RemainderUnique
<1>7. Slot(a, i) = x % RingFrames
  BY DEF Slot
<1> QED
  BY <1>3, <1>6, <1>7

-----------------------------------------------------------------------------
(* The invariant.                                                          *)

LEMMA InitInv == Init => RingInv
<1> SUFFICES ASSUME Init PROVE RingInv
  OBVIOUS
<1>1. TypeOK
  BY RingAssumption DEF Init, TypeOK
<1>2. UnreadIntact
  BY RingAssumption DEF Init, UnreadIntact
<1>3. CountersAgree /\ BlockFits /\ LoopIndex /\ CopyIsPublished /\ ClientAlone
  BY DEF Init, CountersAgree, BlockFits, LoopIndex, CopyIsPublished, ClientAlone, Rendering
<1> QED
  BY <1>1, <1>2, <1>3 DEF RingInv

\* Filling a slot of a block that fits leaves every unread sample in its slot.
LEMMA FillKeepsUnread ==
    ASSUME RingInv, FillSlot
    PROVE  /\ UnreadIntact'
           /\ \A i \in 0..filled :
                  ring'[(ring_written + i) % RingFrames] = base + ring_written + i
<1> DEFINE s == (ring_written + filled) % RingFrames
           v == base + ring_written + filled
<1>1. /\ ring_written \in Nat /\ ring_read \in Nat /\ base \in Nat
      /\ filled \in Nat /\ filled < RenderFrames
      /\ sample_time - RenderFrames + filled = v
      /\ ring_written + RenderFrames - ring_read <= RingFrames
      /\ ring_read <= ring_written
  BY RingAssumption DEF RingInv, TypeOK, FillSlot, LoopIndex, CountersAgree, BlockFits,
     Rendering, UnreadIntact
<1>2. /\ ring' = [ring EXCEPT ![s] = v]
      /\ s \in 0..(RingFrames - 1)
      /\ ring \in [0..(RingFrames - 1) -> Nat]
  BY <1>1, SlotOfSample DEF FillSlot, RingInv, TypeOK
<1>3. ASSUME NEW k \in ring_read..(ring_written + filled - 1)
      PROVE  ring'[k % RingFrames] = ring[k % RingFrames]
  <2>1. k \in Nat /\ k < ring_written + filled /\ ring_written + filled - k < RingFrames
    BY <1>1, RingAssumption
  <2>2. k % RingFrames # s
    BY <2>1, <1>1, SlotsDiffer
  <2>3. k % RingFrames \in 0..(RingFrames - 1)
    BY <2>1, Division
  <2> HIDE DEF s, v
  <2> QED
    BY <2>2, <2>3, <1>2
<1>4. \A k \in ring_read..(ring_written - 1) : ring'[k % RingFrames] = base + k
  BY <1>1, <1>3 DEF RingInv, UnreadIntact
<1>5. UnreadIntact'
  BY <1>1, <1>4 DEF UnreadIntact, FillSlot, ioVars, RingInv
<1>6. ASSUME NEW i \in 0..filled
      PROVE  ring'[(ring_written + i) % RingFrames] = base + ring_written + i
  <2>1. CASE i < filled
    <3>1. ring[(ring_written + i) % RingFrames] = base + ring_written + i
      BY <2>1, <1>1 DEF RingInv, BlockFits, Rendering, FillSlot
    <3>2. ring_written + i \in ring_read..(ring_written + filled - 1)
      BY <2>1, <1>1
    <3> QED
      BY <3>1, <3>2, <1>3
  <2>2. CASE i = filled
    BY <2>2, <1>2
  <2> QED
    BY <2>1, <2>2, <1>1
<1> QED
  BY <1>5, <1>6

LEMMA NextInv == RingInv /\ [Next]_vars => RingInv'
<1> SUFFICES ASSUME RingInv, [Next]_vars PROVE RingInv'
  OBVIOUS
<1> USE RingAssumption DEF RingInv
<1>1. CASE Start
  <2>1. TypeOK'
    BY <1>1 DEF Start, TypeOK, ioVars
  <2>2. UnreadIntact'
    BY <1>1 DEF Start, UnreadIntact
  <2>3. CountersAgree' /\ BlockFits' /\ LoopIndex' /\ CopyIsPublished' /\ ClientAlone'
    BY <1>1 DEF Start, ioVars, TypeOK, CountersAgree, BlockFits, LoopIndex, CopyIsPublished,
       ClientAlone, Rendering
  <2> QED
    BY <2>1, <2>2, <2>3
<1>2. CASE StartDevice \/ StopProducer \/ JoinProducer \/ StopDevice
  <2> USE DEF StartDevice, StopProducer, JoinProducer, StopDevice, renderVars, ioVars
  <2>1. TypeOK'
    BY <1>2 DEF TypeOK
  <2>2. UnreadIntact'
    BY <1>2 DEF UnreadIntact
  <2>3. CountersAgree' /\ BlockFits'
    BY <1>2 DEF CountersAgree, BlockFits, Rendering
  <2>4. LoopIndex' /\ CopyIsPublished' /\ ClientAlone'
    BY <1>2 DEF LoopIndex, CopyIsPublished, ClientAlone
  <2> QED
    BY <2>1, <2>2, <2>3, <2>4
<1>3. CASE AllocateBlock \/ TestProducing \/ WaitForRoom
  <2> USE DEF AllocateBlock, TestProducing, WaitForRoom, ioVars
  <2>1. TypeOK'
    BY <1>3 DEF TypeOK
  <2>2. UnreadIntact'
    BY <1>3 DEF UnreadIntact
  <2>3. CountersAgree' /\ BlockFits'
    BY <1>3 DEF CountersAgree, BlockFits, Rendering
  <2>4. LoopIndex' /\ CopyIsPublished' /\ ClientAlone'
    BY <1>3 DEF LoopIndex, CopyIsPublished, ClientAlone
  <2> QED
    BY <2>1, <2>2, <2>3, <2>4
<1>4. CASE RenderBlock
  <2> USE DEF RenderBlock, ioVars
  <2>1. TypeOK'
    BY <1>4 DEF TypeOK
  <2>2. UnreadIntact'
    BY <1>4 DEF UnreadIntact
  <2>3. CountersAgree' /\ BlockFits'
    BY <1>4 DEF TypeOK, CountersAgree, BlockFits, Rendering, HasRoom
  <2>4. LoopIndex' /\ CopyIsPublished' /\ ClientAlone'
    BY <1>4 DEF TypeOK, LoopIndex, CopyIsPublished, ClientAlone
  <2> QED
    BY <2>1, <2>2, <2>3, <2>4
<1>5. CASE FillSlot
  <2>1. TypeOK'
    <3>1. sample_time - RenderFrames + filled \in Nat
      BY <1>5 DEF FillSlot, TypeOK, CountersAgree, Rendering
    <3>2. filled + 1 \in 0..RenderFrames
      BY <1>5 DEF FillSlot, TypeOK, LoopIndex
    <3>3. Slot(ring_written, filled) \in 0..(RingFrames - 1)
      <4>1. ring_written \in Nat /\ filled \in Nat
        BY DEF TypeOK
      <4> QED
        BY <4>1, SlotOfSample
    <3>4. ring' \in [0..(RingFrames - 1) -> Nat]
      BY <1>5, <3>1, <3>3 DEF FillSlot, TypeOK
    <3> QED
      BY <1>5, <3>2, <3>4 DEF FillSlot, TypeOK, ioVars
  <2>2. UnreadIntact'
    BY <1>5, FillKeepsUnread
  <2>3. BlockFits'
    <3>1. \A i \in 0..filled :
             ring'[(ring_written + i) % RingFrames] = base + ring_written + i
      BY <1>5, FillKeepsUnread
    <3>2. ring_written + RenderFrames - ring_read <= RingFrames
      BY <1>5 DEF FillSlot, BlockFits, Rendering
    <3>3. filled' - 1 = filled
      BY <1>5 DEF FillSlot, TypeOK
    <3> QED
      BY <1>5, <3>1, <3>2, <3>3 DEF FillSlot, BlockFits
  <2>4. CountersAgree' /\ LoopIndex' /\ CopyIsPublished' /\ ClientAlone'
    BY <1>5 DEF FillSlot, ioVars, TypeOK, CountersAgree, LoopIndex, CopyIsPublished,
       ClientAlone, Rendering
  <2> QED
    BY <2>1, <2>2, <2>3, <2>4
<1>6. CASE Publish
  <2> USE DEF Publish, ioVars
  <2>1. TypeOK'
    BY <1>6 DEF TypeOK
  <2>2. UnreadIntact'
    <3>1. /\ ring_read <= ring_written + RenderFrames
          /\ ring_written + RenderFrames - ring_read <= RingFrames
      BY <1>6 DEF TypeOK, UnreadIntact, BlockFits, Rendering
    <3>2. ASSUME NEW k \in ring_read..(ring_written + RenderFrames - 1)
          PROVE  ring[k % RingFrames] = base + k
      <4>1. CASE k < ring_written
        <5>1. k \in ring_read..(ring_written - 1)
          BY <4>1 DEF TypeOK
        <5> QED
          BY <5>1 DEF UnreadIntact
      <4>2. CASE k >= ring_written
        <5> DEFINE i == k - ring_written
        <5>1. i \in 0..(filled - 1) /\ k = ring_written + i
          BY <1>6, <4>2 DEF TypeOK, LoopIndex
        <5>2. ring[(ring_written + i) % RingFrames] = base + ring_written + i
          BY <1>6, <5>1 DEF BlockFits, Rendering
        <5> HIDE DEF i
        <5> QED
          BY <5>1, <5>2 DEF TypeOK
      <4> QED
        BY <4>1, <4>2 DEF TypeOK
    <3> QED
      <4>1. /\ ring' = ring /\ base' = base /\ ring_read' = ring_read
            /\ ring_written' = ring_written + RenderFrames
        BY <1>6
      <4>2. ring_read' <= ring_written' /\ ring_written' - ring_read' <= RingFrames
        BY <4>1, <3>1 DEF TypeOK
      <4>3. ASSUME NEW k \in ring_read'..(ring_written' - 1)
            PROVE  ring'[k % RingFrames] = base' + k
        <5>1. k \in ring_read..(ring_written + RenderFrames - 1)
          BY <4>1 DEF TypeOK
        <5>2. ring[k % RingFrames] = base + k
          BY <5>1, <3>2
        <5> HIDE DEF Publish
        <5> QED
          BY <5>2, <4>1
      <4> HIDE DEF Publish
      <4> QED
        BY <4>2, <4>3 DEF UnreadIntact
  <2>3. CountersAgree' /\ BlockFits' /\ LoopIndex'
    BY <1>6 DEF TypeOK, CountersAgree, BlockFits, LoopIndex, Rendering
  <2>4. CopyIsPublished' /\ ClientAlone'
    BY <1>6 DEF TypeOK, CopyIsPublished, ClientAlone
  <2> QED
    BY <2>1, <2>2, <2>3, <2>4
<1>7. ASSUME NEW wanted \in Requests, IOProcBegin(wanted) PROVE RingInv'
  <2> USE DEF IOProcBegin, renderVars
  <2>1. copied' \in Nat /\ ring_read + copied' <= ring_written
    BY <1>7 DEF TypeOK, UnreadIntact, Lesser
  <2>2. TypeOK'
    BY <1>7, <2>1 DEF TypeOK
  <2>3. UnreadIntact'
    BY <1>7 DEF UnreadIntact
  <2>4. CountersAgree' /\ BlockFits' /\ LoopIndex' /\ ClientAlone'
    BY <1>7 DEF CountersAgree, BlockFits, LoopIndex, ClientAlone, Rendering
  <2>5. CopyIsPublished'
    BY <1>7, <2>1 DEF CopyIsPublished
  <2> QED
    BY <2>2, <2>3, <2>4, <2>5
<1>8. CASE TakeSlot
  <2> USE DEF TakeSlot, renderVars
  <2> DEFINE k == ring_read + Len(bytes)
  <2>1. /\ bytes \in Seq(Nat) /\ Len(bytes) \in Nat /\ copied \in Nat
        /\ ring_read \in Nat /\ ring_written \in Nat /\ base \in Nat
    BY DEF TypeOK
  <2>2. Slot(ring_read, Len(bytes)) = k % RingFrames
    BY <2>1, SlotOfSample
  <2>3. k \in ring_read..(ring_written - 1)
    BY <1>8, <2>1 DEF CopyIsPublished
  <2>4. bytes' = Append(bytes, base + k) /\ base + k \in Nat
    BY <1>8, <2>1, <2>2, <2>3 DEF UnreadIntact
  <2>5. TypeOK'
    BY <1>8, <2>1, <2>4 DEF TypeOK
  <2>6. UnreadIntact'
    BY <1>8 DEF UnreadIntact
  <2>7. CountersAgree' /\ BlockFits' /\ LoopIndex' /\ ClientAlone'
    BY <1>8 DEF CountersAgree, BlockFits, LoopIndex, ClientAlone, Rendering
  <2>8. CopyIsPublished'
    <3>1. Len(bytes') = Len(bytes) + 1 /\ Len(bytes') <= copied
      BY <1>8, <2>1, <2>4
    <3>2. ASSUME NEW j \in 1..Len(bytes')
          PROVE  bytes'[j] = base + ring_read + j - 1
      <4>1. CASE j <= Len(bytes)
        BY <4>1, <1>8, <2>1, <2>4 DEF CopyIsPublished
      <4>2. CASE j = Len(bytes) + 1
        BY <4>2, <2>1, <2>4
      <4> QED
        BY <4>1, <4>2, <3>1, <2>1
    <3> QED
      BY <1>8, <3>1, <3>2 DEF CopyIsPublished
  <2> QED
    BY <2>5, <2>6, <2>7, <2>8
<1>9. CASE IOProcEnd
  <2> USE DEF IOProcEnd, renderVars
  <2>1. ring_read + copied \in Nat /\ ring_read + copied <= ring_written
    BY <1>9 DEF TypeOK, CopyIsPublished
  <2>2. TypeOK'
    BY <1>9, <2>1 DEF TypeOK
  <2>3. UnreadIntact'
    <3>1. /\ ring' = ring /\ base' = base /\ ring_written' = ring_written
          /\ ring_read' = ring_read + copied
      BY <1>9
    <3>2. \A k \in ring_read'..(ring_written' - 1) : k \in ring_read..(ring_written - 1)
      BY <3>1 DEF TypeOK
    <3>3. \A k \in ring_read'..(ring_written' - 1) : ring'[k % RingFrames] = base' + k
      BY <3>1, <3>2 DEF UnreadIntact
    <3>4. ring_read' <= ring_written' /\ ring_written' - ring_read' <= RingFrames
      BY <3>1, <2>1 DEF TypeOK, UnreadIntact
    <3> QED
      BY <3>3, <3>4 DEF UnreadIntact
  <2>4. CountersAgree' /\ LoopIndex' /\ ClientAlone' /\ CopyIsPublished'
    BY <1>9 DEF CountersAgree, LoopIndex, ClientAlone, CopyIsPublished, Rendering
  <2>5. BlockFits'
    BY <1>9, <2>1 DEF TypeOK, BlockFits, Rendering
  <2> QED
    BY <2>2, <2>3, <2>4, <2>5
<1>10. CASE UNCHANGED vars
  BY <1>10 DEF vars, TypeOK, UnreadIntact, CountersAgree, BlockFits, LoopIndex,
     CopyIsPublished, ClientAlone, Rendering
<1> QED
  BY <1>1, <1>2, <1>3, <1>4, <1>5, <1>6, <1>7, <1>8, <1>9, <1>10
  DEF Next, RenderThread, IOProc, Client

\* The strengthened invariant holds throughout.
THEOREM Invariance == Spec => []RingInv
<1> QED
  BY InitInv, NextInv, PTL DEF Spec

\* Every field keeps its type, in every interleaving.
THEOREM TypeCorrect == Spec => []TypeOK
<1>1. RingInv => TypeOK
  BY DEF RingInv
<1> QED
  BY <1>1, Invariance, PTL

\* No unread sample is ever overwritten and the counters never drift more than a
\* ring apart: the room computation of unit_render_thread cannot underflow.
THEOREM NothingOverwritten == Spec => []UnreadIntact
<1>1. RingInv => UnreadIntact
  BY DEF RingInv
<1> QED
  BY <1>1, Invariance, PTL

\* The invariant keeps the two copy loops on different slots.
LEMMA InvRaceFree == RingInv => NoDataRace
<1> SUFFICES ASSUME RingInv,
                    NEW s \in Filling, s \in Taking
             PROVE  FALSE
  BY DEF NoDataRace
<1>1. /\ ring_written \in Nat /\ ring_read \in Nat /\ filled \in Nat
      /\ Len(bytes) \in Nat /\ copied \in Nat
      /\ RingFrames \in Nat /\ RenderFrames \in Nat
  BY RingAssumption DEF RingInv, TypeOK
<1>2. render_pc = "copy" /\ io_pc = "copy"
  BY DEF Filling, Taking
<1>3. PICK i \in filled..(RenderFrames - 1) : s = Slot(ring_written, i)
  BY <1>2 DEF Filling
<1>4. PICK j \in Len(bytes)..(copied - 1) : s = Slot(ring_read, j)
  BY <1>2 DEF Taking
<1>5. i \in Nat /\ j \in Nat /\ i < RenderFrames /\ j < copied
  BY <1>1
<1>6. /\ ring_read + copied <= ring_written
      /\ ring_written + RenderFrames - ring_read <= RingFrames
  BY <1>2 DEF RingInv, CopyIsPublished, BlockFits, Rendering
<1>7. /\ ring_read + j \in Nat /\ ring_written + i \in Nat
      /\ ring_read + j < ring_written + i
      /\ (ring_written + i) - (ring_read + j) < RingFrames
  BY <1>1, <1>5, <1>6
<1>8. (ring_read + j) % RingFrames # (ring_written + i) % RingFrames
  BY <1>7, SlotsDiffer
<1>9. /\ s = (ring_written + i) % RingFrames
      /\ s = (ring_read + j) % RingFrames
  BY <1>1, <1>3, <1>4, <1>5, SlotOfSample
<1> QED
  BY <1>8, <1>9

\* The thread and the IOProc never touch the same slot at the same time, although
\* no lock keeps them apart.
THEOREM RaceFree == Spec => []NoDataRace
<1> QED
  BY InvRaceFree, Invariance, PTL

-----------------------------------------------------------------------------
(* The ring implements the stream.                                         *)

LEMMA InitRefines == Init => Stream!StreamInit
  BY DEF Init, Stream!StreamInit

LEMMA StepRefines == RingInv /\ [Next]_vars => [Stream!StreamNext]_(Stream!streamVars)
<1> SUFFICES ASSUME RingInv, [Next]_vars
             PROVE  [Stream!StreamNext]_(Stream!streamVars)
  OBVIOUS
<1>0. /\ ring_written \in Nat /\ ring_read \in Nat /\ base \in Nat
      /\ RingFrames \in Nat /\ RenderFrames \in Nat /\ copied \in Nat
      /\ bytes \in Seq(Nat) /\ sample_time \in Nat
  BY RingAssumption DEF RingInv, TypeOK
<1>1. CASE Start
  <2>1. base' = base + ring_written /\ ring_written' = 0 /\ ring_read' = 0 /\ heard' = heard
    BY <1>1 DEF Start, ioVars, RingInv, ClientAlone, CountersAgree, Rendering, TypeOK
  <2>2. Stream!Restart
    BY <1>0, <2>1 DEF Stream!Restart
  <2> QED
    BY <2>2 DEF Stream!StreamNext
<1>2. CASE Publish
  <2>1. /\ ring_written' = ring_written + RenderFrames
        /\ ring_read' = ring_read /\ base' = base /\ heard' = heard
    BY <1>2 DEF Publish, ioVars
  <2>2. /\ ring_written + RenderFrames - ring_read <= RingFrames
        /\ ring_read <= ring_written
    BY <1>2 DEF Publish, RingInv, BlockFits, UnreadIntact, Rendering
  <2>3. Stream!Offer(RenderFrames)
    BY <1>0, <2>1, <2>2 DEF Stream!Offer
  <2>4. RenderFrames \in 0..RingFrames
    BY <1>0, <2>2
  <2> QED
    BY <2>3, <2>4 DEF Stream!StreamNext
<1>3. CASE IOProcEnd
  <2>1. /\ ring_written' = ring_written /\ base' = base
        /\ ring_read' = ring_read + copied /\ heard' = bytes
        /\ Len(bytes) = copied
    BY <1>3 DEF IOProcEnd
  <2>2. /\ ring_read + copied <= ring_written
        /\ ring_written - ring_read <= RingFrames
        /\ \A j \in 1..Len(bytes) : bytes[j] = base + ring_read + j - 1
    BY <1>3 DEF IOProcEnd, RingInv, CopyIsPublished, UnreadIntact
  <2>3. bytes = [j \in 1..copied |-> base + ring_read + j - 1]
    <3>1. bytes = [j \in 1..copied |-> bytes[j]]
      BY <1>0, <2>1
    <3> QED
      BY <3>1, <2>1, <2>2
  <2>4. Stream!Deliver(copied)
    BY <1>0, <2>1, <2>2, <2>3 DEF Stream!Deliver
  <2>5. copied \in 0..RingFrames
    BY <1>0, <2>2
  <2> QED
    BY <2>4, <2>5 DEF Stream!StreamNext
<1>4. CASE \/ StartDevice \/ StopProducer \/ JoinProducer \/ StopDevice
           \/ AllocateBlock \/ TestProducing \/ WaitForRoom \/ RenderBlock \/ FillSlot
           \/ (\E wanted \in Requests : IOProcBegin(wanted)) \/ TakeSlot
           \/ UNCHANGED vars
  <2>1. UNCHANGED <<base, ring_written, ring_read, heard>>
    BY <1>4 DEF StartDevice, StopProducer, JoinProducer, StopDevice, AllocateBlock,
       TestProducing, WaitForRoom, RenderBlock, FillSlot, IOProcBegin, TakeSlot,
       renderVars, ioVars, vars
  <2> QED
    BY <2>1 DEF Stream!streamVars
<1> QED
  BY <1>1, <1>2, <1>3, <1>4 DEF Next, RenderThread, IOProc, Client

\* Whatever the scheduling, the device is given FMOD's samples in order, each
\* once, with at most a ring's worth held back.
THEOREM RingImplementsStream == Spec => ImplementsStream
<1> QED
  BY InitRefines, StepRefines, Invariance, PTL DEF Spec, ImplementsStream, Stream!StreamSpec
=============================================================================
