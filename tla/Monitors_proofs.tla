--------------------------- MODULE Monitors_proofs ---------------------------
(***************************************************************************)
(* The event queue hands out each event once and in order, a discard       *)
(* spares what it should, the keys shown are the keys held, and every      *)
(* monitor hears the events it asked for: for any threads, keys, limits    *)
(* and monitors.                                                           *)
(*                                                                         *)
(* The first part is about EventQueue alone: QueueInv holds in Spec.  The  *)
(* second composes it: a step of Monitors is a step of the queue or leaves *)
(* it alone.                                                               *)
(***************************************************************************)
EXTENDS Monitors, FiniteSets, FiniteSetTheorems, SequenceTheorems, TLAPS

Coming(t) == pc[t] \in {"post", "inserting", "loop post", "loop inserting"}
Locked(t) == pc[t] \in {"inserting", "loop inserting", "look", "trim", "sweep"}

\* The event the main thread has taken and not yet sent.
Taken == \/ pc[Main] = "send"
         \/ pc[Main] = "trim" /\ call[Main].dequeue

\* A key event the main thread has taken, or is to insert.
TakenKey == Taken /\ call[Main].event.type = "key"
ComingKey == Coming(Main) /\ call[Main].event.type = "key"

\* The lock is with the thread that scans.
LockOK == \A t \in Threads : Locked(t) <=> lock = t

\* An event that is posted; key events come from the main thread's loop only.
Posted(e) == /\ e.n \in 1..posted /\ e.type \in Types
             /\ e.type = "key" => e.key \in Keys /\ ~e.front

\* What a scan found stays true under the lock; what is in a call besides.
CallOK(t) ==
    /\ pc[t] \in {"idle", "loop", "discard", "sweep"} => call[t].event = NoEvent
    /\ pc[t] \in {"loop", "loop post", "loop inserting"} => call[t].index = 0
    /\ Coming(t) => /\ Posted(call[t].event)
                    /\ call[t].event.type = "key" => t = Main
    /\ pc[t] = "look" =>
           \/ call[t].index = 0 /\ call[t].event = NoEvent
           \/ /\ call[t].index \in 1..Len(queue) /\ call[t].event = queue[call[t].index]
              /\ call[t].event.type \in call[t].mask
              /\ \A i \in 1..Len(queue) : i < call[t].index => queue[i].type \notin call[t].mask
    /\ pc[t] \in {"trim", "send"} => call[t].event = NoEvent \/ Posted(call[t].event)
    /\ pc[t] \in {"send", "loop post", "loop inserting"} => t = Main
    /\ pc[t] = "sweep" =>
           /\ call[t].index <= Len(queue)
           /\ \A i \in 1..Len(queue) : queue[i].n = call[t].before => call[t].index < i

\* Every event queued is posted, once; keys are in order, ...
QueueOK ==
    /\ \A i \in 1..Len(queue) : Posted(queue[i])
    /\ \A i, j \in 1..Len(queue) : i # j => queue[i].n # queue[j].n
    /\ \A i, j \in 1..Len(queue) :
           i < j /\ queue[i].type = "key" /\ queue[j].type = "key" => queue[i].n < queue[j].n

\* ... the one taken before those queued, and those before the one that comes.
OrderOK ==
    \A i \in 1..Len(queue) : queue[i].type = "key" =>
        /\ TakenKey => call[Main].event.n < queue[i].n
        /\ ComingKey => queue[i].n < call[Main].event.n

\* An event is in one place.
PlacesOK ==
    /\ \A t \in Threads : Coming(t) =>
           /\ call[t].event.n \notin Numbers(queue) \cup given \cup gone
           /\ \A u \in Threads \ {t} : Coming(u) => call[u].event.n # call[t].event.n
    /\ Numbers(queue) \cap (given \cup gone) = {} /\ given \cap gone = {}
    /\ {call[t].event.n : t \in {u \in Threads : Coming(u)}} \cup Numbers(queue) \cup given \cup gone
           = 1..posted

\* Key events the main thread has still to send.
Pending == {queue[i] : i \in {j \in 1..Len(queue) : queue[j].type = "key"}}
           \cup {call[t].event : t \in {u \in {Main} : TakenKey \/ ComingKey}}

\* The last of a key's pending events, or without one what is shown, is the key's state.
KeysOK ==
    upset = {} =>
        /\ Paired # {} => ~(Paired \subseteq held)
        /\ \A k \in Keys :
              /\ (\A e \in Pending : e.key # k) => key_down[k] = (k \in held)
              /\ \A e \in Pending :
                    e.key = k /\ (\A d \in Pending : d.key = k => d.n <= e.n)
                        => e.on = (k \in held)

QueueInv == TypeOK /\ LockOK /\ (\A t \in Threads : CallOK(t)) /\ QueueOK /\ OrderOK /\ PlacesOK
            /\ KeysOK

\* What the copy of the monitors' blocks holds while handlers run.
DispatchOK ==
    /\ dispatch.at \in {"out", "snapshot"} => dispatch.handlers = <<>>
    /\ dispatch.at \in {"call", "handler"} =>
         \A i \in 1..Places :
             LET m == monitors[i]
             IN  m.block # None /\ m.n <= dispatch.since /\ dispatch.type \in m.mask
                     => m.n \in dispatch.heard \/ m.block \in Range(dispatch.handlers)
    /\ ~dispatch.removed =>
         \A k \in DOMAIN dispatch.handlers : \E i \in 1..Places :
             monitors[i].block = dispatch.handlers[k] /\ dispatch.type \in monitors[i].mask

\* A monitor in the table has the number of its registration.
Numbered == \A i \in 1..Places : monitors[i].block # None => monitors[i].n \in 1..added

InputInv == InputTypeOK /\ QueueInv /\ DispatchOK /\ Numbered
-------------------------------------------------------------------------------
(* The types, in parts.                                                       *)

Pcs == {"idle", "loop", "loop post", "loop inserting", "post", "inserting",
        "look", "trim", "send", "discard", "sweep"}

CallType == [mask : SUBSET Types, dequeue : BOOLEAN, before : 0..MaxPosts,
             event : EventType, index : Nat]

KeyTypes == key_down \in [Keys -> BOOLEAN] /\ held \subseteq Keys

CountTypes == /\ posted \in 0..MaxPosts /\ calls \in 0..MaxCalls
              /\ given \subseteq 1..MaxPosts /\ gone \subseteq 1..MaxPosts
              /\ upset \subseteq {"both", "elsewhere", "lost"}

ThreadTypes == lock \in Threads \cup {None} /\ pc \in [Threads -> Pcs]
               /\ call \in [Threads -> CallType]

QueueTypes == queue \in Seq(EventType) /\ ThreadTypes /\ KeyTypes /\ CountTypes

\* TypeOK in these parts, before and after a step.
LEMMA TypeParts == (TypeOK <=> QueueTypes) /\ (TypeOK' <=> QueueTypes')
BY DEF TypeOK, QueueTypes, ThreadTypes, KeyTypes, CountTypes, Pcs, CallType

-------------------------------------------------------------------------------
(* Sequences.                                                                 *)

\* What is left of a sequence when one element is removed.
LEMMA RemovedOne ==
    ASSUME NEW S, NEW q \in Seq(S), NEW i \in 1..Len(q)
    PROVE  /\ RemoveAt(q, i) \in Seq(S)
           /\ Len(RemoveAt(q, i)) = Len(q) - 1
           /\ \A k \in 1..(Len(q) - 1) : RemoveAt(q, i)[k] = IF k < i THEN q[k] ELSE q[k + 1]
<1> DEFINE front == SubSeq(q, 1, i - 1)
           rest == SubSeq(q, i + 1, Len(q))
<1>1. Len(q) \in Nat /\ i \in Int /\ i - 1 \in Int /\ 1 \in Int /\ Len(q) \in Int /\ i + 1 \in Int
  BY LenProperties
<1>2. \A k \in 1..Len(q) : q[k] \in S
  BY ElementOfSeq
<1>3. /\ front \in Seq(S)
      /\ Len(front) = IF 1 <= i - 1 THEN (i - 1) - 1 + 1 ELSE 0
      /\ \A k \in 1..((i - 1) - 1 + 1) : front[k] = q[1 + k - 1]
  <2>1. \A k \in 1..(i - 1) : q[k] \in S
    BY <1>1, <1>2
  <2> QED
    BY <1>1, <2>1, SubSeqProperties
<1>4. /\ rest \in Seq(S)
      /\ Len(rest) = IF i + 1 <= Len(q) THEN Len(q) - (i + 1) + 1 ELSE 0
      /\ \A k \in 1..(Len(q) - (i + 1) + 1) : rest[k] = q[(i + 1) + k - 1]
  <2>1. \A k \in (i + 1)..Len(q) : q[k] \in S
    BY <1>1, <1>2
  <2> QED
    BY <1>1, <2>1, SubSeqProperties
<1>5. Len(front) = i - 1 /\ Len(rest) = Len(q) - i
  BY <1>1, <1>3, <1>4
<1>6. RemoveAt(q, i) = front \o rest
  BY DEF RemoveAt
<1> HIDE DEF front, rest
<1>7. /\ front \o rest \in Seq(S)
      /\ Len(front \o rest) = Len(front) + Len(rest)
      /\ \A k \in 1..(Len(front) + Len(rest)) :
             (front \o rest)[k] = IF k <= Len(front) THEN front[k] ELSE rest[k - Len(front)]
  BY <1>3, <1>4, ConcatProperties
<1>8. ASSUME NEW k \in 1..(Len(q) - 1)
      PROVE  RemoveAt(q, i)[k] = IF k < i THEN q[k] ELSE q[k + 1]
  <2>1. CASE k < i
    BY <1>1, <1>3, <1>5, <1>6, <1>7, <2>1
  <2>2. CASE ~ (k < i)
    <3>1. k - (i - 1) \in 1..(Len(q) - (i + 1) + 1) /\ (i + 1) + (k - (i - 1)) - 1 = k + 1
      BY <1>1, <2>2
    <3>2. rest[k - (i - 1)] = q[k + 1]
      BY <1>4, <3>1
    <3>3. (front \o rest)[k] = rest[k - (i - 1)]
      BY <1>1, <1>5, <1>7, <2>2
    <3> QED
      BY <1>6, <2>2, <3>2, <3>3
  <2> QED
    BY <2>1, <2>2
<1> QED
  BY <1>1, <1>5, <1>6, <1>7, <1>8

\* The rest of a sequence is the sequence without its first element.
LEMMA TailIsRemoval ==
    ASSUME NEW S, NEW q \in Seq(S), q # <<>>
    PROVE  1 \in 1..Len(q) /\ Head(q) = q[1] /\ Tail(q) = RemoveAt(q, 1)
<1>1. Len(q) \in Nat \ {0}
  BY EmptySeq
<1>2. 1 \in 1..Len(q)
  BY <1>1
<1>3. /\ Tail(q) \in Seq(S) /\ Len(Tail(q)) = Len(q) - 1
      /\ \A i \in 1..Len(Tail(q)) : Tail(q)[i] = q[i + 1]
  BY HeadTailProperties
<1>4. /\ RemoveAt(q, 1) \in Seq(S) /\ Len(RemoveAt(q, 1)) = Len(q) - 1
      /\ \A i \in 1..(Len(q) - 1) : RemoveAt(q, 1)[i] = IF i < 1 THEN q[i] ELSE q[i + 1]
  BY <1>2, RemovedOne
<1>5. \A i \in 1..Len(Tail(q)) : Tail(q)[i] = RemoveAt(q, 1)[i]
  BY <1>1, <1>3, <1>4
<1>6. Tail(q) = RemoveAt(q, 1)
  BY <1>3, <1>4, <1>5, SeqEqual
<1> QED
  BY <1>2, <1>6

\* The numbers of a sequence of events.
LEMMA NumbersOf ==
    ASSUME NEW S, NEW q \in Seq(S)
    PROVE  Numbers(q) = {q[i].n : i \in 1..Len(q)}
BY LenProperties DEF Numbers

\* An event leaves the queue.
LEMMA Removal ==
    ASSUME TypeOK, QueueOK, NEW i \in 1..Len(queue), queue' = RemoveAt(queue, i), posted' = posted
    PROVE  /\ queue' \in Seq(EventType) /\ Len(queue') = Len(queue) - 1
           /\ Numbers(queue)' = Numbers(queue) \ {queue[i].n}
           /\ QueueOK'
           /\ \A k \in 1..Len(queue') : \E j \in 1..Len(queue) : j # i /\ queue'[k] = queue[j]
           /\ \A j \in 1..Len(queue) : j # i => \E k \in 1..Len(queue') : queue'[k] = queue[j]
<1>1. queue \in Seq(EventType)
  BY DEF TypeOK
<1>2. Len(queue) \in Nat
  BY <1>1, LenProperties
<1>3. /\ queue' \in Seq(EventType) /\ Len(queue') = Len(queue) - 1
      /\ \A k \in 1..Len(queue') : queue'[k] = IF k < i THEN queue[k] ELSE queue[k + 1]
  BY <1>1, RemovedOne
<1>4. \A k \in 1..Len(queue') : \E j \in 1..Len(queue) :
          j # i /\ queue'[k] = queue[j] /\ j = (IF k < i THEN k ELSE k + 1)
  BY <1>2, <1>3
<1>5. ASSUME NEW j \in 1..Len(queue), j # i
      PROVE  \E k \in 1..Len(queue') : queue'[k] = queue[j]
  <2>1. CASE j < i
    BY <1>2, <1>3, <2>1
  <2>2. CASE j > i
    <3>1. j - 1 \in 1..Len(queue') /\ ~ (j - 1 < i) /\ (j - 1) + 1 = j
      BY <1>2, <1>3, <2>2
    <3> QED
      BY <1>3, <3>1
  <2> QED
    BY <1>2, <1>5, <2>1, <2>2
<1>6. Numbers(queue)' = Numbers(queue) \ {queue[i].n}
  <2>1. Numbers(queue) = {queue[j].n : j \in 1..Len(queue)}
    BY <1>1, NumbersOf
  <2>2. Numbers(queue') = {queue'[k].n : k \in 1..Len(queue')}
    BY <1>3, NumbersOf
  <2>3. \A j, k \in 1..Len(queue) : j # k => queue[j].n # queue[k].n
    BY DEF QueueOK
  <2>4. Numbers(queue') \subseteq Numbers(queue) \ {queue[i].n}
    BY <1>4, <2>1, <2>2, <2>3
  <2>5. Numbers(queue) \ {queue[i].n} \subseteq Numbers(queue')
    BY <1>5, <2>1, <2>2
  <2> QED
    BY <2>4, <2>5
<1>7. QueueOK'
  <2>1. \A k \in 1..Len(queue') : Posted(queue[k])'
    BY <1>4 DEF QueueOK, Posted
  <2>2. ASSUME NEW k \in 1..Len(queue'), NEW l \in 1..Len(queue')
        PROVE  /\ k # l => queue'[k].n # queue'[l].n
               /\ k < l /\ queue'[k].type = "key" /\ queue'[l].type = "key"
                     => queue'[k].n < queue'[l].n
    <3>1. PICK a \in 1..Len(queue) : queue'[k] = queue[a] /\ a = (IF k < i THEN k ELSE k + 1)
      BY <1>4
    <3>2. PICK b \in 1..Len(queue) : queue'[l] = queue[b] /\ b = (IF l < i THEN l ELSE l + 1)
      BY <1>4
    <3>3. (k # l => a # b) /\ (k < l => a < b)
      BY <1>2, <1>3, <3>1, <3>2
    <3> QED
      BY <3>1, <3>2, <3>3 DEF QueueOK
  <2> QED
    BY <2>1, <2>2 DEF QueueOK
<1> QED
  BY <1>3, <1>4, <1>5, <1>6, <1>7

\* An event comes to the queue: to its end, or when it is no key to its start.
LEMMA Addition ==
    ASSUME TypeOK, QueueOK, NEW e \in EventType, Posted(e), e.n \notin Numbers(queue),
           e.type = "key" => \A i \in 1..Len(queue) : queue[i].type = "key" => queue[i].n < e.n,
           queue' = Insertion(e), posted' = posted
    PROVE  /\ queue' \in Seq(EventType)
           /\ Numbers(queue)' = Numbers(queue) \cup {e.n}
           /\ QueueOK'
           /\ \A k \in 1..Len(queue') : queue'[k] = e \/ \E j \in 1..Len(queue) : queue'[k] = queue[j]
           /\ \A j \in 1..Len(queue) : \E k \in 1..Len(queue') : queue'[k] = queue[j]
           /\ \E k \in 1..Len(queue') : queue'[k] = e
<1> DEFINE at == IF e.front THEN 1 ELSE Len(queue) + 1
           old(k) == IF e.front THEN k - 1 ELSE k
<1>1. queue \in Seq(EventType)
  BY DEF TypeOK
<1>2. Len(queue) \in Nat
  BY <1>1, LenProperties
<1>3. /\ queue' \in Seq(EventType) /\ Len(queue') = Len(queue) + 1
      /\ queue'[at] = e
      /\ \A k \in 1..Len(queue') : k # at => queue'[k] = queue[old(k)]
  <2>1. CASE e.front
    <3>1. queue' = <<e>> \o queue /\ <<e>> \in Seq(EventType) /\ Len(<<e>>) = 1 /\ <<e>>[1] = e
      BY <2>1 DEF Insertion
    <3>2. /\ <<e>> \o queue \in Seq(EventType) /\ Len(<<e>> \o queue) = Len(<<e>>) + Len(queue)
          /\ \A k \in 1..(Len(<<e>>) + Len(queue)) : (<<e>> \o queue)[k] =
                 IF k <= Len(<<e>>) THEN <<e>>[k] ELSE queue[k - Len(<<e>>)]
      BY <1>1, <3>1, ConcatProperties
    <3> QED
      BY <1>2, <2>1, <3>1, <3>2
  <2>2. CASE ~e.front
    <3>1. queue' = Append(queue, e)
      BY <2>2 DEF Insertion
    <3>2. /\ Append(queue, e) \in Seq(EventType) /\ Len(Append(queue, e)) = Len(queue) + 1
          /\ \A k \in 1..Len(queue) : Append(queue, e)[k] = queue[k]
          /\ Append(queue, e)[Len(queue) + 1] = e
      BY <1>1, AppendProperties
    <3> QED
      BY <1>2, <2>2, <3>1, <3>2
  <2> QED
    BY <2>1, <2>2
<1>4. at \in 1..Len(queue')
  BY <1>2, <1>3
<1>5. \A k \in 1..Len(queue') : k # at => old(k) \in 1..Len(queue)
  BY <1>2, <1>3
<1>6. \A j \in 1..Len(queue) : \E k \in 1..Len(queue') : k # at /\ old(k) = j
  <2> SUFFICES ASSUME NEW j \in 1..Len(queue)
               PROVE  \E k \in 1..Len(queue') : k # at /\ old(k) = j
    OBVIOUS
  <2>1. CASE e.front
    <3>1. j + 1 \in 1..Len(queue') /\ j + 1 # at /\ old(j + 1) = j
      BY <1>2, <1>3, <2>1
    <3> QED
      BY <3>1
  <2>2. CASE ~e.front
    <3>1. j \in 1..Len(queue') /\ j # at /\ old(j) = j
      BY <1>2, <1>3, <2>2
    <3> QED
      BY <3>1
  <2> QED
    BY <2>1, <2>2
<1>7. \A k, l \in 1..Len(queue') : k # at /\ l # at =>
          (k # l => old(k) # old(l)) /\ (k < l => old(k) < old(l))
  BY <1>2, <1>3
<1>8. e.type = "key" => \A k \in 1..Len(queue') : k <= at
  BY <1>2, <1>3 DEF Posted
<1> HIDE DEF at, old
<1>9. \A k \in 1..Len(queue') : k # at => \E j \in 1..Len(queue) : queue'[k] = queue[j]
  BY <1>3, <1>5
<1>10. \A j \in 1..Len(queue) : \E k \in 1..Len(queue') : k # at /\ queue'[k] = queue[j]
  BY <1>3, <1>6
<1>11. Numbers(queue)' = Numbers(queue) \cup {e.n}
  <2>1. Numbers(queue) = {queue[j].n : j \in 1..Len(queue)}
    BY <1>1, NumbersOf
  <2>2. Numbers(queue') = {queue'[k].n : k \in 1..Len(queue')}
    BY <1>3, NumbersOf
  <2>3. Numbers(queue') \subseteq Numbers(queue) \cup {e.n}
    BY <1>3, <1>9, <2>1, <2>2
  <2>4. Numbers(queue) \cup {e.n} \subseteq Numbers(queue')
    BY <1>3, <1>4, <1>10, <2>1, <2>2
  <2> QED
    BY <2>3, <2>4
<1>12. QueueOK'
  <2>1. \A k \in 1..Len(queue') : Posted(queue[k])'
    BY <1>3, <1>9 DEF QueueOK, Posted
  <2>2. \A j \in 1..Len(queue) : queue[j].n # e.n
    BY <1>1, NumbersOf
  <2>3. ASSUME NEW k \in 1..Len(queue'), NEW l \in 1..Len(queue')
        PROVE  /\ k # l => queue'[k].n # queue'[l].n
               /\ k < l /\ queue'[k].type = "key" /\ queue'[l].type = "key"
                     => queue'[k].n < queue'[l].n
    <3>1. CASE k # at /\ l # at
      BY <1>3, <1>5, <1>7, <3>1 DEF QueueOK
    <3>2. CASE k = at /\ l # at
      <4>1. PICK j \in 1..Len(queue) : queue'[l] = queue[j]
        BY <1>9, <3>2
      <4>2. e.type = "key" => l <= k
        BY <1>8, <3>2
      <4>3. e.type = "key" => ~ (k < l)
        BY <1>3, <4>2
      <4> QED
        BY <1>3, <2>2, <3>2, <4>1, <4>3
    <3>3. CASE k # at /\ l = at
      <4>1. PICK j \in 1..Len(queue) : queue'[k] = queue[j]
        BY <1>9, <3>3
      <4> QED
        BY <1>3, <2>2, <3>3, <4>1
    <3>4. CASE k = at /\ l = at
      BY <1>2, <1>3, <3>4
    <3> QED
      BY <3>1, <3>2, <3>3, <3>4
  <2> QED
    BY <2>1, <2>3 DEF QueueOK
<1> QED
  BY <1>3, <1>4, <1>9, <1>10, <1>11, <1>12

\* A set of numbers that is not empty has a least one.
LEMMA Least ==
    ASSUME NEW T \in SUBSET Nat, T # {}
    PROVE  \E x \in T : \A y \in T : x <= y
<1> DEFINE below == {0..n : n \in T}
<1>1. below \subseteq FiniteSubsetsOf(Nat) /\ below # {}
  <2>1. \A n \in T : n \in Int /\ 0..n \subseteq Nat
    OBVIOUS
  <2>2. \A n \in T : IsFiniteSet(0..n)
    BY <2>1, FS_Interval
  <2> QED
    BY <2>1, <2>2 DEF FiniteSubsetsOf
<1>2. IsWellFoundedOn(StrictSubsetOrdering(Nat), FiniteSubsetsOf(Nat))
  BY FS_StrictSubsetOrderingWellFounded
<1> HIDE DEF below
<1>3. PICK m \in below : \A b \in below : ~ (<<b, m>> \in StrictSubsetOrdering(Nat))
  BY <1>1, <1>2, WFMin
<1>4. PICK x \in T : m = 0..x
  BY <1>3 DEF below
<1>5. ASSUME NEW y \in T, y < x PROVE FALSE
  <2>1. 0..y \in below
    BY DEF below
  <2>2. 0..y \subseteq 0..x /\ 0..y # 0..x /\ 0..y \in SUBSET Nat /\ 0..x \in SUBSET Nat
    <3>1. x \in 0..x /\ x \notin 0..y
      BY <1>5
    <3> QED
      BY <1>5, <3>1
  <2>3. <<0..y, 0..x>> \in StrictSubsetOrdering(Nat)
    BY <2>2 DEF StrictSubsetOrdering
  <2> QED
    BY <1>3, <1>4, <2>1, <2>3
<1> QED
  BY <1>5

\* The least of a set of numbers.
LEMMA MinFacts ==
    ASSUME NEW T \in SUBSET Nat, T # {}
    PROVE  Min(T) \in T /\ \A y \in T : Min(T) <= y
<1>1. PICK x \in T : \A y \in T : x <= y
  BY Least
<1> QED
  BY <1>1 DEF Min

-------------------------------------------------------------------------------
(* What a step of one thread leaves alone.                                    *)

\* How a step of a thread may treat the lock.
LockStep(t) ==
    \/ lock' = lock /\ (Locked(t)' <=> Locked(t))
    \/ lock = None /\ lock' = t /\ Locked(t)'
    \/ lock = t /\ lock' = None /\ ~Locked(t)'

\* What a step of thread t writes of the threads' state.
Does(t, p, c) == pc' = [pc EXCEPT ![t] = p] /\ call' = [call EXCEPT ![t] = c]

\* The fields of a call have their types.
LEMMA CallFields ==
    ASSUME ThreadTypes, NEW t \in Threads
    PROVE  /\ call[t] \in CallType /\ call[t].mask \in SUBSET Types /\ call[t].dequeue \in BOOLEAN
           /\ call[t].before \in 0..MaxPosts /\ call[t].event \in EventType
           /\ call[t].index \in Nat /\ pc[t] \in Pcs
BY DEF ThreadTypes, CallType

\* No call, and no event, has its type.
LEMMA NoCallTyped == NoEvent \in EventType /\ NoCall \in CallType /\ NoEvent.type = "none"
<1>1. NoEvent \in EventType
  BY QueueAssumption DEF NoEvent, EventType
<1>2. NoCall \in CallType
  BY <1>1, QueueAssumption DEF NoCall, NewCall, CallType
<1> QED
  BY <1>1, <1>2 DEF NoEvent

\* The threads after a step.
LEMMA StepTypes ==
    ASSUME ThreadTypes, NEW t \in Threads, NEW p \in Pcs, NEW c \in CallType, Does(t, p, c)
    PROVE  /\ pc' \in [Threads -> Pcs] /\ call' \in [Threads -> CallType]
           /\ pc'[t] = p /\ call'[t] = c
           /\ \A u \in Threads : u # t => pc'[u] = pc[u] /\ call'[u] = call[u]
BY DEF ThreadTypes, Does

\* The lock stays with the thread that scans.
LEMMA LockKept ==
    ASSUME QueueInv, NEW t \in Threads, LockStep(t),
           \A u \in Threads : u # t => pc'[u] = pc[u]
    PROVE  LockOK' /\ lock' \in Threads \cup {None}
<1>1. /\ \A u \in Threads : Locked(u) <=> lock = u
      /\ lock \in Threads \cup {None} /\ None \notin Threads
  BY QueueAssumption DEF QueueInv, LockOK, TypeOK
<1>2. \A u \in Threads : u # t => (Locked(u)' <=> Locked(u))
  BY DEF Locked
<1>3. (Locked(t)' <=> lock' = t) /\ \A u \in Threads : u # t => (lock' = u <=> lock = u)
  BY <1>1 DEF LockStep
<1> QED
  BY <1>1, <1>2, <1>3 DEF LockOK, LockStep

\* The calls of the other threads are as they were: what a scan found is only of use
\* under the lock.
LEMMA OthersKept ==
    ASSUME QueueInv, NEW t \in Threads, posted <= posted', posted' \in Nat,
           queue' = queue \/ lock = t,
           \A u \in Threads : u # t => pc'[u] = pc[u] /\ call'[u] = call[u]
    PROVE  \A u \in Threads : u # t => CallOK(u)'
<1> SUFFICES ASSUME NEW u \in Threads, u # t PROVE CallOK(u)'
  OBVIOUS
<1>1. CallOK(u) /\ pc'[u] = pc[u] /\ call'[u] = call[u]
  BY DEF QueueInv
<1>2. pc[u] \in {"look", "sweep"} => queue' = queue
  <2>1. Locked(u) <=> lock = u
    BY DEF QueueInv, LockOK
  <2> QED
    BY <2>1 DEF Locked
<1>3. Coming(u)' <=> Coming(u)
  BY <1>1 DEF Coming
<1>4. posted \in Nat
  BY TypeParts DEF QueueInv, QueueTypes, CountTypes
<1>5. Posted(call[u].event) => Posted(call[u].event)'
  BY <1>1, <1>4 DEF Posted
<1> QED
  BY <1>1, <1>2, <1>3, <1>5 DEF CallOK

\* The main thread's events are another thread's business in no way.
LEMMA MainKept ==
    ASSUME NEW t \in Threads, t # Main, pc'[Main] = pc[Main], call'[Main] = call[Main]
    PROVE  /\ TakenKey' <=> TakenKey
           /\ ComingKey' <=> ComingKey
           /\ call'[Main].event = call[Main].event
BY DEF TakenKey, ComingKey, Taken, Coming

IsPending(e) ==
    \/ \E i \in 1..Len(queue) : queue[i].type = "key" /\ e = queue[i]
    \/ (TakenKey \/ ComingKey) /\ e = call[Main].event

\* The key events still to be sent are those queued and that of the main thread's call.
LEMMA PendingEvents == (\A e : e \in Pending <=> IsPending(e)) /\ (\A e : e \in Pending' <=> IsPending(e)')
<1>1. \A e : e \in Pending <=> IsPending(e)
  BY DEF Pending, IsPending
<1>2. ASSUME NEW e PROVE e \in Pending' <=> IsPending(e)'
  BY DEF Pending, IsPending
<1> QED
  BY <1>1, <1>2

\* A step that moves no event and no key leaves the rest alone.
LEMMA QuietStep ==
    ASSUME QueueInv, NEW t \in Threads, NEW p \in Pcs, NEW c \in CallType, Does(t, p, c),
           UNCHANGED <<queue, key_down, held, posted, given, gone, upset>>, calls' \in 0..MaxCalls,
           LockStep(t),
           Coming(t)' <=> Coming(t), Coming(t) => c.event = call[t].event,
           t = Main => /\ TakenKey' <=> TakenKey
                       /\ TakenKey => c.event = call[t].event,
           CallOK(t)'
    PROVE  QueueInv'
<1>1. QueueTypes
  BY TypeParts DEF QueueInv
<1>2. /\ pc' \in [Threads -> Pcs] /\ call' \in [Threads -> CallType]
      /\ pc'[t] = p /\ call'[t] = c
      /\ \A u \in Threads : u # t => pc'[u] = pc[u] /\ call'[u] = call[u]
  BY <1>1, StepTypes DEF QueueTypes
<1>3. LockOK' /\ lock' \in Threads \cup {None}
  BY <1>2, LockKept
<1>4. TypeOK'
  BY <1>1, <1>2, <1>3, TypeParts DEF QueueTypes, ThreadTypes, KeyTypes, CountTypes
<1>5. \A u \in Threads : CallOK(u)'
  <2>1. posted \in Nat
    BY <1>1 DEF QueueTypes, CountTypes
  <2>2. \A u \in Threads : u # t => CallOK(u)'
    BY <1>2, <2>1, OthersKept
  <2> QED
    BY <2>2
<1>6. QueueOK'
  BY DEF QueueInv, QueueOK, Posted
<1>7. /\ TakenKey' <=> TakenKey
      /\ ComingKey' <=> ComingKey
      /\ TakenKey \/ ComingKey => call'[Main].event = call[Main].event
  <2>1. CASE t = Main
    BY <1>2, <2>1 DEF ComingKey, Coming
  <2>2. CASE t # Main
    <3>1. Main \in Threads
      BY DEF Threads
    <3> QED
      BY <1>2, <2>2, <3>1, MainKept
  <2> QED
    BY <2>1, <2>2
<1>8. OrderOK'
  BY <1>7 DEF QueueInv, OrderOK
<1>9. Pending' = Pending
  <2>1. \A e : e \in Pending' <=> e \in Pending
    <3> SUFFICES ASSUME NEW e PROVE IsPending(e)' <=> IsPending(e)
      BY PendingEvents
    <3> QED
      BY <1>7 DEF IsPending
  <2> QED
    BY <2>1 DEF Pending
<1>10. KeysOK'
  BY <1>9 DEF QueueInv, KeysOK
<1>11. PlacesOK'
  <2>1. \A u \in Threads : (Coming(u)' <=> Coming(u)) /\ (Coming(u) => call'[u].event = call[u].event)
    BY <1>2 DEF Coming
  <2>2. {u \in Threads : Coming(u)}' = {u \in Threads : Coming(u)}
    BY <2>1
  <2>3. {call[u].event.n : u \in {w \in Threads : Coming(w)}}'
            = {call[u].event.n : u \in {w \in Threads : Coming(w)}}
    BY <2>1, <2>2
  <2> QED
    BY <2>1, <2>3 DEF QueueInv, PlacesOK
<1> QED
  BY <1>3, <1>4, <1>5, <1>6, <1>8, <1>10, <1>11 DEF QueueInv

-------------------------------------------------------------------------------
(* The actions that move no event.                                            *)

\* What is known of a thread.
LEMMA ThreadFacts ==
    ASSUME QueueInv, NEW t \in Threads
    PROVE  /\ call[t] \in CallType /\ call[t].mask \in SUBSET Types /\ call[t].dequeue \in BOOLEAN
           /\ call[t].before \in 0..MaxPosts /\ call[t].event \in EventType
           /\ call[t].index \in Nat /\ pc[t] \in Pcs
           /\ pc \in [Threads -> Pcs] /\ call \in [Threads -> CallType]
           /\ CallOK(t) /\ (lock = t <=> Locked(t)) /\ Main \in Threads /\ None \notin Threads
           /\ queue \in Seq(EventType) /\ Len(queue) \in Nat
           /\ posted \in 0..MaxPosts /\ calls \in 0..MaxCalls /\ MaxPosts \in Nat
<1>1. QueueTypes
  BY TypeParts DEF QueueInv
<1>2. ThreadTypes
  BY <1>1 DEF QueueTypes
<1>3. pc \in [Threads -> Pcs] /\ call \in [Threads -> CallType]
  BY <1>2 DEF ThreadTypes
<1>4. CallOK(t) /\ (lock = t <=> Locked(t))
  BY DEF QueueInv, LockOK
<1>5. Main \in Threads /\ None \notin Threads /\ MaxPosts \in Nat
  BY QueueAssumption DEF Threads
<1>6. queue \in Seq(EventType) /\ Len(queue) \in Nat
  BY <1>1, LenProperties DEF QueueTypes
<1>7. posted \in 0..MaxPosts /\ calls \in 0..MaxCalls
  BY <1>1 DEF QueueTypes, CountTypes
<1> QED
  BY <1>2, <1>3, <1>4, <1>5, <1>6, <1>7, CallFields

\* A thread takes the lock to insert its event.
LEMMA AcquireInv ==
    ASSUME QueueInv, NEW t \in Threads,
           Acquire(t, "post", "inserting") \/ Acquire(t, "loop post", "loop inserting"),
           UNCHANGED <<queue, call, key_down, held, posted, calls, given, gone, upset>>
    PROVE  QueueInv'
<1>1. PICK p \in {"inserting", "loop inserting"} :
          /\ pc[t] = (IF p = "inserting" THEN "post" ELSE "loop post")
          /\ lock = None /\ lock' = t /\ pc' = [pc EXCEPT ![t] = p]
  BY DEF Acquire
<1>2. p \in Pcs /\ call' = [call EXCEPT ![t] = call[t]]
  BY ThreadFacts DEF Pcs
<1>3. Does(t, p, call[t])
  BY <1>1, <1>2 DEF Does
<1>4. pc'[t] = p /\ call'[t] = call[t]
  BY <1>1, ThreadFacts
<1>5. Locked(t)' /\ Coming(t) /\ Coming(t)'
  BY <1>1, <1>4 DEF Locked, Coming
<1>6. t = Main => (TakenKey' <=> TakenKey) /\ call[t].event = call[t].event
  BY <1>1, <1>4 DEF TakenKey, Taken
<1>7. CallOK(t)'
  BY <1>1, <1>4, <1>5, ThreadFacts DEF CallOK, Posted, Coming
<1>8. LockStep(t)
  BY <1>1, <1>5 DEF LockStep
<1>9. call[t] \in CallType /\ calls' \in 0..MaxCalls
  BY ThreadFacts
<1> QED
  BY <1>2, <1>3, <1>4, <1>5, <1>6, <1>7, <1>8, <1>9, QuietStep

\* A call begins.
LEMMA CallBegins ==
    ASSUME QueueInv, NEW t \in Threads, CountCall(t), pc[t] = "idle",
           NEW p \in {"loop", "discard"}, NEW c \in CallType,
           c.event = NoEvent, c.index = 0, Does(t, p, c),
           UNCHANGED <<queue, lock, key_down, held, posted, given, gone, upset>>
    PROVE  QueueInv'
<1>1. p \in Pcs
  BY DEF Pcs
<1>2. pc'[t] = p /\ call'[t] = c
  BY ThreadFacts DEF Does
<1>3. ~Locked(t) /\ ~Locked(t)' /\ ~Coming(t) /\ ~Coming(t)'
  BY <1>2 DEF Locked, Coming
<1>4. t = Main => (TakenKey' <=> TakenKey) /\ ~TakenKey
  BY <1>2 DEF TakenKey, Taken
<1>5. CallOK(t)'
  BY <1>2, <1>3 DEF CallOK
<1>6. LockStep(t)
  BY <1>3 DEF LockStep
<1>7. calls' \in 0..MaxCalls
  <2>1. MaxCalls \in Nat
    BY QueueAssumption
  <2> QED
    BY <2>1, ThreadFacts DEF CountCall
<1> QED
  BY <1>1, <1>3, <1>4, <1>5, <1>6, <1>7, QuietStep

\* A thread asks for the next event.
LEMMA NextEventInv ==
    ASSUME QueueInv, NEW t \in Threads, NEW mask \in Masks, NEW dequeue \in BOOLEAN,
           NextEvent(t, mask, dequeue)
    PROVE  QueueInv'
<1> DEFINE c == NewCall(mask, dequeue, 0)
<1>2. c \in CallType /\ c.event = NoEvent /\ c.index = 0
  BY NoCallTyped, QueueAssumption DEF CallType, NewCall
<1>3. Does(t, "loop", c) /\ CountCall(t) /\ pc[t] = "idle"
  BY DEF Does, NextEvent
<1>4. UNCHANGED <<queue, lock, key_down, held, posted, given, gone, upset>>
  BY DEF NextEvent
<1> HIDE DEF c
<1> QED
  BY <1>2, <1>3, <1>4, CallBegins

\* A thread discards events.
LEMMA DiscardInv ==
    ASSUME QueueInv, NEW t \in Threads, NEW mask \in Masks, NEW before \in Numbers(queue) \cup {0},
           DiscardEvents(t, mask, before)
    PROVE  QueueInv'
<1> DEFINE c == NewCall(mask, FALSE, before)
<1>2. before \in 0..MaxPosts
  <2>1. \A i \in 1..Len(queue) : queue[i].n \in 1..posted
    BY DEF QueueInv, QueueOK, Posted
  <2>2. Numbers(queue) = {queue[i].n : i \in 1..Len(queue)}
    BY ThreadFacts, NumbersOf
  <2> QED
    BY <2>1, <2>2, ThreadFacts
<1>3. c \in CallType /\ c.event = NoEvent /\ c.index = 0
  BY <1>2, NoCallTyped, QueueAssumption DEF CallType, NewCall
<1>4. Does(t, "discard", c) /\ CountCall(t) /\ pc[t] = "idle"
  BY DEF Does, DiscardEvents
<1>5. UNCHANGED <<queue, lock, key_down, held, posted, given, gone, upset>>
  BY DEF DiscardEvents
<1> HIDE DEF c
<1> QED
  BY <1>3, <1>4, <1>5, CallBegins

\* A scan finds the first event of the types asked for.
LEMMA LookInv ==
    ASSUME QueueInv, NEW t \in Threads, Look(t)
    PROVE  QueueInv'
<1> DEFINE wanted == {i \in DOMAIN queue : queue[i].type \in call[t].mask}
<1>1. /\ pc[t] = "loop" /\ lock = None /\ lock' = t /\ pc' = [pc EXCEPT ![t] = "look"]
      /\ UNCHANGED <<queue, key_down, held, posted, calls, given, gone, upset>>
  BY DEF Look, Acquire
<1>2. DOMAIN queue = 1..Len(queue)
  BY ThreadFacts, LenProperties
<1>3. call[t].event = NoEvent /\ call[t].index = 0
  BY <1>1, ThreadFacts DEF CallOK
<1>4. PICK c \in CallType :
          /\ call' = [call EXCEPT ![t] = c] /\ c.mask = call[t].mask
          /\ \/ c.index = 0 /\ c.event = NoEvent
             \/ /\ c.index \in 1..Len(queue) /\ c.event = queue[c.index]
                /\ c.event.type \in c.mask
                /\ \A i \in 1..Len(queue) : i < c.index => queue[i].type \notin c.mask
  <2>1. CASE wanted = {}
    <3>1. call' = [call EXCEPT ![t] = call[t]]
      BY <2>1, ThreadFacts DEF Look
    <3> QED
      BY <1>3, <3>1, ThreadFacts
  <2>2. CASE wanted # {}
    <3>1. PICK m : m = Min(wanted)
      OBVIOUS
    <3>2. call' = [call EXCEPT ![t].index = m, ![t].event = queue[m]]
      BY <2>2, <3>1 DEF Look
    <3>3. wanted \in SUBSET Nat
      BY <1>2
    <3> HIDE DEF wanted
    <3>4. m \in wanted /\ \A i \in wanted : m <= i
      BY <2>2, <3>1, <3>3, MinFacts
    <3>5. /\ m \in 1..Len(queue) /\ queue[m].type \in call[t].mask
          /\ \A i \in 1..Len(queue) : i < m => queue[i].type \notin call[t].mask
      BY <1>2, <3>4, ThreadFacts DEF wanted
    <3>6. queue[m] \in EventType
      BY <3>5, ThreadFacts, ElementOfSeq
    <3>7. PICK first : first = [call EXCEPT ![t].index = m]
      OBVIOUS
    <3>8. first = [call EXCEPT ![t] = [call[t] EXCEPT !.index = m]]
      BY <3>7, ThreadFacts
    <3>9. PICK d : d = [call[t] EXCEPT !.index = m]
      OBVIOUS
    <3>10. /\ d \in CallType /\ d.index = m /\ d.mask = call[t].mask
      <4>1. m \in Nat /\ call[t] \in CallType
        BY <3>5, ThreadFacts
      <4> QED
        BY <3>9, <4>1 DEF CallType
    <3>11. first \in [Threads -> CallType] /\ first[t] = d /\ first = [call EXCEPT ![t] = d]
      BY <3>8, <3>9, <3>10, ThreadFacts
    <3>12. call' = [first EXCEPT ![t].event = queue[m]]
      BY <3>2, <3>7
    <3>13. PICK c : c = [d EXCEPT !.event = queue[m]]
      OBVIOUS
    <3>14. /\ c \in CallType /\ c.index = m /\ c.mask = call[t].mask /\ c.event = queue[m]
      BY <3>6, <3>10, <3>13 DEF CallType
    <3>15. call' = [call EXCEPT ![t] = c]
      BY <3>11, <3>12, <3>13, ThreadFacts
    <3> QED
      BY <3>5, <3>14, <3>15
  <2> QED
    BY <2>1, <2>2
<1>5. Does(t, "look", c) /\ "look" \in Pcs
  BY <1>1, <1>4 DEF Does, Pcs
<1>6. pc'[t] = "look" /\ call'[t] = c
  BY <1>1, <1>4, ThreadFacts
<1>7. Locked(t)' /\ ~Coming(t) /\ ~Coming(t)'
  BY <1>1, <1>6 DEF Locked, Coming
<1>8. t = Main => (TakenKey' <=> TakenKey) /\ ~TakenKey
  BY <1>1, <1>6 DEF TakenKey, Taken
<1>9. CallOK(t)'
  BY <1>1, <1>4, <1>6, <1>7 DEF CallOK
<1>10. LockStep(t)
  BY <1>1, <1>7 DEF LockStep
<1>11. calls' \in 0..MaxCalls
  BY <1>1, ThreadFacts
<1> QED
  BY <1>1, <1>5, <1>7, <1>8, <1>9, <1>10, <1>11, QuietStep

\* A discard finds where it ends: the events from the one it names on are beyond.
LEMMA FindStopInv ==
    ASSUME QueueInv, NEW t \in Threads, FindStop(t)
    PROVE  QueueInv'
<1> DEFINE before == call[t].before
           stop == StopBefore(before)
<1>1. /\ pc[t] = "discard" /\ lock = None /\ lock' = t /\ pc' = [pc EXCEPT ![t] = "sweep"]
      /\ UNCHANGED <<queue, key_down, held, posted, calls, given, gone, upset>>
      /\ call' = [call EXCEPT ![t].index = stop]
  BY DEF FindStop, Acquire
<1>2. /\ stop \in Nat /\ stop <= Len(queue)
      /\ \A i \in 1..Len(queue) : queue[i].n = before => stop < i
  <2>1. DOMAIN queue = 1..Len(queue) /\ Numbers(queue) = {queue[i].n : i \in 1..Len(queue)}
    BY ThreadFacts, LenProperties, NumbersOf
  <2>2. CASE before \in Numbers(queue)
    <3>1. PICK at : at = CHOOSE i \in DOMAIN queue : queue[i].n = before
      OBVIOUS
    <3>2. at \in 1..Len(queue) /\ queue[at].n = before
      BY <2>1, <2>2, <3>1
    <3>3. stop = at - 1
      BY <2>2, <3>1 DEF StopBefore
    <3>4. \A i \in 1..Len(queue) : queue[i].n = before => i = at
      BY <3>2 DEF QueueInv, QueueOK
    <3> QED
      BY <3>2, <3>3, <3>4, ThreadFacts
  <2>3. CASE before \notin Numbers(queue)
    <3>1. stop = Len(queue)
      BY <2>3 DEF StopBefore
    <3> QED
      BY <2>1, <2>3, <3>1, ThreadFacts
  <2> QED
    BY <2>2, <2>3
<1> HIDE DEF stop
<1>3. PICK c : c = [call[t] EXCEPT !.index = stop]
  OBVIOUS
<1>4. c \in CallType /\ c.index = stop /\ c.before = before /\ c.event = call[t].event
  BY <1>2, <1>3, ThreadFacts DEF CallType
<1>5. Does(t, "sweep", c) /\ "sweep" \in Pcs
  BY <1>1, <1>3, ThreadFacts DEF Does, Pcs
<1>6. pc'[t] = "sweep" /\ call'[t] = c
  BY <1>5, ThreadFacts DEF Does
<1>7. Locked(t)' /\ ~Coming(t) /\ ~Coming(t)'
  BY <1>1, <1>6 DEF Locked, Coming
<1>8. t = Main => (TakenKey' <=> TakenKey) /\ ~TakenKey
  BY <1>1, <1>6 DEF TakenKey, Taken
<1>9. CallOK(t)'
  <2>1. call[t].event = NoEvent
    BY <1>1, ThreadFacts DEF CallOK
  <2> QED
    BY <1>1, <1>2, <1>4, <1>6, <1>7, <2>1 DEF CallOK
<1>10. LockStep(t)
  BY <1>1, <1>7 DEF LockStep
<1>11. calls' \in 0..MaxCalls
  BY <1>1, ThreadFacts
<1> QED
  BY <1>1, <1>4, <1>5, <1>7, <1>8, <1>9, <1>10, <1>11, QuietStep

-------------------------------------------------------------------------------
(* The actions that move an event.                                            *)

\* The same events pending, the same keys held and shown.
LEMMA KeysSame ==
    ASSUME KeysOK, Pending' = Pending, UNCHANGED <<key_down, held>>, upset' = {} => upset = {}
    PROVE  KeysOK'
BY DEF KeysOK

\* The events that are coming, when those of a step are the same.
LEMMA ComingSame ==
    ASSUME NEW t \in Threads, ~Coming(t), ~Coming(t)',
           \A u \in Threads : u # t => pc'[u] = pc[u] /\ call'[u] = call[u]
    PROVE  /\ \A u \in Threads : Coming(u)' <=> Coming(u)
           /\ \A u \in Threads : Coming(u) => call'[u].event = call[u].event
           /\ {call[u].event.n : u \in {w \in Threads : Coming(w)}}'
                  = {call[u].event.n : u \in {w \in Threads : Coming(w)}}
<1>1. \A u \in Threads : Coming(u)' <=> Coming(u)
  BY DEF Coming
<1>2. \A u \in Threads : Coming(u) => call'[u].event = call[u].event
  OBVIOUS
<1>3. {u \in Threads : Coming(u)}' = {u \in Threads : Coming(u)}
  BY <1>1
<1> QED
  BY <1>1, <1>2, <1>3

\* An event leaves the queue, given to the caller or gone.
LEMMA Leaving ==
    ASSUME QueueInv, NEW t \in Threads, NEW p \in Pcs, NEW c \in CallType, Does(t, p, c),
           lock = t, NEW i \in 1..Len(queue), queue' = RemoveAt(queue, i),
           \/ given' = given \cup {queue[i].n} /\ gone' = gone
           \/ gone' = gone \cup {queue[i].n} /\ given' = given,
           UNCHANGED <<key_down, held, posted, calls>>,
           upset \subseteq upset', upset' \subseteq {"both", "elsewhere", "lost"},
           LockStep(t), ~Coming(t), ~Coming(t)',
           t = Main => \/ (TakenKey' <=> TakenKey) /\ (TakenKey => c.event = call[t].event)
                       \/ /\ ~TakenKey /\ TakenKey' /\ c.event = queue[i]
                          /\ \A j \in 1..Len(queue) :
                                 j # i /\ queue[j].type = "key" => queue[i].n < queue[j].n,
           queue[i].type = "key" => upset' # {} \/ (t = Main /\ ~TakenKey /\ TakenKey' /\ c.event = queue[i]),
           CallOK(t)'
    PROVE  QueueInv'
<1>1. QueueTypes
  BY TypeParts DEF QueueInv
<1>2. /\ pc' \in [Threads -> Pcs] /\ call' \in [Threads -> CallType]
      /\ pc'[t] = p /\ call'[t] = c
      /\ \A u \in Threads : u # t => pc'[u] = pc[u] /\ call'[u] = call[u]
  BY <1>1, StepTypes DEF QueueTypes
<1>3. LockOK' /\ lock' \in Threads \cup {None}
  BY <1>2, LockKept
<1>4. /\ queue' \in Seq(EventType) /\ Len(queue') = Len(queue) - 1
      /\ Numbers(queue)' = Numbers(queue) \ {queue[i].n}
      /\ QueueOK'
      /\ \A k \in 1..Len(queue') : \E j \in 1..Len(queue) : j # i /\ queue'[k] = queue[j]
      /\ \A j \in 1..Len(queue) : j # i => \E k \in 1..Len(queue') : queue'[k] = queue[j]
  BY Removal DEF QueueInv
<1>5. queue[i].n \in 1..posted /\ queue[i].n \in Numbers(queue)
  <2>1. Posted(queue[i])
    BY DEF QueueInv, QueueOK
  <2>2. Numbers(queue) = {queue[j].n : j \in 1..Len(queue)}
    BY ThreadFacts, NumbersOf
  <2> QED
    BY <2>1, <2>2 DEF Posted
<1>6. TypeOK'
  <2>1. 1..posted \subseteq 1..MaxPosts
    BY ThreadFacts
  <2>2. CountTypes'
    BY <1>1, <1>5, <2>1 DEF QueueTypes, CountTypes
  <2> QED
    BY <1>1, <1>2, <1>3, <1>4, <2>2, TypeParts DEF QueueTypes, ThreadTypes, KeyTypes
<1>7. \A u \in Threads : CallOK(u)'
  <2>1. \A u \in Threads : u # t => CallOK(u)'
    <3>1. posted <= posted' /\ posted' \in Nat
      BY ThreadFacts
    <3> QED
      BY <1>2, <3>1, OthersKept
  <2> QED
    BY <2>1
<1>8. /\ ComingKey' <=> ComingKey
      /\ ComingKey => call'[Main].event = call[Main].event
      /\ \/ (TakenKey' <=> TakenKey) /\ (TakenKey => call'[Main].event = call[Main].event)
         \/ /\ ~TakenKey /\ TakenKey' /\ call'[Main].event = queue[i] /\ ~ComingKey
            /\ \A j \in 1..Len(queue) :
                   j # i /\ queue[j].type = "key" => queue[i].n < queue[j].n
  <2>1. CASE t = Main
    BY <1>2, <2>1 DEF ComingKey
  <2>2. CASE t # Main
    BY <1>2, <2>2, ThreadFacts, MainKept
  <2> QED
    BY <2>1, <2>2
<1>9. OrderOK'
  <2> SUFFICES ASSUME NEW k \in 1..Len(queue'), queue'[k].type = "key"
               PROVE  /\ TakenKey' => call'[Main].event.n < queue'[k].n
                      /\ ComingKey' => queue'[k].n < call'[Main].event.n
    BY DEF OrderOK
  <2>1. PICK j \in 1..Len(queue) : j # i /\ queue'[k] = queue[j]
    BY <1>4
  <2>2. /\ TakenKey => call[Main].event.n < queue[j].n
        /\ ComingKey => queue[j].n < call[Main].event.n
    BY <2>1 DEF QueueInv, OrderOK
  <2> QED
    BY <1>8, <2>1, <2>2
<1>10. KeysOK'
  <2>1. CASE upset' = {}
    <3>1. \A e : IsPending(e)' <=> IsPending(e)
      <4> SUFFICES ASSUME NEW e PROVE IsPending(e)' <=> IsPending(e)
        OBVIOUS
      <4> DEFINE queued == \E j \in 1..Len(queue) : j # i /\ queue[j].type = "key" /\ e = queue[j]
      <4>0. (\E k \in 1..Len(queue') : queue'[k].type = "key" /\ e = queue'[k]) <=> queued
        <5>1. ASSUME NEW k \in 1..Len(queue'), queue'[k].type = "key", e = queue'[k] PROVE queued
          <6>1. PICK j \in 1..Len(queue) : j # i /\ queue'[k] = queue[j]
            BY <1>4
          <6> QED
            BY <5>1, <6>1
        <5>2. ASSUME NEW j \in 1..Len(queue), j # i, queue[j].type = "key", e = queue[j]
              PROVE  \E k \in 1..Len(queue') : queue'[k].type = "key" /\ e = queue'[k]
          <6>1. PICK k \in 1..Len(queue') : queue'[k] = queue[j]
            BY <1>4, <5>2
          <6> QED
            BY <5>2, <6>1
        <5> QED
          BY <5>1, <5>2
      <4>1. CASE queue[i].type = "key"
        <5>1. /\ t = Main /\ ~TakenKey /\ TakenKey' /\ c.event = queue[i]
          BY <2>1, <4>1
        <5>2. ~ComingKey /\ ~ComingKey' /\ call'[Main].event = queue[i]
          BY <1>2, <1>8, <5>1 DEF ComingKey
        <5> QED
          BY <4>0, <4>1, <5>1, <5>2 DEF IsPending
      <4>2. CASE queue[i].type # "key"
        <5>1. TakenKey' <=> TakenKey
          BY <1>8, <4>2 DEF TakenKey
        <5>2. TakenKey \/ ComingKey => call'[Main].event = call[Main].event
          BY <1>8, <5>1
        <5> QED
          BY <1>8, <4>0, <4>2, <5>1, <5>2 DEF IsPending
      <4> QED
        BY <4>1, <4>2
    <3>2. Pending' = Pending
      <4>1. \A e : e \in Pending' <=> e \in Pending
        BY <3>1, PendingEvents
      <4> QED
        BY <4>1 DEF Pending
    <3> QED
      BY <3>2, KeysSame DEF QueueInv
  <2>2. CASE upset' # {}
    BY <2>2 DEF KeysOK
  <2> QED
    BY <2>1, <2>2
<1>11. PlacesOK'
  <2>1. /\ \A u \in Threads : Coming(u)' <=> Coming(u)
        /\ \A u \in Threads : Coming(u) => call'[u].event = call[u].event
        /\ {call[u].event.n : u \in {w \in Threads : Coming(w)}}'
                  = {call[u].event.n : u \in {w \in Threads : Coming(w)}}
    BY <1>2, ComingSame
  <2>2. PlacesOK
    BY DEF QueueInv
  <2>3. (Numbers(queue) \cup given \cup gone)' = Numbers(queue) \cup given \cup gone
    BY <1>4, <1>5
  <2>4. (Numbers(queue) \cap (given \cup gone))' = {} /\ given' \cap gone' = {}
    BY <1>4, <1>5, <2>2 DEF PlacesOK
  <2>5. \A u \in Threads : Coming(u) =>
           /\ call[u].event.n \notin Numbers(queue) \cup given \cup gone
           /\ \A w \in Threads \ {u} : Coming(w) => call[w].event.n # call[u].event.n
    BY <2>2 DEF PlacesOK
  <2>6. {call[u].event.n : u \in {w \in Threads : Coming(w)}} \cup Numbers(queue) \cup given \cup gone
            = 1..posted
    BY <2>2 DEF PlacesOK
  <2> QED
    BY <2>1, <2>3, <2>4, <2>5, <2>6 DEF PlacesOK
<1> QED
  BY <1>3, <1>4, <1>6, <1>7, <1>9, <1>10, <1>11 DEF QueueInv

\* The result of a scan leaves the queue.
LEMMA TakeResultInv ==
    ASSUME QueueInv, NEW t \in Threads, TakeResult(t)
    PROVE  QueueInv'
<1> DEFINE c == call[t]
<1>1. /\ pc[t] = "look" /\ lock = t
      /\ UNCHANGED <<lock, call, key_down, held, posted, calls, gone>>
  <2>1. pc[t] = "look"
    BY DEF TakeResult
  <2>2. lock = t
    BY <2>1, ThreadFacts DEF Locked
  <2> QED
    BY <2>1, <2>2 DEF TakeResult
<1>2. /\ c \in CallType /\ c.index \in Nat
      /\ \/ c.index = 0 /\ c.event = NoEvent
         \/ /\ c.index \in 1..Len(queue) /\ c.event = queue[c.index]
            /\ c.event.type \in c.mask
            /\ \A i \in 1..Len(queue) : i < c.index => queue[i].type \notin c.mask
  BY <1>1, ThreadFacts DEF CallOK
<1>3. c.event = NoEvent \/ Posted(c.event)
  BY <1>2 DEF QueueInv, QueueOK
<1>4. pc' = [pc EXCEPT ![t] = "trim"]
  BY <1>2, ThreadFacts DEF TakeResult
<1>5. Does(t, "trim", c) /\ "trim" \in Pcs
  BY <1>1, <1>4, ThreadFacts DEF Does, Pcs
<1>6. pc'[t] = "trim" /\ call'[t] = c
  BY <1>5, ThreadFacts DEF Does
<1>7. ~Coming(t) /\ ~Coming(t)' /\ LockStep(t)
  BY <1>1, <1>6 DEF Coming, LockStep, Locked
<1>8. CallOK(t)'
  BY <1>1, <1>3, <1>6, <1>7 DEF CallOK, Posted
<1>9. t = Main => ~TakenKey /\ (TakenKey' <=> c.dequeue /\ c.event.type = "key")
  BY <1>1, <1>6 DEF TakenKey, Taken
<1>10. CASE c.index = 0 \/ ~c.dequeue
  <2>1. UNCHANGED <<queue, given, upset>>
    BY <1>10 DEF TakeResult
  <2>2. t = Main => ~TakenKey'
    BY <1>2, <1>9, <1>10, ThreadFacts, NoCallTyped, QueueAssumption
  <2>3. calls' \in 0..MaxCalls
    BY <1>1, ThreadFacts
  <2> QED
    BY <1>1, <1>2, <1>5, <1>7, <1>8, <1>9, <2>1, <2>2, <2>3, QuietStep
<1>11. CASE ~ (c.index = 0 \/ ~c.dequeue)
  <2>1. PICK i \in 1..Len(queue) :
            /\ i = c.index /\ c.event = queue[i] /\ c.event.type \in c.mask
            /\ \A j \in 1..Len(queue) : j < i => queue[j].type \notin c.mask
    BY <1>2, <1>11
  <2>2. /\ queue' = RemoveAt(queue, i) /\ given' = given \cup {queue[i].n} /\ gone' = gone
        /\ upset' = IF t # Main /\ queue[i].type = "key" THEN upset \cup {"elsewhere"} ELSE upset
    <3>1. ~ (c.index > Len(queue))
      BY <2>1, ThreadFacts
    <3> QED
      BY <1>1, <1>11, <2>1, <3>1 DEF TakeResult
  <2>3. upset \subseteq {"both", "elsewhere", "lost"}
    BY TypeParts DEF QueueInv, QueueTypes, CountTypes
  <2>4. queue[i].type = "key" => \A j \in 1..Len(queue) :
            j # i /\ queue[j].type = "key" => queue[i].n < queue[j].n
    <3> SUFFICES ASSUME queue[i].type = "key", NEW j \in 1..Len(queue), j # i, queue[j].type = "key"
                 PROVE  queue[i].n < queue[j].n
      OBVIOUS
    <3>1. ~ (j < i)
      BY <2>1
    <3>2. i < j
      BY <3>1, ThreadFacts
    <3> QED
      BY <3>2 DEF QueueInv, QueueOK
  <2>5. t = Main => \/ (TakenKey' <=> TakenKey) /\ (TakenKey => c.event = call[t].event)
                    \/ /\ ~TakenKey /\ TakenKey' /\ c.event = queue[i]
                       /\ \A j \in 1..Len(queue) :
                              j # i /\ queue[j].type = "key" => queue[i].n < queue[j].n
    BY <1>9, <2>1, <2>4
  <2>6. queue[i].type = "key" =>
            upset' # {} \/ (t = Main /\ ~TakenKey /\ TakenKey' /\ c.event = queue[i])
    BY <1>9, <1>11, <2>1, <2>2
  <2>7. upset \subseteq upset' /\ upset' \subseteq {"both", "elsewhere", "lost"}
    BY <2>2, <2>3
  <2> QED
    BY <1>1, <1>2, <1>5, <1>7, <1>8, <2>2, <2>5, <2>6, <2>7, Leaving
<1> QED
  BY <1>10, <1>11

\* The limit is kept, and the call ends.
LEMMA TrimInv ==
    ASSUME QueueInv, NEW t \in Threads, Trim(t)
    PROVE  QueueInv'
<1>1. /\ pc[t] = "trim" /\ lock = t
      /\ UNCHANGED <<key_down, held, posted, calls, given>>
  <2>1. pc[t] = "trim"
    BY DEF Trim
  <2>2. lock = t
    BY <2>1, ThreadFacts DEF Locked
  <2> QED
    BY <2>1, <2>2 DEF Trim
<1>2. ~Coming(t) /\ calls' \in 0..MaxCalls
  BY <1>1, ThreadFacts DEF Coming
<1>3. call[t].event = NoEvent \/ Posted(call[t].event)
  BY <1>1, ThreadFacts DEF CallOK
<1>4. CASE Overfull
  <2>1. /\ queue' = Tail(queue) /\ gone' = gone \cup {Head(queue).n} /\ Losing(Head(queue))
        /\ UNCHANGED <<lock, pc, call>>
    BY <1>4 DEF Trim
  <2>2. queue # <<>>
    BY <1>4, QueueAssumption, ThreadFacts, EmptySeq DEF Overfull
  <2>3. 1 \in 1..Len(queue) /\ Head(queue) = queue[1] /\ Tail(queue) = RemoveAt(queue, 1)
    BY <2>2, ThreadFacts, TailIsRemoval
  <2>4. Does(t, "trim", call[t]) /\ "trim" \in Pcs /\ call[t] \in CallType
    BY <1>1, <2>1, ThreadFacts DEF Does, Pcs
  <2>5. ~Coming(t)' /\ LockStep(t) /\ (TakenKey' <=> TakenKey)
    BY <1>2, <2>1 DEF Coming, LockStep, Locked, TakenKey, Taken
  <2>6. CallOK(t)'
    BY <1>1, <1>3, <2>1, <2>5 DEF CallOK, Posted
  <2>7. /\ upset \subseteq upset' /\ upset' \subseteq {"both", "elsewhere", "lost"}
        /\ queue[1].type = "key" => upset' # {}
    <3>1. upset \subseteq {"both", "elsewhere", "lost"}
      BY TypeParts DEF QueueInv, QueueTypes, CountTypes
    <3> QED
      BY <2>1, <2>3, <3>1 DEF Losing
  <2> QED
    BY <1>1, <1>2, <2>1, <2>3, <2>4, <2>5, <2>6, <2>7, Leaving
<1>5. CASE ~Overfull
  <2>1. UNCHANGED <<queue, gone, upset>>
    BY <1>5 DEF Trim
  <2>2. CASE t = Main /\ call[t].dequeue /\ call[t].event # NoEvent
    <3> DEFINE c == [NoCall EXCEPT !.event = call[t].event]
    <3>1. /\ lock' = None /\ pc' = [pc EXCEPT ![t] = "send"]
          /\ call' = [call EXCEPT ![t] = c]
      BY <1>5, <2>2 DEF Trim, ReleaseTo
    <3>2. c \in CallType /\ c.event = call[t].event
      BY NoCallTyped, ThreadFacts DEF NoCall, NewCall, CallType
    <3> HIDE DEF c
    <3>3. Does(t, "send", c) /\ "send" \in Pcs
      BY <3>1 DEF Does, Pcs
    <3>4. pc'[t] = "send" /\ call'[t] = c
      BY <3>1, ThreadFacts
    <3>5. ~Coming(t)' /\ ~Locked(t)' /\ LockStep(t)
      BY <1>1, <3>1, <3>4 DEF Coming, Locked, LockStep
    <3>6. TakenKey' <=> TakenKey
      BY <1>1, <2>2, <3>2, <3>4 DEF TakenKey, Taken
    <3>7. CallOK(t)'
      BY <1>1, <1>3, <2>2, <3>2, <3>4, <3>5 DEF CallOK, Posted
    <3> QED
      BY <1>1, <1>2, <2>1, <3>2, <3>3, <3>5, <3>6, <3>7, QuietStep
  <2>3. CASE ~ (t = Main /\ call[t].dequeue /\ call[t].event # NoEvent)
    <3>1. /\ lock' = None /\ pc' = [pc EXCEPT ![t] = "idle"]
          /\ call' = [call EXCEPT ![t] = NoCall]
      BY <1>5, <2>3 DEF Trim, ReleaseTo
    <3>2. Does(t, "idle", NoCall) /\ "idle" \in Pcs /\ NoCall \in CallType
      BY <3>1, NoCallTyped DEF Does, Pcs
    <3>3. pc'[t] = "idle" /\ call'[t] = NoCall /\ NoCall.event = NoEvent
      BY <3>1, ThreadFacts DEF NoCall, NewCall
    <3>4. ~Coming(t)' /\ ~Locked(t)' /\ LockStep(t)
      BY <1>1, <3>1, <3>3 DEF Coming, Locked, LockStep
    <3>5. t = Main => ~TakenKey /\ ~TakenKey'
      <4>1. t = Main => ~TakenKey
        BY <1>1, <2>3, NoCallTyped DEF TakenKey, Taken
      <4>2. t = Main => ~TakenKey'
        BY <3>3 DEF TakenKey, Taken
      <4> QED
        BY <4>1, <4>2
    <3>6. CallOK(t)'
      BY <3>3, <3>4 DEF CallOK
    <3> QED
      BY <1>1, <1>2, <2>1, <3>2, <3>4, <3>5, <3>6, QuietStep
  <2> QED
    BY <2>2, <2>3
<1> QED
  BY <1>4, <1>5

\* A discard goes on to the next event in front, or ends.
LEMMA SweepInv ==
    ASSUME QueueInv, NEW t \in Threads, Sweep(t)
    PROVE  QueueInv'
<1> DEFINE c == call[t]
           i == c.index
<1>1. /\ pc[t] = "sweep" /\ lock = t
      /\ UNCHANGED <<key_down, held, posted, calls, given>>
  <2>1. pc[t] = "sweep"
    BY DEF Sweep
  <2>2. lock = t
    BY <2>1, ThreadFacts DEF Locked
  <2> QED
    BY <2>1, <2>2 DEF Sweep
<1>2. /\ c \in CallType /\ i \in Nat /\ i <= Len(queue) /\ c.event = NoEvent
      /\ \A j \in 1..Len(queue) : queue[j].n = c.before => i < j
  BY <1>1, ThreadFacts DEF CallOK
<1>3. ~Coming(t) /\ calls' \in 0..MaxCalls /\ (t = Main => ~TakenKey)
  BY <1>1, ThreadFacts DEF Coming, TakenKey, Taken
<1>4. CASE i = 0
  <2>1. /\ UNCHANGED <<queue, gone, upset>>
        /\ lock' = None /\ pc' = [pc EXCEPT ![t] = "idle"]
        /\ call' = [call EXCEPT ![t] = NoCall]
    BY <1>2, <1>4, ThreadFacts DEF Sweep, ReleaseTo
  <2>2. Does(t, "idle", NoCall) /\ "idle" \in Pcs /\ NoCall \in CallType
    BY <2>1, NoCallTyped DEF Does, Pcs
  <2>3. pc'[t] = "idle" /\ call'[t] = NoCall /\ NoCall.event = NoEvent
    BY <2>1, ThreadFacts DEF NoCall, NewCall
  <2>4. ~Coming(t)' /\ ~Locked(t)' /\ LockStep(t)
    BY <1>1, <2>1, <2>3 DEF Coming, Locked, LockStep
  <2>5. t = Main => ~TakenKey'
    BY <2>3 DEF TakenKey, Taken
  <2>6. CallOK(t)'
    BY <2>3, <2>4 DEF CallOK
  <2> QED
    BY <1>1, <1>3, <2>1, <2>2, <2>4, <2>5, <2>6, QuietStep
<1>5. CASE i # 0
  <2>1. /\ UNCHANGED <<lock, pc>> /\ call' = [call EXCEPT ![t].index = i - 1]
        /\ IF queue[i].type \in c.mask
           THEN /\ queue' = RemoveAt(queue, i)
                /\ gone' = gone \cup {queue[i].n}
                /\ Losing(queue[i])
           ELSE UNCHANGED <<queue, gone, upset>>
    <3>1. i # 0 /\ ~ (i > Len(queue))
      BY <1>2, <1>5, ThreadFacts
    <3> QED
      BY <3>1 DEF Sweep
  <2>2. i - 1 \in Nat /\ i \in 1..Len(queue)
    BY <1>2, <1>5, ThreadFacts
  <2>3. PICK d : d = [c EXCEPT !.index = i - 1]
    OBVIOUS
  <2>4. d \in CallType /\ d.index = i - 1 /\ d.before = c.before /\ d.event = c.event
    BY <1>2, <2>2, <2>3 DEF CallType
  <2>5. Does(t, "sweep", d) /\ "sweep" \in Pcs
    BY <1>1, <2>1, <2>3, ThreadFacts DEF Does, Pcs
  <2>6. pc'[t] = "sweep" /\ call'[t] = d
    BY <2>5, ThreadFacts DEF Does
  <2>7. ~Coming(t)' /\ LockStep(t)
    BY <1>1, <2>1, <2>6 DEF Coming, Locked, LockStep
  <2>8. t = Main => ~TakenKey'
    BY <2>6 DEF TakenKey, Taken
  <2>9. CASE queue[i].type \in c.mask
    <3>1. /\ queue' = RemoveAt(queue, i) /\ gone' = gone \cup {queue[i].n} /\ Losing(queue[i])
      BY <2>1, <2>9
    <3>2. /\ upset \subseteq upset' /\ upset' \subseteq {"both", "elsewhere", "lost"}
          /\ queue[i].type = "key" => upset' # {}
      <4>1. upset \subseteq {"both", "elsewhere", "lost"}
        BY TypeParts DEF QueueInv, QueueTypes, CountTypes
      <4> QED
        BY <3>1, <4>1 DEF Losing
    <3>3. CallOK(t)'
      <4>1. /\ Len(queue') = Len(queue) - 1
            /\ \A k \in 1..(Len(queue) - 1) : queue'[k] = IF k < i THEN queue[k] ELSE queue[k + 1]
        <5>1. queue \in Seq(EventType)
          BY ThreadFacts
        <5> QED
          BY <2>2, <3>1, <5>1, RemovedOne
      <4>2. ASSUME NEW k \in 1..Len(queue'), queue'[k].n = d.before PROVE d.index < k
        <5>1. CASE k < i
          BY <1>2, <2>2, <2>4, <4>1, <4>2, <5>1
        <5>2. CASE ~ (k < i)
          BY <1>2, <2>4, <5>2
        <5> QED
          BY <5>1, <5>2
      <4>3. d.index <= Len(queue')
        BY <1>2, <2>2, <2>4, <4>1
      <4> QED
        BY <1>2, <2>4, <2>6, <2>7, <4>2, <4>3 DEF CallOK
    <3> QED
      BY <1>1, <1>3, <2>2, <2>4, <2>5, <2>7, <2>8, <3>1, <3>2, <3>3, Leaving
  <2>10. CASE queue[i].type \notin c.mask
    <3>1. UNCHANGED <<queue, gone, upset>>
      BY <2>1, <2>10
    <3>2. CallOK(t)'
      <4>1. \A k \in 1..Len(queue') : queue'[k].n = d.before => d.index < k
        BY <1>2, <2>2, <2>4, <3>1
      <4>2. d.index <= Len(queue')
        BY <1>2, <2>2, <2>4, <3>1, ThreadFacts
      <4> QED
        BY <1>2, <2>4, <2>6, <2>7, <4>1, <4>2 DEF CallOK
    <3> QED
      BY <1>1, <1>3, <2>4, <2>5, <2>7, <2>8, <3>1, <3>2, QuietStep
  <2> QED
    BY <2>9, <2>10
<1> QED
  BY <1>4, <1>5

\* An event is posted: its number is new, and it comes after every key event so far.
LEMMA Posts ==
    ASSUME QueueInv, NEW t \in Threads, NEW from \in {"idle", "loop"}, NEW e \in EventType,
           e.n = posted + 1, e.type \in Types,
           e.type = "key" => e.key \in Keys /\ ~e.front /\ t = Main,
           from = "loop" => t = Main,
           Posting(t, from, e), calls' \in 0..MaxCalls, held' \subseteq Keys,
           upset' \subseteq {"both", "elsewhere", "lost"}
    PROVE  /\ KeysOK' => QueueInv'
           /\ \A x : x \in Pending' <=> x \in Pending \/ (e.type = "key" /\ x = e)
           /\ \A x \in Pending : x.n \in 1..posted
<1> DEFINE p == IF from = "loop" THEN "loop post" ELSE "post"
<1>1. /\ pc[t] = from /\ posted < MaxPosts /\ posted' = posted + 1
      /\ call' = [call EXCEPT ![t].event = e] /\ pc' = [pc EXCEPT ![t] = p]
      /\ UNCHANGED <<queue, lock, key_down, given, gone>>
  BY DEF Posting
<1>2. PICK c : c = [call[t] EXCEPT !.event = e]
  OBVIOUS
<1>3. c \in CallType /\ c.event = e /\ c.index = call[t].index
  BY <1>2, ThreadFacts DEF CallType
<1>4. Does(t, p, c) /\ p \in Pcs
  BY <1>1, <1>2, ThreadFacts DEF Does, Pcs
<1>5. QueueTypes
  BY TypeParts DEF QueueInv
<1>0. (p = "loop post" /\ from = "loop") \/ (p = "post" /\ from = "idle")
  OBVIOUS
<1> HIDE DEF p
<1>6. /\ pc' \in [Threads -> Pcs] /\ call' \in [Threads -> CallType]
      /\ pc'[t] = p /\ call'[t] = c
      /\ \A u \in Threads : u # t => pc'[u] = pc[u] /\ call'[u] = call[u]
  BY <1>3, <1>4, <1>5, StepTypes DEF QueueTypes
<1>7. ~Coming(t) /\ Coming(t)' /\ LockStep(t)
  BY <1>0, <1>1, <1>6 DEF Coming, LockStep, Locked
<1>8. LockOK' /\ lock' \in Threads \cup {None}
  BY <1>6, <1>7, LockKept
<1>9. posted' \in 1..MaxPosts /\ posted \in Nat /\ posted' = posted + 1
  <2>1. posted \in 0..MaxPosts /\ MaxPosts \in Nat
    BY ThreadFacts
  <2> QED
    BY <1>1, <2>1
<1>10. TypeOK'
  BY <1>1, <1>5, <1>6, <1>8, <1>9, TypeParts DEF QueueTypes, ThreadTypes, KeyTypes, CountTypes
<1>11. Posted(e)'
  BY <1>9 DEF Posted
<1>12. \A u \in Threads : CallOK(u)'
  <2>1. \A u \in Threads : u # t => CallOK(u)'
    <3>1. posted <= posted' /\ posted' \in Nat
      BY <1>9
    <3> QED
      BY <1>1, <1>6, <3>1, OthersKept
  <2>2. from = "loop" => call[t].index = 0
    BY <1>1, ThreadFacts DEF CallOK
  <2>3. CallOK(t)'
    BY <1>0, <1>3, <1>6, <1>7, <1>11, <2>2 DEF CallOK, Posted
  <2> QED
    BY <2>1, <2>3
<1>13. \A i \in 1..Len(queue) : Posted(queue[i])
  BY DEF QueueInv, QueueOK
<1>14. QueueOK'
  <2>1. queue' = queue
    BY <1>1
  <2>2. \A i \in 1..Len(queue) : Posted(queue[i])'
    BY <1>9, <1>13, <2>1 DEF Posted
  <2> QED
    BY <2>1, <2>2 DEF QueueInv, QueueOK
<1>15. TakenKey' <=> TakenKey
  <2>1. CASE t = Main
    BY <1>0, <1>1, <1>6, <2>1 DEF TakenKey, Taken
  <2>2. CASE t # Main
    BY <1>6, <2>2, ThreadFacts, MainKept
  <2> QED
    BY <2>1, <2>2
<1>16. /\ TakenKey => call'[Main].event = call[Main].event /\ t # Main
       /\ e.type # "key" => (ComingKey' <=> ComingKey)
       /\ e.type = "key" => ComingKey' /\ ~ComingKey /\ ~TakenKey /\ call'[Main].event = e
       /\ ComingKey => call'[Main].event = call[Main].event
  <2>1. CASE t = Main
    BY <1>1, <1>3, <1>6, <1>7, <2>1 DEF TakenKey, Taken, ComingKey
  <2>2. CASE t # Main
    BY <1>6, <2>2, ThreadFacts, MainKept
  <2> QED
    BY <2>1, <2>2
<1>17. OrderOK'
  <2> SUFFICES ASSUME NEW i \in 1..Len(queue), queue[i].type = "key"
               PROVE  /\ TakenKey' => call'[Main].event.n < queue[i].n
                      /\ ComingKey' => queue[i].n < call'[Main].event.n
    BY <1>1 DEF OrderOK
  <2>1. /\ TakenKey => call[Main].event.n < queue[i].n
        /\ ComingKey => queue[i].n < call[Main].event.n
    BY DEF QueueInv, OrderOK
  <2>2. queue[i].n < posted + 1
    BY <1>9, <1>13 DEF Posted
  <2> QED
    BY <1>15, <1>16, <2>1, <2>2
<1>18. PlacesOK'
  <2> DEFINE coming == {call[u].event.n : u \in {w \in Threads : Coming(w)}}
  <2>1. /\ \A u \in Threads : Coming(u) =>
               /\ call[u].event.n \notin Numbers(queue) \cup given \cup gone
               /\ \A w \in Threads \ {u} : Coming(w) => call[w].event.n # call[u].event.n
        /\ Numbers(queue) \cap (given \cup gone) = {} /\ given \cap gone = {}
        /\ coming \cup Numbers(queue) \cup given \cup gone = 1..posted
    BY DEF QueueInv, PlacesOK
  <2>2. \A u \in Threads : u # t => (Coming(u)' <=> Coming(u)) /\ call'[u].event = call[u].event
    BY <1>6 DEF Coming
  <2>3. coming' = coming \cup {posted + 1}
    <3>1. coming' \subseteq coming \cup {posted + 1}
      BY <1>3, <1>6, <2>2
    <3>2. \A u \in Threads : Coming(u) => call[u].event.n \in coming'
      BY <1>7, <2>2
    <3>3. coming \subseteq coming' /\ posted + 1 \in coming'
      BY <1>3, <1>6, <1>7, <3>2
    <3> QED
      BY <3>1, <3>3
  <2>4. 1..(posted + 1) = (1..posted) \cup {posted + 1} /\ posted + 1 \notin 1..posted
    BY <1>9
  <2>5. \A u \in Threads : Coming(u) => call[u].event.n \in coming
    OBVIOUS
  <2> HIDE DEF coming
  <2>6. coming' \cup Numbers(queue) \cup given \cup gone = 1..posted'
    BY <1>1, <2>1, <2>3, <2>4
  <2>7. ASSUME NEW u \in Threads, Coming(u)'
        PROVE  /\ call'[u].event.n \notin Numbers(queue) \cup given \cup gone
               /\ \A w \in Threads \ {u} : Coming(w)' => call'[w].event.n # call'[u].event.n
    <3>1. \A w \in Threads : w # t /\ Coming(w)' => call'[w].event.n # posted + 1
      BY <2>1, <2>2, <2>4, <2>5
    <3>2. CASE u = t
      BY <1>3, <1>6, <2>1, <2>4, <3>1, <3>2
    <3>3. CASE u # t
      BY <1>3, <1>6, <2>1, <2>2, <2>7, <3>1, <3>3
    <3> QED
      BY <3>2, <3>3
  <2> QED
    BY <1>1, <2>1, <2>6, <2>7 DEF PlacesOK, coming
<1>19. KeysOK' => QueueInv'
  BY <1>8, <1>10, <1>12, <1>14, <1>17, <1>18 DEF QueueInv
<1>20. ASSUME NEW x
       PROVE  x \in Pending' <=> x \in Pending \/ (e.type = "key" /\ x = e)
  <2>1. IsPending(x)' <=> IsPending(x) \/ (e.type = "key" /\ x = e)
    BY <1>1, <1>15, <1>16 DEF IsPending
  <2> QED
    BY <2>1, PendingEvents
<1>21. ASSUME NEW x \in Pending PROVE x.n \in 1..posted
  <2>1. IsPending(x)
    BY PendingEvents
  <2>2. CASE \E i \in 1..Len(queue) : queue[i].type = "key" /\ x = queue[i]
    BY <1>13, <2>2 DEF Posted
  <2>3. CASE (TakenKey \/ ComingKey) /\ x = call[Main].event
    <3>1. Posted(call[Main].event)
      <4>1. CASE ComingKey
        BY <4>1, ThreadFacts DEF CallOK, ComingKey
      <4>2. CASE TakenKey
        BY <4>2, NoCallTyped, ThreadFacts DEF CallOK, TakenKey, Taken
      <4> QED
        BY <2>3, <4>1, <4>2
    <3> QED
      BY <2>3, <3>1 DEF Posted
  <2> QED
    BY <2>1, <2>2, <2>3 DEF IsPending
<1> QED
  BY <1>19, <1>20, <1>21

\* The keys and what may upset them, as a step finds them.
LEMMA KeyFacts ==
    ASSUME QueueInv
    PROVE  /\ key_down \in [Keys -> BOOLEAN] /\ held \subseteq Keys
           /\ upset \subseteq {"both", "elsewhere", "lost"} /\ KeysOK
BY TypeParts DEF QueueInv, QueueTypes, KeyTypes, CountTypes

\* A new event has its type.
LEMMA NewEventTyped ==
    ASSUME posted \in Nat, posted < MaxPosts, MaxPosts \in Nat, NEW type \in Types,
           NEW key \in Keys \cup {None}, NEW on \in BOOLEAN, NEW front \in BOOLEAN
    PROVE  /\ NewEvent(type, key, on, front) \in EventType
           /\ NewEvent(type, key, on, front).n = posted + 1
           /\ NewEvent(type, key, on, front).type = type
           /\ NewEvent(type, key, on, front).key = key
           /\ NewEvent(type, key, on, front).front = front
<1>1. posted + 1 \in 0..MaxPosts /\ (1..posted) \ Arriving \in SUBSET (1..MaxPosts)
  OBVIOUS
<1> QED
  BY <1>1 DEF NewEvent, EventType

\* The mouse moves.
LEMMA MouseMovesInv ==
    ASSUME QueueInv, MouseMoves PROVE QueueInv'
<1> DEFINE e == NewEvent("mouse", None, FALSE, FALSE)
<1>1. Main \in Threads /\ posted \in Nat /\ posted < MaxPosts /\ MaxPosts \in Nat
  <2>1. Main \in Threads
    BY DEF Threads
  <2>2. posted < MaxPosts
    BY DEF MouseMoves, Posting
  <2>3. posted \in 0..MaxPosts /\ MaxPosts \in Nat
    BY <2>1, ThreadFacts
  <2> QED
    BY <2>1, <2>2, <2>3
<1>2. e \in EventType /\ e.n = posted + 1 /\ e.type \in Types /\ e.type # "key"
  BY <1>1, NewEventTyped DEF Types
<1>3. Posting(Main, "loop", e) /\ UNCHANGED <<held, calls, upset, key_down>>
  BY DEF MouseMoves, Posting
<1>4. calls' \in 0..MaxCalls /\ held' \subseteq Keys /\ upset' \subseteq {"both", "elsewhere", "lost"}
  BY <1>1, <1>3, ThreadFacts, KeyFacts
<1> HIDE DEF e
<1>5. /\ KeysOK' => QueueInv'
      /\ \A x : x \in Pending' <=> x \in Pending \/ (e.type = "key" /\ x = e)
  BY <1>1, <1>2, <1>3, <1>4, Posts
<1>6. Pending' = Pending
  <2>1. \A x : x \in Pending' <=> x \in Pending
    BY <1>2, <1>5
  <2> QED
    BY <2>1 DEF Pending
<1> QED
  BY <1>3, <1>5, <1>6, KeyFacts, KeysSame

\* A thread posts an event.
LEMMA PostEventInv ==
    ASSUME QueueInv, NEW t \in Threads, NEW at_start \in BOOLEAN, PostEvent(t, at_start)
    PROVE  QueueInv'
<1> DEFINE e == NewEvent("mouse", None, FALSE, at_start)
<1>1. posted \in Nat /\ posted < MaxPosts /\ MaxPosts \in Nat
  BY ThreadFacts DEF PostEvent, Posting
<1>2. e \in EventType /\ e.n = posted + 1 /\ e.type \in Types /\ e.type # "key"
  <2>1. "mouse" \in Types /\ None \in Keys \cup {None} /\ "mouse" # "key"
    BY DEF Types
  <2>2. PICK off \in BOOLEAN : off = FALSE
    BY Zenon
  <2>3. e = NewEvent("mouse", None, off, at_start)
    BY <2>2, Zenon
  <2> HIDE DEF e
  <2> QED
    BY <1>1, <2>1, <2>3, NewEventTyped
<1>3. Posting(t, "idle", e) /\ UNCHANGED <<held, upset, key_down>> /\ CountCall(t)
  BY DEF PostEvent, Posting
<1>4. calls' \in 0..MaxCalls /\ held' \subseteq Keys /\ upset' \subseteq {"both", "elsewhere", "lost"}
  BY <1>3, ThreadFacts, KeyFacts, QueueAssumption DEF CountCall
<1> HIDE DEF e
<1>5. /\ KeysOK' => QueueInv'
      /\ \A x : x \in Pending' <=> x \in Pending \/ (e.type = "key" /\ x = e)
  <2>1. "idle" # "loop"
    OBVIOUS
  <2> QED
    BY <1>2, <1>3, <1>4, <2>1, Posts
<1>6. Pending' = Pending
  <2>1. \A x : x \in Pending' <=> x \in Pending
    BY <1>2, <1>5
  <2> QED
    BY <2>1 DEF Pending
<1> QED
  BY <1>3, <1>5, <1>6, KeyFacts, KeysSame

\* A key goes down or up: the event tells the key's state, unless the modifier's other key
\* is down as well.
LEMMA KeyChangesInv ==
    ASSUME QueueInv, NEW key \in Keys, KeyChanges(key) PROVE QueueInv'
<1> DEFINE down == IF key \in held THEN held \ {key} ELSE held \cup {key}
           e == NewEvent("key", key, Shown(key, down), FALSE)
<1>1. Main \in Threads /\ posted \in Nat /\ posted < MaxPosts /\ MaxPosts \in Nat
  <2>1. Main \in Threads
    BY DEF Threads
  <2>2. posted < MaxPosts
    BY DEF KeyChanges, Posting
  <2>3. posted \in 0..MaxPosts /\ MaxPosts \in Nat
    BY <2>1, ThreadFacts
  <2> QED
    BY <2>1, <2>2, <2>3
<1>2. Shown(key, down) \in BOOLEAN
  <2> HIDE DEF down
  <2>1. CASE key \in Paired
    BY <2>1 DEF Shown
  <2>2. CASE key \notin Paired
    BY <2>2 DEF Shown
  <2> QED
    BY <2>1, <2>2
<1>3. e \in EventType /\ e.n = posted + 1 /\ e.type = "key" /\ e.key = key /\ ~e.front
      /\ e.on = Shown(key, down)
  <2> HIDE DEF down
  <2>1. "key" \in Types /\ key \in Keys \cup {None}
    BY DEF Types
  <2>2. PICK off \in BOOLEAN : off = FALSE
    BY Zenon
  <2>3. PICK on \in BOOLEAN : on = Shown(key, down)
    BY <1>2, Zenon
  <2>4. e = NewEvent("key", key, on, off)
    BY <2>2, <2>3, Zenon
  <2>5. e.on = Shown(key, down)
    BY DEF NewEvent
  <2> HIDE DEF e
  <2>6. /\ e \in EventType /\ e.n = posted + 1 /\ e.type = "key" /\ e.key = key
        /\ e.front = FALSE
    BY <1>1, <2>1, <2>2, <2>4, NewEventTyped
  <2> QED
    BY <2>6, <2>5
<1>4. /\ Posting(Main, "loop", e) /\ held' = down /\ calls' = calls /\ key_down' = key_down
      /\ upset' = IF Paired # {} /\ Paired \subseteq down THEN upset \cup {"both"} ELSE upset
  BY DEF KeyChanges, Posting
<1>5. calls' \in 0..MaxCalls /\ held' \subseteq Keys /\ upset' \subseteq {"both", "elsewhere", "lost"}
  BY <1>1, <1>4, ThreadFacts, KeyFacts
<1> HIDE DEF e
<1>6. /\ KeysOK' => QueueInv'
      /\ \A x : x \in Pending' <=> x \in Pending \/ (e.type = "key" /\ x = e)
      /\ \A x \in Pending : x.n \in 1..posted
  BY <1>1, <1>3, <1>4, <1>5, Posts DEF Types
<1>7. KeysOK'
  <2> SUFFICES ASSUME upset' = {}
               PROVE  /\ Paired # {} => ~(Paired \subseteq held')
                      /\ \A k \in Keys :
                            /\ (\A x \in Pending' : x.key # k) => key_down'[k] = (k \in held')
                            /\ \A x \in Pending' :
                                  x.key = k /\ (\A d \in Pending' : d.key = k => d.n <= x.n)
                                      => x.on = (k \in held')
    BY DEF KeysOK
  <2>1. upset = {} /\ (Paired # {} => ~(Paired \subseteq down))
    BY <1>4
  <2>2. /\ Paired # {} => ~(Paired \subseteq held)
        /\ \A k \in Keys :
              /\ (\A x \in Pending : x.key # k) => key_down[k] = (k \in held)
              /\ \A x \in Pending :
                    x.key = k /\ (\A d \in Pending : d.key = k => d.n <= x.n)
                        => x.on = (k \in held)
    BY <2>1, KeyFacts DEF KeysOK
  <2>3. e.on = (key \in down)
    <3>1. CASE key \notin Paired
      BY <1>3, <3>1 DEF Shown
    <3>2. CASE key \in Paired
      <4>1. e.on = ((down \cap Paired) # {})
        BY <1>3, <3>2 DEF Shown
      <4>2. CASE key \notin held
        BY <3>2, <4>1, <4>2
      <4>3. CASE key \in held
        <5>1. PICK l \in Paired : l \notin held
          BY <2>2, <3>2
        <5>2. \A m \in Paired : m = key \/ m = l
          BY <3>2, <4>3, <5>1, QueueAssumption
        <5>3. down \cap Paired = {}
          BY <4>3, <5>1, <5>2
        <5> QED
          BY <4>1, <4>3, <5>3
      <4> QED
        BY <4>2, <4>3
    <3> QED
      BY <3>1, <3>2
  <2>4. ASSUME NEW k \in Keys
        PROVE  /\ (\A x \in Pending' : x.key # k) => key_down'[k] = (k \in held')
               /\ \A x \in Pending' :
                     x.key = k /\ (\A d \in Pending' : d.key = k => d.n <= x.n)
                         => x.on = (k \in held')
    <3>0. e \in Pending'
      BY <1>3, <1>6
    <3>1. CASE k = key
      <4>1. \A x \in Pending : ~ (e.n <= x.n)
        <5> SUFFICES ASSUME NEW x \in Pending PROVE ~ (e.n <= x.n)
          OBVIOUS
        <5>1. x.n \in 1..posted /\ e.n = posted + 1
          BY <1>3, <1>6
        <5> QED
          BY <1>1, <5>1
      <4>2. ASSUME NEW x \in Pending', \A d \in Pending' : d.key = k => d.n <= x.n PROVE x = e
        BY <1>3, <1>6, <3>0, <3>1, <4>1, <4>2
      <4> HIDE DEF down
      <4> QED
        BY <1>3, <1>4, <2>3, <3>0, <3>1, <4>2
    <3>2. CASE k # key
      <4>1. (k \in held') <=> (k \in held)
        BY <1>4, <3>2
      <4>2. \A x : x.key = k => (x \in Pending' <=> x \in Pending)
        BY <1>3, <1>6, <3>2
      <4> HIDE DEF down
      <4>3. (\A x \in Pending' : x.key # k) => key_down'[k] = (k \in held')
        BY <1>4, <2>2, <4>1, <4>2
      <4>4. ASSUME NEW x \in Pending', x.key = k, \A d \in Pending' : d.key = k => d.n <= x.n
            PROVE  x.on = (k \in held')
        BY <2>2, <4>1, <4>2, <4>4
      <4> QED
        BY <4>3, <4>4
    <3> QED
      BY <3>1, <3>2
  <2> QED
    BY <1>4, <2>1, <2>4
<1> QED
  BY <1>6, <1>7

\* Events are counted from none.
LEMMA PostedNat == ASSUME QueueInv PROVE posted \in Nat /\ posted <= posted
<1>1. posted \in 0..MaxPosts /\ MaxPosts \in Nat
  BY TypeParts, QueueAssumption DEF QueueInv, QueueTypes, CountTypes
<1> QED
  BY <1>1

\* A posted event is inserted.
LEMMA InsertionInv ==
    ASSUME QueueInv, NEW t \in Threads, pc[t] \in {"inserting", "loop inserting"},
           queue' = Insertion(call[t].event), call' = [call EXCEPT ![t].event = NoEvent],
           ReleaseTo(t, IF pc[t] = "inserting" THEN "idle" ELSE "loop"),
           UNCHANGED <<key_down, held, posted, calls, given, gone, upset>>
    PROVE  QueueInv'
<1> DEFINE e == call[t].event
<1>1. PICK p \in {"idle", "loop"} :
          /\ p = (IF pc[t] = "inserting" THEN "idle" ELSE "loop")
          /\ lock' = None /\ pc' = [pc EXCEPT ![t] = p]
  BY DEF ReleaseTo
<1>2. lock = t /\ Locked(t) /\ Coming(t)
  BY ThreadFacts DEF Locked, Coming
<1>3. e \in EventType /\ Posted(e) /\ (e.type = "key" => t = Main)
  BY <1>2, ThreadFacts DEF CallOK
<1>4. PICK c : c = [call[t] EXCEPT !.event = NoEvent]
  OBVIOUS
<1>5. c \in CallType /\ c.event = NoEvent /\ c.index = call[t].index
  BY <1>4, NoCallTyped, ThreadFacts DEF CallType
<1>6. Does(t, p, c) /\ p \in Pcs
  BY <1>1, <1>4, ThreadFacts DEF Does, Pcs
<1>7. QueueTypes
  BY TypeParts DEF QueueInv
<1>8. /\ pc' \in [Threads -> Pcs] /\ call' \in [Threads -> CallType]
      /\ pc'[t] = p /\ call'[t] = c
      /\ \A u \in Threads : u # t => pc'[u] = pc[u] /\ call'[u] = call[u]
  BY <1>5, <1>6, <1>7, StepTypes DEF QueueTypes
<1>9. ~Coming(t)' /\ ~Locked(t)' /\ LockStep(t)
  BY <1>1, <1>2, <1>8 DEF Coming, Locked, LockStep
<1>10. LockOK' /\ lock' \in Threads \cup {None}
  BY <1>8, <1>9, LockKept
<1>11. PlacesOK
  BY DEF QueueInv
<1>12. e.n \notin Numbers(queue) \cup given \cup gone
  BY <1>2, <1>11 DEF PlacesOK
<1>13. e.type = "key" => ComingKey
  BY <1>2, <1>3 DEF ComingKey
<1>14. e.type = "key" => \A i \in 1..Len(queue) : queue[i].type = "key" => queue[i].n < e.n
  BY <1>3, <1>13 DEF QueueInv, OrderOK
<1>15. /\ queue' \in Seq(EventType)
       /\ Numbers(queue)' = Numbers(queue) \cup {e.n}
       /\ QueueOK'
       /\ \A k \in 1..Len(queue') : queue'[k] = e \/ \E j \in 1..Len(queue) : queue'[k] = queue[j]
       /\ \A j \in 1..Len(queue) : \E k \in 1..Len(queue') : queue'[k] = queue[j]
       /\ \E k \in 1..Len(queue') : queue'[k] = e
  <2> HIDE DEF e
  <2>1. TypeOK /\ QueueOK
    BY DEF QueueInv
  <2>2. queue' = Insertion(e)
    BY DEF e
  <2> QED
    BY <1>3, <1>12, <1>14, <2>1, <2>2, Addition
<1>16. TypeOK'
  BY <1>7, <1>8, <1>10, <1>15, TypeParts DEF QueueTypes, ThreadTypes, KeyTypes, CountTypes
<1>17. \A u \in Threads : CallOK(u)'
  <2>1. \A u \in Threads : u # t => CallOK(u)'
    <3>1. posted <= posted' /\ posted' \in Nat
      <4>1. posted \in Nat /\ posted <= posted
        BY PostedNat
      <4>2. posted' = posted
        OBVIOUS
      <4> QED
        BY <4>1, <4>2
    <3> QED
      BY <1>2, <1>8, <3>1, OthersKept
  <2>2. p = "loop" => call[t].index = 0
    BY <1>1, ThreadFacts DEF CallOK
  <2>3. CallOK(t)'
    BY <1>5, <1>8, <1>9, <2>2 DEF CallOK
  <2> QED
    BY <2>1, <2>3
<1>18. /\ TakenKey' <=> TakenKey
       /\ TakenKey => call'[Main].event = call[Main].event
       /\ ~ (TakenKey /\ e.type = "key")
       /\ t = Main => ~ComingKey' /\ ~TakenKey
       /\ t # Main => (ComingKey' <=> ComingKey) /\ call'[Main].event = call[Main].event
  <2>1. CASE t = Main
    BY <1>1, <1>8, <2>1 DEF TakenKey, Taken, ComingKey, Coming
  <2>2. CASE t # Main
    BY <1>3, <1>8, <2>2, ThreadFacts, MainKept
  <2> QED
    BY <2>1, <2>2
<1>19. OrderOK'
  <2> SUFFICES ASSUME NEW k \in 1..Len(queue'), queue'[k].type = "key"
               PROVE  /\ TakenKey' => call'[Main].event.n < queue'[k].n
                      /\ ComingKey' => queue'[k].n < call'[Main].event.n
    BY DEF OrderOK
  <2>1. CASE queue'[k] = e
    BY <1>3, <1>18, <2>1
  <2>2. CASE \E j \in 1..Len(queue) : queue'[k] = queue[j]
    <3>1. PICK j \in 1..Len(queue) : queue'[k] = queue[j]
      BY <2>2
    <3>2. /\ TakenKey => call[Main].event.n < queue[j].n
          /\ ComingKey => queue[j].n < call[Main].event.n
      BY <3>1 DEF QueueInv, OrderOK
    <3> QED
      BY <1>18, <3>1, <3>2
  <2> QED
    BY <1>15, <2>1, <2>2
<1>20. Pending' = Pending
  <2>1. ASSUME NEW x PROVE IsPending(x)' <=> IsPending(x)
    <3>1. (\E k \in 1..Len(queue') : queue'[k].type = "key" /\ x = queue'[k])
              <=> \/ \E j \in 1..Len(queue) : queue[j].type = "key" /\ x = queue[j]
                  \/ e.type = "key" /\ x = e
      <4>1. ASSUME NEW k \in 1..Len(queue'), queue'[k].type = "key", x = queue'[k]
            PROVE  \/ \E j \in 1..Len(queue) : queue[j].type = "key" /\ x = queue[j]
                   \/ e.type = "key" /\ x = e
        <5> HIDE DEF e
        <5>1. queue'[k] = e \/ \E j \in 1..Len(queue) : queue'[k] = queue[j]
          BY <1>15
        <5>2. CASE queue'[k] = e
          BY <4>1, <5>2
        <5>3. CASE \E j \in 1..Len(queue) : queue'[k] = queue[j]
          BY <4>1, <5>3
        <5> QED
          BY <5>1, <5>2, <5>3
      <4>2. ASSUME NEW j \in 1..Len(queue), queue[j].type = "key", x = queue[j]
            PROVE  \E k \in 1..Len(queue') : queue'[k].type = "key" /\ x = queue'[k]
        <5> HIDE DEF e
        <5>1. PICK k \in 1..Len(queue') : queue'[k] = queue[j]
          BY <1>15
        <5> QED
          BY <4>2, <5>1
      <4>3. ASSUME e.type = "key", x = e
            PROVE  \E k \in 1..Len(queue') : queue'[k].type = "key" /\ x = queue'[k]
        BY <1>15, <4>3
      <4> QED
        BY <4>1, <4>2, <4>3
    <3>2. CASE t = Main
      <4>1. ComingKey <=> e.type = "key"
        BY <1>2, <3>2 DEF ComingKey
      <4>2. call[Main].event = e
        BY <3>2
      <4> HIDE DEF e
      <4> QED
        BY <1>18, <3>1, <3>2, <4>1, <4>2 DEF IsPending
    <3>3. CASE t # Main
      BY <1>3, <1>18, <3>1, <3>3 DEF IsPending
    <3> QED
      BY <3>2, <3>3
  <2>2. \A x : x \in Pending' <=> x \in Pending
    BY <2>1, PendingEvents
  <2> QED
    BY <2>2 DEF Pending
<1>21. KeysOK'
  BY <1>20, KeyFacts, KeysSame
<1>22. PlacesOK'
  <2> DEFINE coming == {call[u].event.n : u \in {w \in Threads : Coming(w)}}
  <2>1. /\ \A u \in Threads : Coming(u) =>
               /\ call[u].event.n \notin Numbers(queue) \cup given \cup gone
               /\ \A w \in Threads \ {u} : Coming(w) => call[w].event.n # call[u].event.n
        /\ Numbers(queue) \cap (given \cup gone) = {} /\ given \cap gone = {}
        /\ coming \cup Numbers(queue) \cup given \cup gone = 1..posted
    BY <1>11 DEF PlacesOK
  <2>2. \A u \in Threads : u # t => (Coming(u)' <=> Coming(u)) /\ call'[u].event = call[u].event
    BY <1>8 DEF Coming
  <2>3. coming \cup Numbers(queue) = coming' \cup Numbers(queue)'
    <3>1. coming' \subseteq coming
      BY <1>9, <2>2
    <3>2. \A u \in Threads : Coming(u) /\ u # t => call[u].event.n \in coming'
      BY <2>2
    <3>3. coming \subseteq coming' \cup {e.n} /\ e.n \in coming
      BY <1>2, <3>2
    <3> HIDE DEF coming, e
    <3> QED
      BY <1>15, <3>1, <3>3
  <2>4. ASSUME NEW u \in Threads, Coming(u)'
        PROVE  /\ call'[u].event.n \notin Numbers(queue)' \cup given \cup gone
               /\ \A w \in Threads \ {u} : Coming(w)' => call'[w].event.n # call'[u].event.n
    <3>1. u # t /\ Coming(u) /\ call'[u].event = call[u].event
      BY <1>9, <2>2, <2>4
    <3>2. call[u].event.n # e.n
      BY <1>2, <2>1, <3>1
    <3>3. \A w \in Threads \ {u} : Coming(w)' => Coming(w) /\ call'[w].event = call[w].event
      BY <1>9, <2>2
    <3>4. \A w \in Threads \ {u} : Coming(w)' => call'[w].event.n # call'[u].event.n
      BY <2>1, <3>1, <3>3
    <3>5. call[u].event.n \notin Numbers(queue) \cup given \cup gone
      BY <2>1, <3>1
    <3> HIDE DEF e, coming
    <3>6. call'[u].event.n \notin Numbers(queue)' \cup given \cup gone
      BY <1>15, <3>1, <3>2, <3>5
    <3> QED
      BY <3>4, <3>6
  <2>5. (Numbers(queue) \cap (given \cup gone))' = {}
    <3>1. Numbers(queue)' = Numbers(queue) \cup {e.n}
      BY <1>15
    <3>2. given' = given /\ gone' = gone /\ Numbers(queue) \cap (given \cup gone) = {}
      BY <2>1
    <3> HIDE DEF e, coming
    <3> QED
      BY <1>12, <3>1, <3>2
  <2> HIDE DEF coming
  <2>6. coming' \cup Numbers(queue)' \cup given' \cup gone' = 1..posted'
    BY <2>1, <2>3
  <2>7. given' = given /\ gone' = gone /\ given' \cap gone' = {}
    BY <2>1
  <2>8. \A u \in Threads : Coming(u)' =>
          /\ call'[u].event.n \notin (Numbers(queue) \cup given \cup gone)'
          /\ \A w \in Threads \ {u} : Coming(w)' => call'[w].event.n # call'[u].event.n
    BY <2>4, <2>7
  <2>9. ({call[u].event.n : u \in {w \in Threads : Coming(w)}} \cup Numbers(queue)
            \cup given \cup gone)' = (1..posted)'
    BY <2>6 DEF coming
  <2> QED
    BY <2>5, <2>7, <2>8, <2>9 DEF PlacesOK
<1> QED
  BY <1>10, <1>15, <1>16, <1>17, <1>19, <1>21, <1>22 DEF QueueInv

\* The main thread sends the event it has taken: what is shown of its key is up to date
\* with it, and with those still pending.
LEMMA SendEventInv ==
    ASSUME QueueInv, SendEvent PROVE QueueInv'
<1> DEFINE e == call[Main].event
<1>1. Main \in Threads
  BY DEF Threads
<1>2. /\ pc[Main] = "send" /\ pc' = [pc EXCEPT ![Main] = "idle"]
      /\ call' = [call EXCEPT ![Main] = NoCall]
      /\ UNCHANGED <<queue, lock, held, posted, calls, given, gone, upset>>
      /\ key_down' = IF e.type = "key" THEN [key_down EXCEPT ![e.key] = e.on] ELSE key_down
  BY DEF SendEvent
<1>3. QueueTypes
  BY TypeParts DEF QueueInv
<1>4. e \in EventType /\ (e = NoEvent \/ Posted(e))
  BY <1>1, <1>2, ThreadFacts DEF CallOK
<1>5. e.type = "key" => e.key \in Keys /\ e.on \in BOOLEAN /\ e.n \in 1..posted
  BY <1>4, NoCallTyped DEF Posted, EventType
<1>6. key_down' \in [Keys -> BOOLEAN]
  BY <1>2, <1>5, KeyFacts
<1>7. Does(Main, "idle", NoCall) /\ "idle" \in Pcs /\ NoCall \in CallType
  BY <1>2, NoCallTyped DEF Does, Pcs
<1>8. /\ pc' \in [Threads -> Pcs] /\ call' \in [Threads -> CallType]
      /\ pc'[Main] = "idle" /\ call'[Main] = NoCall
      /\ \A u \in Threads : u # Main => pc'[u] = pc[u] /\ call'[u] = call[u]
  BY <1>1, <1>3, <1>7, StepTypes DEF QueueTypes
<1>9. ~Coming(Main) /\ ~Coming(Main)' /\ LockStep(Main)
  BY <1>2, <1>8 DEF Coming, LockStep, Locked
<1>10. LockOK' /\ lock' \in Threads \cup {None}
  BY <1>1, <1>8, <1>9, LockKept
<1>11. TypeOK'
  BY <1>2, <1>3, <1>6, <1>8, <1>10, TypeParts DEF QueueTypes, ThreadTypes, KeyTypes, CountTypes
<1>12. \A u \in Threads : CallOK(u)'
  <2>1. \A u \in Threads : u # Main => CallOK(u)'
    <3>1. posted <= posted' /\ posted' \in Nat
      BY <1>1, <1>2, ThreadFacts
    <3> QED
      BY <1>1, <1>2, <1>8, <3>1, OthersKept
  <2>2. CallOK(Main)'
    BY <1>8, <1>9 DEF CallOK, NoCall, NewCall
  <2> QED
    BY <2>1, <2>2
<1>13. QueueOK'
  BY <1>2 DEF QueueInv, QueueOK, Posted
<1>14. ~TakenKey' /\ ~ComingKey' /\ ~ComingKey /\ (TakenKey <=> e.type = "key")
  BY <1>2, <1>8, <1>9 DEF TakenKey, Taken, ComingKey
<1>15. OrderOK'
  BY <1>14 DEF OrderOK
<1>16. \A x : x \in Pending <=> x \in Pending' \/ (e.type = "key" /\ x = e)
  <2> SUFFICES ASSUME NEW x PROVE IsPending(x) <=> IsPending(x)' \/ (e.type = "key" /\ x = e)
    BY PendingEvents
  <2> QED
    BY <1>2, <1>14 DEF IsPending
<1>17. e.type = "key" => \A x \in Pending' : e.n < x.n
  <2> SUFFICES ASSUME e.type = "key", NEW x \in Pending' PROVE e.n < x.n
    OBVIOUS
  <2>1. IsPending(x)'
    BY PendingEvents
  <2>2. PICK i \in 1..Len(queue) : queue[i].type = "key" /\ x = queue[i]
    BY <1>2, <1>14, <2>1 DEF IsPending
  <2> QED
    BY <1>14, <2>2 DEF QueueInv, OrderOK
<1>18. KeysOK'
  <2> SUFFICES ASSUME upset = {}
               PROVE  /\ Paired # {} => ~(Paired \subseteq held)
                      /\ \A k \in Keys :
                            /\ (\A x \in Pending' : x.key # k) => key_down'[k] = (k \in held)
                            /\ \A x \in Pending' :
                                  x.key = k /\ (\A d \in Pending' : d.key = k => d.n <= x.n)
                                      => x.on = (k \in held)
    BY <1>2 DEF KeysOK
  <2>1. /\ Paired # {} => ~(Paired \subseteq held)
        /\ \A k \in Keys :
              /\ (\A x \in Pending : x.key # k) => key_down[k] = (k \in held)
              /\ \A x \in Pending :
                    x.key = k /\ (\A d \in Pending : d.key = k => d.n <= x.n)
                        => x.on = (k \in held)
    BY KeyFacts DEF KeysOK
  <2> HIDE DEF e
  <2>2. ASSUME NEW k \in Keys, \A x \in Pending' : x.key # k PROVE key_down'[k] = (k \in held)
    <3>1. CASE e.type = "key" /\ e.key = k
      <4>1. e \in Pending /\ \A d \in Pending : d.key = k => d = e
        BY <1>16, <2>2, <3>1
      <4>2. e.on = (k \in held)
        BY <1>5, <2>1, <3>1, <4>1
      <4> QED
        BY <1>2, <1>5, <3>1, <4>2, KeyFacts
    <3>2. CASE ~ (e.type = "key" /\ e.key = k)
      <4>1. key_down'[k] = key_down[k]
        BY <1>2, <1>5, <3>2, KeyFacts
      <4>2. \A x \in Pending : x.key # k
        BY <1>16, <2>2, <3>2
      <4> QED
        BY <2>1, <4>1, <4>2
    <3> QED
      BY <3>1, <3>2
  <2>3. ASSUME NEW k \in Keys, NEW x \in Pending', x.key = k,
               \A d \in Pending' : d.key = k => d.n <= x.n
        PROVE  x.on = (k \in held)
    <3>1. x \in Pending
      BY <1>16
    <3>2. ASSUME NEW d \in Pending, d.key = k PROVE d.n <= x.n
      <4>1. CASE d \in Pending'
        BY <2>3, <3>2, <4>1
      <4>2. CASE e.type = "key" /\ d = e
        <5>1. e.n < x.n /\ e.n \in Nat
          BY <1>5, <1>17, <4>2
        <5>2. x.n \in Nat
          <6>1. IsPending(x)'
            BY PendingEvents
          <6>2. PICK i \in 1..Len(queue) : x = queue[i]
            BY <1>2, <1>14, <6>1 DEF IsPending
          <6>3. Posted(queue[i])
            BY DEF QueueInv, QueueOK
          <6> QED
            BY <6>2, <6>3 DEF Posted
        <5> QED
          BY <4>2, <5>1, <5>2
      <4> QED
        BY <1>16, <4>1, <4>2
    <3> QED
      BY <2>1, <2>3, <3>1, <3>2
  <2> QED
    BY <2>1, <2>2, <2>3
<1>19. PlacesOK'
  <2>1. /\ \A u \in Threads : Coming(u)' <=> Coming(u)
        /\ \A u \in Threads : Coming(u) => call'[u].event = call[u].event
        /\ {call[u].event.n : u \in {w \in Threads : Coming(w)}}'
                  = {call[u].event.n : u \in {w \in Threads : Coming(w)}}
    BY <1>1, <1>8, <1>9, ComingSame
  <2> QED
    BY <1>2, <2>1 DEF QueueInv, PlacesOK
<1> QED
  BY <1>10, <1>11, <1>12, <1>13, <1>15, <1>18, <1>19 DEF QueueInv

-------------------------------------------------------------------------------
(* Every state of the queue's specification.                                  *)

\* At first there is no event and no key.
LEMMA QueueInit == Init => QueueInv
<1> SUFFICES ASSUME Init PROVE QueueInv
  OBVIOUS
<1>1. /\ queue = <<>> /\ lock = None /\ pc = [t \in Threads |-> "idle"]
      /\ call = [t \in Threads |-> NoCall] /\ key_down = [k \in Keys |-> FALSE] /\ held = {}
      /\ posted = 0 /\ calls = 0 /\ given = {} /\ gone = {} /\ upset = {}
  BY DEF Init
<1>2. queue \in Seq(EventType) /\ Len(queue) = 0 /\ 1..Len(queue) = {}
  <2>1. queue \in Seq(EventType) /\ Len(queue) = 0
    BY <1>1, EmptySeq
  <2> QED
    BY <2>1
<1>3. Main \in Threads /\ \A t \in Threads : pc[t] = "idle" /\ call[t] = NoCall
  BY <1>1 DEF Threads
<1>4. TypeOK
  <2>1. ThreadTypes
    BY <1>1, NoCallTyped DEF ThreadTypes, Pcs
  <2>2. KeyTypes /\ CountTypes
    BY <1>1, QueueAssumption DEF KeyTypes, CountTypes
  <2> QED
    BY <1>2, <2>1, <2>2, TypeParts DEF QueueTypes
<1>5. \A t \in Threads : ~Coming(t) /\ ~Locked(t)
  BY <1>3 DEF Coming, Locked
<1>6. LockOK
  BY <1>1, <1>5, QueueAssumption DEF LockOK
<1>7. \A t \in Threads : CallOK(t)
  <2> SUFFICES ASSUME NEW t \in Threads PROVE CallOK(t)
    OBVIOUS
  <2>1. call[t].event = NoEvent /\ call[t].index = 0
    BY <1>3 DEF NoCall, NewCall
  <2> QED
    BY <1>3, <1>5, <2>1 DEF CallOK
<1>8. QueueOK /\ OrderOK
  BY <1>2 DEF QueueOK, OrderOK
<1>9. Pending = {}
  <2>1. ~TakenKey /\ ~ComingKey
    BY <1>3, <1>5 DEF TakenKey, Taken, ComingKey
  <2>2. \A x : ~IsPending(x)
    BY <1>2, <2>1 DEF IsPending
  <2>3. \A x : x \notin Pending
    BY <2>2, PendingEvents
  <2> QED
    BY <2>3
<1>10. KeysOK
  <2>1. Paired # {} => ~(Paired \subseteq held)
    BY <1>1
  <2>2. ASSUME NEW k \in Keys PROVE key_down[k] = (k \in held)
    <3>1. key_down[k] = FALSE
      BY <1>1
    <3>2. (k \in held) = FALSE
      BY <1>1
    <3> QED
      BY <3>1, <3>2
  <2> QED
    BY <1>9, <2>1, <2>2 DEF KeysOK
<1>11. PlacesOK
  <2>1. Numbers(queue) = {}
    BY <1>2, NumbersOf
  <2> QED
    BY <1>1, <1>5, <2>1 DEF PlacesOK
<1> QED
  BY <1>4, <1>6, <1>7, <1>8, <1>10, <1>11 DEF QueueInv

\* A step that changes nothing.
LEMMA QueueStutter == ASSUME QueueInv, UNCHANGED vars PROVE QueueInv'
<1>1. /\ UNCHANGED <<queue, lock, pc, call>>
      /\ UNCHANGED <<key_down, held, posted, calls, given, gone, upset>>
  BY DEF vars
<1>2. TypeOK'
  BY <1>1 DEF QueueInv, TypeOK
<1>3. LockOK'
  BY <1>1 DEF QueueInv, LockOK, Locked
<1>7. \A t \in Threads : CallOK(t)'
  <2>1. ASSUME NEW t \in Threads PROVE CallOK(t)'
    <3>1. CallOK(t)
      BY DEF QueueInv
    <3> QED
      BY <1>1, <3>1 DEF CallOK, Coming, Posted
  <2> QED
    BY <2>1
<1>8. QueueOK'
  BY <1>1 DEF QueueInv, QueueOK, Posted
<1>9. OrderOK'
  BY <1>1 DEF QueueInv, OrderOK, TakenKey, Taken, ComingKey, Coming
<1>4. Pending' = Pending
  BY <1>1 DEF Pending, TakenKey, Taken, ComingKey, Coming
<1>5. KeysOK'
  BY <1>1, <1>4, KeysSame DEF QueueInv
<1>6. PlacesOK'
  BY <1>1 DEF QueueInv, PlacesOK, Coming
<1> QED
  BY <1>2, <1>3, <1>5, <1>6, <1>7, <1>8, <1>9 DEF QueueInv

\* One step, action by action.
LEMMA QueueNext == ASSUME QueueInv, [Next]_vars PROVE QueueInv'
<1>1. CASE MouseMoves
  BY <1>1, MouseMovesInv
<1>2. ASSUME NEW key \in Keys, KeyChanges(key) PROVE QueueInv'
  BY <1>2, KeyChangesInv
<1>3. ASSUME NEW t \in Threads, Step(t) PROVE QueueInv'
  <2>1. CASE Insert(t)
    <3>1. CASE /\ Acquire(t, "post", "inserting") \/ Acquire(t, "loop post", "loop inserting")
               /\ UNCHANGED <<queue, call>>
      BY <2>1, <3>1, AcquireInv DEF Insert
    <3>2. CASE /\ pc[t] \in {"inserting", "loop inserting"}
               /\ queue' = Insertion(call[t].event)
               /\ call' = [call EXCEPT ![t].event = NoEvent]
               /\ ReleaseTo(t, IF pc[t] = "inserting" THEN "idle" ELSE "loop")
      <4>1. UNCHANGED <<key_down, held, posted, calls, given, gone, upset>>
        BY <2>1 DEF Insert
      <4> QED
        BY <3>2, <4>1, InsertionInv
    <3> QED
      BY <2>1, <3>1, <3>2 DEF Insert
  <2>2. CASE Look(t)
    BY <2>2, LookInv
  <2>3. CASE TakeResult(t)
    BY <2>3, TakeResultInv
  <2>4. CASE Trim(t)
    BY <2>4, TrimInv
  <2>5. CASE FindStop(t)
    BY <2>5, FindStopInv
  <2>6. CASE Sweep(t)
    BY <2>6, SweepInv
  <2>7. CASE SendEvent
    BY <2>7, SendEventInv
  <2> QED
    BY <1>3, <2>1, <2>2, <2>3, <2>4, <2>5, <2>6, <2>7 DEF Step
<1>4. ASSUME NEW t \in Threads, Call(t) PROVE QueueInv'
  <2>1. ASSUME NEW mask \in Masks, NEW dequeue \in BOOLEAN, NextEvent(t, mask, dequeue)
        PROVE  QueueInv'
    BY <2>1, NextEventInv
  <2>2. ASSUME NEW at_start \in BOOLEAN, PostEvent(t, at_start) PROVE QueueInv'
    BY <2>2, PostEventInv
  <2>3. ASSUME NEW mask \in Masks, NEW before \in Numbers(queue) \cup {0},
               DiscardEvents(t, mask, before)
        PROVE  QueueInv'
    BY <2>3, DiscardInv
  <2> QED
    BY <1>4, <2>1, <2>2, <2>3 DEF Call
<1>5. CASE UNCHANGED vars
  BY <1>5, QueueStutter
<1> QED
  BY <1>1, <1>2, <1>3, <1>4, <1>5 DEF Next, Devices

\* The invariant of the queue: types, who has the lock, what a scan knows, the order of the
\* key events, where each event is and what is pending for each key.
THEOREM QueueInvariant == Spec => []QueueInv
<1>1. Init => QueueInv
  BY QueueInit
<1>2. QueueInv /\ [Next]_vars => QueueInv'
  BY QueueNext
<1> QED
  BY <1>1, <1>2, PTL DEF Spec

-------------------------------------------------------------------------------
(* What the invariant says of the queue.                                      *)

\* Two finite sets with nothing in common.
LEMMA Apart ==
    ASSUME NEW S, IsFiniteSet(S), NEW T, IsFiniteSet(T), S \cap T = {}
    PROVE  IsFiniteSet(S \cup T) /\ Cardinality(S \cup T) = Cardinality(S) + Cardinality(T)
<1>1. /\ IsFiniteSet(S \cup T)
      /\ Cardinality(S \cup T) = Cardinality(S) + Cardinality(T) - Cardinality(S \cap T)
  BY FS_Union
<1>2. Cardinality(S \cap T) = 0
  BY FS_EmptySet
<1>3. Cardinality(S) \in Nat /\ Cardinality(T) \in Nat
  BY FS_CardinalityType
<1> QED
  BY <1>1, <1>2, <1>3

\* There are as many numbers in the queue as events.
LEMMA QueueCount ==
    ASSUME QueueInv
    PROVE  IsFiniteSet(Numbers(queue)) /\ Cardinality(Numbers(queue)) = Len(queue)
<1> DEFINE f == [i \in 1..Len(queue) |-> queue[i].n]
<1>1. queue \in Seq(EventType) /\ Len(queue) \in Nat
  BY TypeParts, LenProperties DEF QueueInv, QueueTypes
<1>2. Numbers(queue) = {queue[i].n : i \in 1..Len(queue)}
  BY <1>1, NumbersOf
<1>3. \A i, j \in 1..Len(queue) : i # j => queue[i].n # queue[j].n
  BY DEF QueueInv, QueueOK
<1>4. f \in [1..Len(queue) -> Numbers(queue)]
  BY <1>2
<1>5. \A i, j \in 1..Len(queue) : f[i] = f[j] => i = j
  BY <1>3
<1>6. \A n \in Numbers(queue) : \E i \in 1..Len(queue) : f[i] = n
  BY <1>2
<1> HIDE DEF f
<1>7. f \in Surjection(1..Len(queue), Numbers(queue)) /\ f \in Injection(1..Len(queue), Numbers(queue))
  BY <1>4, <1>5, <1>6 DEF Surjection, Injection, IsInjective
<1>8. IsFiniteSet(1..Len(queue)) /\ Cardinality(1..Len(queue)) = Len(queue)
  <2>1. 1 \in Int /\ Len(queue) \in Int
    BY <1>1
  <2>2. /\ IsFiniteSet(1..Len(queue))
        /\ Cardinality(1..Len(queue)) = IF 1 > Len(queue) THEN 0 ELSE Len(queue) - 1 + 1
    BY <2>1, FS_Interval
  <2> QED
    BY <1>1, <2>2
<1> QED
  BY <1>7, <1>8, FS_Surjection

\* In every state each event is in one place: to be inserted, queued, given to a caller or
\* gone; none is lost in a scan, and none is given twice.
THEOREM EventsOnce == Spec => []EventsKept
<1>1. QueueInv => EventsKept
  <2> SUFFICES ASSUME QueueInv PROVE EventsKept
    OBVIOUS
  <2> DEFINE coming == {call[t].event.n : t \in {u \in Threads : pc[u] \in
                            {"post", "inserting", "loop post", "loop inserting"}}}
             numbers == Numbers(queue)
  <2>1. /\ coming \cup numbers \cup given \cup gone = 1..posted
        /\ coming \cap (numbers \cup given \cup gone) = {}
        /\ numbers \cap (given \cup gone) = {} /\ given \cap gone = {}
    <3>1. coming = {call[t].event.n : t \in {u \in Threads : Coming(u)}}
      BY DEF Coming
    <3>2. PlacesOK
      BY DEF QueueInv
    <3>3. \A t \in Threads : Coming(t) => call[t].event.n \notin Numbers(queue) \cup given \cup gone
      BY <3>2 DEF PlacesOK
    <3>4. coming \cap (numbers \cup given \cup gone) = {}
      BY <3>1, <3>3
    <3> QED
      BY <3>1, <3>2, <3>4 DEF PlacesOK
  <2>2. posted \in Nat
    BY PostedNat
  <2>3. IsFiniteSet(1..posted) /\ Cardinality(1..posted) = posted
    <3>1. 1 \in Int /\ posted \in Int
      BY <2>2
    <3>2. /\ IsFiniteSet(1..posted)
          /\ Cardinality(1..posted) = IF 1 > posted THEN 0 ELSE posted - 1 + 1
      BY <3>1, FS_Interval
    <3> QED
      BY <2>2, <3>2
  <2>4. Cardinality(numbers) = Len(queue)
    BY QueueCount
  <2> HIDE DEF coming, numbers
  <2>5. IsFiniteSet(coming) /\ IsFiniteSet(numbers) /\ IsFiniteSet(given) /\ IsFiniteSet(gone)
    <3>1. coming \in SUBSET (1..posted) /\ numbers \in SUBSET (1..posted)
          /\ given \in SUBSET (1..posted) /\ gone \in SUBSET (1..posted)
      BY <2>1
    <3> QED
      BY <2>3, <3>1, FS_Subset
  <2>6. /\ IsFiniteSet(given \cup gone)
        /\ Cardinality(given \cup gone) = Cardinality(given) + Cardinality(gone)
    BY <2>1, <2>5, Apart
  <2>7. /\ IsFiniteSet(numbers \cup (given \cup gone))
        /\ Cardinality(numbers \cup (given \cup gone)) = Cardinality(numbers) + Cardinality(given \cup gone)
    BY <2>1, <2>5, <2>6, Apart
  <2>8. coming \cap (numbers \cup (given \cup gone)) = {}
    BY <2>1
  <2>9. Cardinality(coming \cup (numbers \cup (given \cup gone)))
            = Cardinality(coming) + Cardinality(numbers \cup (given \cup gone))
    BY <2>5, <2>7, <2>8, Apart
  <2>10. coming \cup (numbers \cup (given \cup gone)) = 1..posted
    BY <2>1
  <2>11. /\ Cardinality(coming) \in Nat /\ Cardinality(numbers) \in Nat
         /\ Cardinality(given) \in Nat /\ Cardinality(gone) \in Nat
    BY <2>5, FS_CardinalityType
  <2>12. Len(queue) + Cardinality(coming) + Cardinality(given) + Cardinality(gone) = posted
    <3>1. posted = Cardinality(coming) + (Cardinality(numbers) + (Cardinality(given) + Cardinality(gone)))
      BY <2>3, <2>6, <2>7, <2>9, <2>10
    <3> QED
      BY <2>4, <2>11, <3>1
  <2> QED
    BY <2>1, <2>12 DEF EventsKept, Arriving, coming, numbers
<1> QED
  BY <1>1, QueueInvariant, PTL

\* Once the main thread has handled every key event the state Roblox polls is the keyboard's.
THEOREM KeysShown == Spec => []KeysTrue
<1>1. QueueInv => KeysTrue
  <2> SUFFICES ASSUME QueueInv, upset = {}, pc[Main] = "idle",
                      \A i \in DOMAIN queue : queue[i].type # "key",
                      NEW key \in Keys
               PROVE  key_down[key] = (key \in held)
    BY DEF KeysTrue
  <2>1. DOMAIN queue = 1..Len(queue)
    BY TypeParts, LenProperties DEF QueueInv, QueueTypes
  <2>2. ~TakenKey /\ ~ComingKey
    BY DEF TakenKey, Taken, ComingKey, Coming
  <2>3. \A e : ~IsPending(e)
    BY <2>1, <2>2 DEF IsPending
  <2>4. \A e \in Pending : e.key # key
    BY <2>3, PendingEvents
  <2> QED
    BY <2>4 DEF QueueInv, KeysOK
<1> QED
  BY <1>1, QueueInvariant, PTL

\* A discard before an event that is queued leaves it, and all after it, in the queue.
THEOREM SparesTheRest == Spec => DiscardSpares
<1> DEFINE Spares == \A t \in Threads :
               pc[t] = "sweep" /\ call[t].before \in Numbers(queue) =>
                   \A i, j \in DOMAIN queue :
                       queue[i].n = call[t].before /\ i <= j => queue[j].n \in Numbers(queue')
<1>1. QueueInv /\ [Next]_vars => [Spares]_vars
  <2> SUFFICES ASSUME QueueInv, Next,
                      NEW t \in Threads, pc[t] = "sweep", call[t].before \in Numbers(queue),
                      NEW i \in DOMAIN queue, NEW j \in DOMAIN queue,
                      queue[i].n = call[t].before, i <= j
               PROVE  queue[j].n \in Numbers(queue')
    OBVIOUS
  <2>1. queue \in Seq(EventType) /\ Len(queue) \in Nat /\ DOMAIN queue = 1..Len(queue)
    BY TypeParts, LenProperties DEF QueueInv, QueueTypes
  <2>2. lock = t /\ None \notin Threads
    BY ThreadFacts DEF Locked
  <2>3. call[t].index < i /\ call[t].index \in Nat
    BY <2>1, ThreadFacts DEF CallOK
  <2>4. Numbers(queue) = {queue[k].n : k \in 1..Len(queue)}
    BY <2>1, NumbersOf
  <2>5. CASE queue' = queue
    BY <2>1, <2>4, <2>5
  <2>6. CASE queue' # queue
    <3>1. PICK u \in Threads : Step(u)
      BY <2>6 DEF Next, Devices, MouseMoves, KeyChanges, Call, Posting, NextEvent, PostEvent,
                  DiscardEvents
    <3>2. \/ pc[u] \in {"inserting", "loop inserting"}
          \/ TakeResult(u) \/ Trim(u) \/ Sweep(u)
      BY <2>6, <3>1 DEF Step, Insert, Acquire, Look, FindStop, SendEvent
    <3>3. Locked(u)
      BY <3>2 DEF Locked, TakeResult, Trim, Sweep
    <3>4. u = t
      BY <2>2, <3>3, ThreadFacts
    <3>5. Sweep(t)
      BY <3>2, <3>4 DEF TakeResult, Trim
    <3>6. /\ call[t].index \in 1..Len(queue) /\ queue' = RemoveAt(queue, call[t].index)
      BY <2>1, <2>3, <2>6, <3>5 DEF Sweep
    <3>7. call[t].index # j
      BY <2>1, <2>3
    <3>8. posted' = posted /\ TypeOK /\ QueueOK
      BY <3>5 DEF Sweep, QueueInv
    <3>9. Numbers(queue') = Numbers(queue) \ {queue[call[t].index].n}
      BY <3>6, <3>8, Removal
    <3>10. queue[call[t].index].n # queue[j].n
      BY <2>1, <3>6, <3>7, <3>8 DEF QueueOK
    <3> QED
      BY <2>1, <2>4, <3>9, <3>10
  <2> QED
    BY <2>5, <2>6
<1>2. [][Next]_vars /\ []QueueInv => [][Spares]_vars
  BY <1>1, PTL
<1> QED
  BY <1>2, QueueInvariant, PTL DEF Spec, DiscardSpares

-------------------------------------------------------------------------------
(* The order of all events.  The posts that have ended only grow, an event    *)
(* that is inserted is in no other's past, and what leaves the queue leaves   *)
(* the order of the rest.                                                     *)

\* The posts that have ended.
Ended == (1..posted) \ Arriving
Past(e) == e.after \subseteq Ended

\* A thread has its result.
Trims(t) == pc[t] = "trim" /\ call[t].dequeue /\ call[t].event # NoEvent

\* InOrder, and what makes it inductive: every event's past has ended.
OrderInv ==
    /\ \A i \in 1..Len(queue) : Past(queue[i])
    /\ \A t \in Threads : Coming(t) => Past(call[t].event)
    /\ \A i, j \in 1..Len(queue) : i < j => ~Before(queue[j], queue[i])
    /\ \A t \in Threads : Trims(t) =>
         \A i \in 1..Len(queue) : queue[i].type \in call[t].mask => ~Before(queue[i], call[t].event)

\* What a step may do to the order: an event comes with what has ended as its past,
\* events stay or one leaves or the one of the thread with the lock is inserted, and a
\* result is the first event of the types asked for.
Leaves == queue' = queue \/ \E i \in 1..Len(queue) : queue' = RemoveAt(queue, i)
Comes(t) == /\ posted' = posted + 1
            /\ call'[t].event.n = posted + 1 /\ call'[t].event.after = Ended
Taking(t, i) == /\ call'[t].event = queue[i] /\ queue' = RemoveAt(queue, i)
                /\ \A j \in 1..Len(queue) : j < i => queue[j].type \notin call'[t].mask
Shape ==
    /\ posted' \in {posted, posted + 1}
    /\ \A t \in Threads : Coming(t)' => Comes(t) \/ (Coming(t) /\ call'[t].event = call[t].event)
    /\ Leaves \/ \E t \in Threads : /\ Coming(t) /\ queue' = Insertion(call[t].event)
                                    /\ \A u \in Threads : ~Trims(u)'
    /\ \A t \in Threads : Trims(t)' =>
         \/ Trims(t) /\ call'[t] = call[t]
         \/ \E i \in 1..Len(queue) : Taking(t, i)

\* A step of a thread that neither comes with an event nor gets a result.
LEMMA PlainShape ==
    ASSUME NEW t \in Threads, \A u \in Threads : u # t => pc'[u] = pc[u] /\ call'[u] = call[u],
           posted' = posted, Leaves,
           Coming(t)' => Coming(t) /\ call'[t].event = call[t].event,
           Trims(t)' => Trims(t) /\ call'[t] = call[t]
    PROVE  Shape
<1>1. ASSUME NEW u \in Threads, u # t
      PROVE  /\ Coming(u)' => Coming(u) /\ call'[u].event = call[u].event
             /\ Trims(u)' => Trims(u) /\ call'[u] = call[u]
  BY <1>1 DEF Coming, Trims
<1> QED
  BY <1>1 DEF Shape

\* A thread posts an event.
LEMMA PostShape ==
    ASSUME QueueInv, NEW t \in Threads, NEW from \in {"idle", "loop"}, NEW type, NEW key, NEW on,
           NEW front, Posting(t, from, NewEvent(type, key, on, front))
    PROVE  Shape
<1> DEFINE e == NewEvent(type, key, on, front)
<1>1. e.n = posted + 1 /\ e.after = Ended
  BY DEF NewEvent, Ended
<1>2. Posting(t, from, e)
  OBVIOUS
<1> HIDE DEF e
<1>3. /\ posted' = posted + 1 /\ queue' = queue
      /\ pc'[t] \in {"loop post", "post"} /\ call'[t].event = e
      /\ \A u \in Threads : u # t => pc'[u] = pc[u] /\ call'[u] = call[u]
  BY <1>2, ThreadFacts DEF Posting, CallType
<1>4. Comes(t) /\ ~Trims(t)'
  BY <1>1, <1>3 DEF Comes, Trims
<1>5. ASSUME NEW u \in Threads, u # t
      PROVE  /\ Coming(u)' => Coming(u) /\ call'[u].event = call[u].event
             /\ Trims(u)' => Trims(u) /\ call'[u] = call[u]
  BY <1>3, <1>5 DEF Coming, Trims
<1> QED
  BY <1>3, <1>4, <1>5 DEF Shape, Leaves

\* A thread inserts its event.
LEMMA InsertShape == ASSUME QueueInv, NEW t \in Threads, Insert(t) PROVE Shape
<1>1. CASE /\ Acquire(t, "post", "inserting") \/ Acquire(t, "loop post", "loop inserting")
           /\ UNCHANGED <<queue, call>>
  <2>1. /\ pc'[t] \in {"inserting", "loop inserting"} /\ Coming(t)
        /\ \A u \in Threads : u # t => pc'[u] = pc[u]
    BY <1>1, ThreadFacts DEF Acquire, Coming
  <2>2. posted' = posted /\ Leaves
    BY <1>1 DEF Insert, Leaves
  <2> QED
    BY <1>1, <2>1, <2>2, PlainShape DEF Trims
<1>2. CASE /\ pc[t] \in {"inserting", "loop inserting"}
           /\ queue' = Insertion(call[t].event)
           /\ call' = [call EXCEPT ![t].event = NoEvent]
           /\ ReleaseTo(t, IF pc[t] = "inserting" THEN "idle" ELSE "loop")
  <2>1. /\ pc'[t] \in {"idle", "loop"} /\ Coming(t) /\ lock = t /\ posted' = posted
        /\ \A u \in Threads : u # t => pc'[u] = pc[u] /\ call'[u] = call[u]
    BY <1>2, ThreadFacts DEF Insert, ReleaseTo, Coming, Locked
  <2>2. ASSUME NEW u \in Threads
        PROVE  /\ Coming(u)' => Coming(u) /\ call'[u].event = call[u].event
               /\ ~Trims(u)'
    <3>1. CASE u = t
      BY <2>1, <3>1 DEF Coming, Trims
    <3>2. CASE u # t
      <4>1. lock = u <=> Locked(u)
        BY ThreadFacts
      <4> QED
        BY <2>1, <3>2, <4>1 DEF Coming, Trims, Locked
    <3> QED
      BY <3>1, <3>2
  <2> QED
    BY <1>2, <2>1, <2>2 DEF Shape
<1> QED
  BY <1>1, <1>2 DEF Insert

\* A thread takes its result.
LEMMA TakeShape == ASSUME QueueInv, NEW t \in Threads, TakeResult(t) PROVE Shape
<1>1. /\ pc[t] = "look" /\ CallOK(t) /\ posted' = posted /\ call' = call
      /\ \A u \in Threads : u # t => pc'[u] = pc[u]
      /\ pc'[t] \in {"trim", "raised"}
  BY ThreadFacts DEF TakeResult, Raise
<1>2. CASE call[t].index = 0 \/ ~call[t].dequeue
  <2>1. queue' = queue /\ UNCHANGED call
    BY <1>1, <1>2 DEF TakeResult
  <2>2. call[t].index = 0 => call[t].event = NoEvent
    <3>1. \/ call[t].index = 0 /\ call[t].event = NoEvent
          \/ call[t].index \in 1..Len(queue)
      BY <1>1 DEF CallOK
    <3>2. call[t].index \in 1..Len(queue) => call[t].index # 0
      BY ThreadFacts
    <3> QED
      BY <3>1, <3>2
  <2>3. ~Trims(t)'
    BY <1>2, <2>1, <2>2 DEF Trims
  <2>4. ~Coming(t)'
    BY <1>1 DEF Coming
  <2> QED
    BY <1>1, <2>1, <2>3, <2>4, PlainShape DEF Leaves
<1>3. CASE ~(call[t].index = 0 \/ ~call[t].dequeue)
  <2>1. /\ call[t].index \in 1..Len(queue) /\ call[t].event = queue[call[t].index]
        /\ \A i \in 1..Len(queue) : i < call[t].index => queue[i].type \notin call[t].mask
    BY <1>1, <1>3 DEF CallOK
  <2>2. queue' = RemoveAt(queue, call[t].index)
    <3>1. ~(call[t].index > Len(queue))
      BY <2>1, ThreadFacts
    <3> QED
      BY <1>3, <3>1 DEF TakeResult
  <2>3. Taking(t, call[t].index) /\ Leaves
    BY <1>1, <2>1, <2>2 DEF Taking, Leaves
  <2>4. ~Coming(t)'
    BY <1>1 DEF Coming
  <2>5. ASSUME NEW u \in Threads, u # t
        PROVE  /\ Coming(u)' => Coming(u) /\ call'[u].event = call[u].event
               /\ Trims(u)' => Trims(u) /\ call'[u] = call[u]
    BY <1>1, <2>5 DEF Coming, Trims
  <2> QED
    BY <1>1, <2>1, <2>3, <2>4, <2>5 DEF Shape
<1> QED
  BY <1>2, <1>3

\* Events that are too many leave the queue at its start, discarded ones from within.
LEMMA TrimShape == ASSUME QueueInv, NEW t \in Threads, Trim(t) \/ Sweep(t) PROVE Shape
<1>1. CASE Trim(t)
  <2>1. posted' = posted /\ pc[t] = "trim"
    BY <1>1 DEF Trim
  <2>2. CASE Overfull
    <3>1. queue' = Tail(queue) /\ UNCHANGED <<pc, call>>
      BY <1>1, <2>2 DEF Trim
    <3>2. queue # <<>>
      BY <2>2, QueueAssumption, EmptySeq DEF Overfull
    <3>3. 1 \in 1..Len(queue) /\ queue' = RemoveAt(queue, 1)
      BY <3>1, <3>2, ThreadFacts, TailIsRemoval
    <3> QED
      BY <2>1, <3>1, <3>3, PlainShape DEF Leaves, Coming, Trims
  <2>3. CASE ~Overfull
    <3>1. /\ queue' = queue /\ pc'[t] \in {"send", "idle"}
          /\ \A u \in Threads : u # t => pc'[u] = pc[u] /\ call'[u] = call[u]
      BY <1>1, <2>3, ThreadFacts DEF Trim, ReleaseTo
    <3> QED
      BY <2>1, <3>1, PlainShape DEF Leaves, Coming, Trims
  <2> QED
    BY <2>2, <2>3
<1>2. CASE Sweep(t)
  <2>1. /\ posted' = posted /\ pc'[t] \in {"sweep", "idle", "raised"}
        /\ \A u \in Threads : u # t => pc'[u] = pc[u] /\ call'[u] = call[u]
    BY <1>2, ThreadFacts DEF Sweep, ReleaseTo, Raise
  <2>2. Leaves
    <3>1. call[t].index = 0 \/ call[t].index > Len(queue) \/ call[t].index \in 1..Len(queue)
      BY ThreadFacts
    <3> QED
      BY <1>2, <3>1 DEF Sweep, Leaves
  <2> QED
    BY <2>1, <2>2, PlainShape DEF Coming, Trims
<1> QED
  BY <1>1, <1>2

\* Every step has this shape.
LEMMA StepShape == ASSUME QueueInv, [Next]_vars PROVE Shape
<1>1. CASE MouseMoves
  <2>1. Main \in Threads
    BY DEF Threads
  <2> QED
    BY <1>1, <2>1, PostShape DEF MouseMoves
<1>2. ASSUME NEW key \in Keys, KeyChanges(key) PROVE Shape
  <2>1. Main \in Threads
    BY DEF Threads
  <2>2. PICK on : Posting(Main, "loop", NewEvent("key", key, on, FALSE))
    BY <1>2 DEF KeyChanges
  <2> QED
    BY <2>1, <2>2, PostShape
<1>3. ASSUME NEW t \in Threads, Step(t) PROVE Shape
  <2>1. CASE Look(t) \/ FindStop(t)
    <3>1. /\ pc'[t] \in {"look", "sweep"} /\ posted' = posted /\ queue' = queue
          /\ \A u \in Threads : u # t => pc'[u] = pc[u]
      BY <2>1, ThreadFacts DEF Look, FindStop, Acquire
    <3>2. \A u \in Threads : u # t => call'[u] = call[u]
      BY <2>1, ThreadFacts DEF Look, FindStop
    <3> QED
      BY <3>1, <3>2, PlainShape DEF Leaves, Coming, Trims
  <2>2. CASE t = Main /\ SendEvent
    <3>1. /\ pc'[t] = "idle" /\ posted' = posted /\ queue' = queue
          /\ \A u \in Threads : u # t => pc'[u] = pc[u] /\ call'[u] = call[u]
      BY <2>2, ThreadFacts DEF SendEvent
    <3> QED
      BY <3>1, PlainShape DEF Leaves, Coming, Trims
  <2> QED
    BY <1>3, <2>1, <2>2, InsertShape, TakeShape, TrimShape DEF Step
<1>4. ASSUME NEW t \in Threads, Call(t) PROVE Shape
  <2>1. ASSUME NEW at_start \in BOOLEAN, PostEvent(t, at_start) PROVE Shape
    BY <2>1, PostShape DEF PostEvent
  <2>2. ASSUME NEW mask \in Masks,
               \/ \E dequeue \in BOOLEAN : NextEvent(t, mask, dequeue)
               \/ \E before \in Numbers(queue) \cup {0} : DiscardEvents(t, mask, before)
        PROVE  Shape
    <3>1. /\ pc'[t] \in {"loop", "discard"} /\ posted' = posted /\ queue' = queue
          /\ \A u \in Threads : u # t => pc'[u] = pc[u] /\ call'[u] = call[u]
      BY <2>2, ThreadFacts DEF NextEvent, DiscardEvents
    <3> QED
      BY <3>1, PlainShape DEF Leaves, Coming, Trims
  <2> QED
    BY <1>4, <2>1, <2>2 DEF Call
<1>5. CASE UNCHANGED vars
  <2>1. UNCHANGED <<queue, pc, call, posted>>
    BY <1>5 DEF vars
  <2> QED
    BY <2>1 DEF Shape, Leaves, Coming, Trims
<1> QED
  BY <1>1, <1>2, <1>3, <1>4, <1>5 DEF Next, Devices

\* What has ended stays so.
LEMMA EndedGrows == ASSUME QueueInv, Shape PROVE Ended \subseteq Ended'
<1> SUFFICES ASSUME NEW n \in Ended PROVE n \in Ended'
  OBVIOUS
<1>1. posted \in Nat /\ n \in 1..posted /\ n \notin Arriving
  BY PostedNat DEF Ended
<1>2. n \in 1..posted' /\ n # posted + 1
  BY <1>1 DEF Shape
<1>3. ASSUME NEW t \in Threads, Coming(t)' PROVE call'[t].event.n # n
  <2>1. CASE Comes(t)
    BY <1>2, <2>1 DEF Comes
  <2>2. CASE Coming(t) /\ call'[t].event = call[t].event
    BY <1>1, <2>2 DEF Arriving, Coming
  <2> QED
    BY <1>3, <2>1, <2>2 DEF Shape
<1>4. n \notin Arriving'
  BY <1>3 DEF Arriving, Coming
<1> QED
  BY <1>2, <1>4 DEF Ended

\* An event that comes is in nobody's past.
LEMMA ComingIsLater ==
    ASSUME OrderInv, NEW t \in Threads, Coming(t)
    PROVE  \A i \in 1..Len(queue) : call[t].event.n \notin queue[i].after
<1>1. call[t].event.n \in Arriving
  BY DEF Arriving, Coming
<1> QED
  BY <1>1 DEF OrderInv, Past, Ended

\* What leaves the queue leaves the order of the rest.
LEMMA LeavingOrder ==
    ASSUME QueueInv, NEW i \in 1..Len(queue), queue' = RemoveAt(queue, i)
    PROVE  /\ Len(queue') = Len(queue) - 1
           /\ \A k \in 1..Len(queue') : \E j \in 1..Len(queue) :
                  queue'[k] = queue[j] /\ j # i /\ j = (IF k < i THEN k ELSE k + 1)
<1>1. queue \in Seq(EventType) /\ Len(queue) \in Nat
  BY TypeParts, LenProperties DEF QueueInv, QueueTypes
<1>2. /\ Len(queue') = Len(queue) - 1
      /\ \A k \in 1..(Len(queue) - 1) : queue'[k] = IF k < i THEN queue[k] ELSE queue[k + 1]
  BY <1>1, RemovedOne
<1> QED
  BY <1>1, <1>2

\* So the events stay in order ...
LEMMA QueueOrder ==
    ASSUME QueueInv, OrderInv, Shape
    PROVE  \A k, l \in 1..Len(queue') : k < l => ~Before(queue'[l], queue'[k])
<1>1. \A k, l \in 1..Len(queue) : k < l => ~Before(queue[l], queue[k])
  BY DEF OrderInv
<1>2. queue \in Seq(EventType) /\ Len(queue) \in Nat
  BY TypeParts, LenProperties DEF QueueInv, QueueTypes
<1>3. ASSUME NEW i \in 1..Len(queue), queue' = RemoveAt(queue, i),
             NEW k \in 1..Len(queue'), NEW l \in 1..Len(queue'), k < l
      PROVE  ~Before(queue'[l], queue'[k])
  <2>1. PICK a \in 1..Len(queue) : queue'[k] = queue[a] /\ a = (IF k < i THEN k ELSE k + 1)
    BY <1>3, LeavingOrder
  <2>2. PICK b \in 1..Len(queue) : queue'[l] = queue[b] /\ b = (IF l < i THEN l ELSE l + 1)
    BY <1>3, LeavingOrder
  <2>3. Len(queue') = Len(queue) - 1
    BY <1>3, LeavingOrder
  <2>4. a < b
    BY <1>2, <1>3, <2>1, <2>2, <2>3
  <2> QED
    BY <1>1, <2>1, <2>2, <2>4
<1>4. ASSUME NEW t \in Threads, Coming(t), queue' = Insertion(call[t].event),
             NEW k \in 1..Len(queue'), NEW l \in 1..Len(queue'), k < l
      PROVE  ~Before(queue'[l], queue'[k])
  <2>1. PICK e : e = call[t].event
    OBVIOUS
  <2>2. \A i \in 1..Len(queue) : e.n \notin queue[i].after
    BY <1>4, <2>1, ComingIsLater
  <2>3. e \in EventType
    BY <2>1, ThreadFacts
  <2>4. CASE e.front
    <3>1. /\ Len(<<e>>) = 1 /\ <<e>>[1] = e /\ <<e>> \in Seq(EventType)
          /\ queue' = <<e>> \o queue
      BY <1>4, <2>1, <2>3, <2>4 DEF Insertion
    <3>2. /\ Len(queue') = 1 + Len(queue)
          /\ \A i \in 1..(1 + Len(queue)) :
                 queue'[i] = IF i <= 1 THEN <<e>>[i] ELSE queue[i - 1]
      BY <1>2, <3>1, ConcatProperties
    <3>3. l - 1 \in 1..Len(queue) /\ queue'[l] = queue[l - 1]
      BY <1>2, <1>4, <3>2
    <3>4. CASE k = 1
      <4>1. queue'[k] = e
        BY <1>4, <3>1, <3>2, <3>4
      <4> QED
        BY <2>2, <2>4, <3>3, <4>1 DEF Before
    <3>5. CASE k # 1
      <4>1. k - 1 \in 1..Len(queue) /\ queue'[k] = queue[k - 1] /\ k - 1 < l - 1
        BY <1>2, <1>4, <3>2, <3>5
      <4> QED
        BY <1>1, <3>3, <4>1
    <3> QED
      BY <3>4, <3>5
  <2>5. CASE ~e.front
    <3>1. queue' = Append(queue, e)
      BY <1>4, <2>1, <2>5 DEF Insertion
    <3>2. /\ Len(queue') = Len(queue) + 1
          /\ \A i \in 1..Len(queue) : queue'[i] = queue[i]
          /\ queue'[Len(queue) + 1] = e
      BY <1>2, <2>3, <3>1, AppendProperties
    <3>3. k \in 1..Len(queue) /\ queue'[k] = queue[k]
      BY <1>2, <1>4, <3>2
    <3>4. CASE l = Len(queue) + 1
      <4>1. queue'[l] = e
        BY <3>2, <3>4
      <4> QED
        BY <2>2, <2>5, <3>3, <4>1 DEF Before
    <3>5. CASE l # Len(queue) + 1
      <4>1. l \in 1..Len(queue) /\ queue'[l] = queue[l]
        BY <1>2, <1>4, <3>2, <3>5
      <4> QED
        BY <1>1, <1>4, <3>3, <4>1
    <3> QED
      BY <3>4, <3>5
  <2> QED
    BY <2>4, <2>5
<1>5. CASE queue' = queue
  BY <1>1, <1>5
<1> QED
  BY <1>3, <1>4, <1>5 DEF Shape, Leaves

\* ... whatever is in the queue was there or came to it, ...
LEMMA QueueComes ==
    ASSUME QueueInv, Shape, NEW k \in 1..Len(queue')
    PROVE  \/ \E j \in 1..Len(queue) : queue'[k] = queue[j]
           \/ \E t \in Threads : Coming(t) /\ queue'[k] = call[t].event
<1>1. queue \in Seq(EventType) /\ Len(queue) \in Nat
  BY TypeParts, LenProperties DEF QueueInv, QueueTypes
<1>2. ASSUME NEW i \in 1..Len(queue), queue' = RemoveAt(queue, i)
      PROVE  \E j \in 1..Len(queue) : queue'[k] = queue[j]
  BY <1>2, LeavingOrder
<1>3. ASSUME NEW t \in Threads, Coming(t), queue' = Insertion(call[t].event)
      PROVE  queue'[k] = call[t].event \/ \E j \in 1..Len(queue) : queue'[k] = queue[j]
  <2>1. PICK e : e = call[t].event
    OBVIOUS
  <2>2. e \in EventType
    BY <2>1, ThreadFacts
  <2>3. CASE e.front
    <3>1. /\ Len(<<e>>) = 1 /\ <<e>>[1] = e /\ <<e>> \in Seq(EventType)
          /\ queue' = <<e>> \o queue
      BY <1>3, <2>1, <2>2, <2>3 DEF Insertion
    <3>2. /\ Len(queue') = 1 + Len(queue)
          /\ \A i \in 1..(1 + Len(queue)) :
                 queue'[i] = IF i <= 1 THEN <<e>>[i] ELSE queue[i - 1]
      BY <1>1, <3>1, ConcatProperties
    <3>3. CASE k = 1
      BY <1>1, <2>1, <3>1, <3>2, <3>3
    <3>4. CASE k # 1
      <4>1. k - 1 \in 1..Len(queue) /\ queue'[k] = queue[k - 1]
        BY <1>1, <3>2, <3>4
      <4> QED
        BY <4>1
    <3> QED
      BY <3>3, <3>4
  <2>4. CASE ~e.front
    <3>1. queue' = Append(queue, e)
      BY <1>3, <2>1, <2>4 DEF Insertion
    <3>2. /\ Len(queue') = Len(queue) + 1
          /\ \A i \in 1..Len(queue) : queue'[i] = queue[i]
          /\ queue'[Len(queue) + 1] = e
      BY <1>1, <2>2, <3>1, AppendProperties
    <3>3. CASE k = Len(queue) + 1
      BY <2>1, <3>2, <3>3
    <3>4. CASE k # Len(queue) + 1
      <4>1. k \in 1..Len(queue)
        BY <1>1, <3>2, <3>4
      <4> QED
        BY <3>2, <4>1
    <3> QED
      BY <3>3, <3>4
  <2> QED
    BY <2>3, <2>4
<1> QED
  BY <1>2, <1>3 DEF Shape, Leaves

\* ... and a result is not behind what is left of its types.
LEMMA ResultOrder ==
    ASSUME QueueInv, OrderInv, Shape, NEW t \in Threads, Trims(t)',
           NEW k \in 1..Len(queue'), queue'[k].type \in call'[t].mask
    PROVE  ~Before(queue'[k], call'[t].event)
<1>1. Leaves
  BY DEF Shape
<1>2. ASSUME NEW i \in 1..Len(queue), Taking(t, i) PROVE ~Before(queue'[k], call'[t].event)
  <2>1. /\ call'[t].event = queue[i] /\ queue' = RemoveAt(queue, i)
        /\ \A j \in 1..Len(queue) : j < i => queue[j].type \notin call'[t].mask
    BY <1>2 DEF Taking
  <2>2. PICK j \in 1..Len(queue) : queue'[k] = queue[j] /\ j # i
    BY <2>1, LeavingOrder
  <2>3. ~(j < i)
    BY <2>1, <2>2
  <2>4. Len(queue) \in Nat
    BY ThreadFacts
  <2>5. i < j
    BY <2>2, <2>3, <2>4
  <2> QED
    BY <2>1, <2>2, <2>5 DEF OrderInv
<1>3. CASE Trims(t) /\ call'[t] = call[t]
  <2>1. \E j \in 1..Len(queue) : queue'[k] = queue[j]
    BY <1>1, LeavingOrder DEF Leaves
  <2> QED
    BY <1>3, <2>1 DEF OrderInv
<1> QED
  BY <1>2, <1>3 DEF Shape

\* Every step keeps the order.
LEMMA OrderStep == ASSUME QueueInv, OrderInv, [Next]_vars PROVE OrderInv'
<1>1. Shape
  BY StepShape
<1>2. Ended \subseteq Ended'
  BY <1>1, EndedGrows
<1>3. ASSUME NEW k \in 1..Len(queue') PROVE Past(queue[k])'
  <2>1. \E e : queue'[k] = e /\ Past(e)
    BY <1>1, QueueComes DEF OrderInv
  <2> QED
    BY <1>2, <2>1 DEF Past
<1>4. ASSUME NEW t \in Threads, Coming(t)' PROVE Past(call[t].event)'
  <2>1. CASE Comes(t)
    BY <1>2, <2>1 DEF Comes, Past
  <2>2. CASE Coming(t) /\ call'[t].event = call[t].event
    BY <1>2, <2>2 DEF OrderInv, Past
  <2> QED
    BY <1>1, <1>4, <2>1, <2>2 DEF Shape
<1>5. \A k, l \in 1..Len(queue') : k < l => ~Before(queue[l], queue[k])'
  BY <1>1, QueueOrder DEF Before
<1>6. ASSUME NEW t \in Threads, Trims(t)', NEW k \in 1..Len(queue'), (queue[k].type \in call[t].mask)'
      PROVE  ~Before(queue[k], call[t].event)'
  BY <1>1, <1>6, ResultOrder DEF Before
<1> QED
  BY <1>3, <1>4, <1>5, <1>6 DEF OrderInv

\* Events of any types, threads and ends of the queue wait in the order of their posts,
\* and a caller gets the first of the types it asked for.
THEOREM EventsInOrder == Spec => []InOrder
<1>1. Init => OrderInv
  <2>1. Init => Len(queue) = 0
    BY EmptySeq DEF Init
  <2>2. Init => \A t \in Threads : ~Coming(t) /\ ~Trims(t)
    BY DEF Init, Coming, Trims
  <2> QED
    BY <2>1, <2>2 DEF OrderInv
<1>2. QueueInv /\ OrderInv /\ [Next]_vars => OrderInv'
  BY OrderStep
<1>3. QueueInv /\ OrderInv => InOrder
  <2>1. QueueInv => DOMAIN queue = 1..Len(queue)
    BY TypeParts, LenProperties DEF QueueInv, QueueTypes
  <2> QED
    BY <2>1 DEF OrderInv, InOrder, Trims
<1> QED
  BY <1>1, <1>2, <1>3, QueueInvariant, PTL DEF Spec

-------------------------------------------------------------------------------
(* Monitors: the queue is as in its own specification.                        *)

\* Every behaviour of the queue with its monitors is one of the queue alone: what holds of
\* the queue holds here.
THEOREM QueueAlone == InputSpec => Spec
<1>1. InputInit => Init
  BY DEF InputInit
<1>2. [InputNext]_inputVars => [Next]_vars
  <2> SUFFICES ASSUME [InputNext]_inputVars PROVE Next \/ UNCHANGED vars
    OBVIOUS
  <2>1. CASE Queue(Main, Devices)
    BY <2>1 DEF Queue, Next
  <2>2. ASSUME NEW t \in Threads, QueueStep(t) PROVE Next
    BY <2>2 DEF QueueStep, Queue, Next
  <2>3. ASSUME NEW t \in Threads, Queue(t, Call(t)) PROVE Next
    BY <2>3 DEF Queue, Next
  <2>4. ASSUME NEW t \in Threads, RemoveMonitor(t) \/ \E mask \in Masks : AddMonitor(t, mask)
        PROVE  UNCHANGED vars
    BY <2>4 DEF RemoveMonitor, AddMonitor
  <2>5. CASE Dispatch
    BY <2>5 DEF Dispatch, Snapshot, Copied, CallHandler, HandlerReturns, Forward
  <2>6. CASE UNCHANGED inputVars
    BY <2>6 DEF inputVars
  <2> QED
    BY <2>1, <2>2, <2>3, <2>4, <2>5, <2>6 DEF InputNext
<1> QED
  BY <1>1, <1>2, PTL DEF InputSpec, Spec

-------------------------------------------------------------------------------
(* The copy of the monitors.                                                  *)

\* The table has its type.
TableOK == monitors \in [1..Places -> [block : Blocks \cup {None}, mask : SUBSET Types, n : 0..added]]

\* The next value of the copy's recursion.
CopyStep(f, i) ==
    IF i = 0 THEN <<>>
    ELSE IF Asked(monitors[i]) THEN Append(f[i - 1], monitors[i].block)
    ELSE f[i - 1]

IsCopy(f, n) == f = [i \in 0..n |-> CopyStep(f, i)]

\* The blocks of the first n places that are asked, and no others.
Holds(seq, n) ==
    /\ seq \in Seq(Blocks)
    /\ \A k \in 1..Len(seq) : \E i \in 1..n : Asked(monitors[i]) /\ monitors[i].block = seq[k]
    /\ \A i \in 1..n : Asked(monitors[i]) => \E k \in 1..Len(seq) : seq[k] = monitors[i].block

\* The recursion defines a function: one for n - 1 places gives one for n.
LEMMA CopyExists == \A n \in 0..Places : \E f : IsCopy(f, n)
<1> DEFINE bad == {n \in 0..Places : ~ \E f : IsCopy(f, n)}
<1> SUFFICES ASSUME bad # {} PROVE FALSE
  OBVIOUS
<1>0. Places \in Nat
  BY MonitorsAssumption
<1>1. bad \in SUBSET Nat
  BY <1>0
<1>2. PICK n \in bad : \A m \in bad : n <= m
  <2> HIDE DEF bad
  <2> QED
    BY <1>1, Least
<1>3. CASE n = 0
  <2> DEFINE f == [i \in 0..0 |-> <<>>]
  <2>1. \A i \in 0..0 : CopyStep(f, i) = <<>>
    BY DEF CopyStep
  <2>2. f = [i \in 0..0 |-> CopyStep(f, i)]
    BY <2>1
  <2> HIDE DEF f
  <2>3. IsCopy(f, 0)
    BY <2>2 DEF IsCopy
  <2> QED
    BY <1>3, <2>3
<1>4. CASE n # 0
  <2>1. n - 1 \in 0..Places /\ n - 1 \notin bad /\ n \in Nat
    <3>1. n - 1 \in 0..Places /\ n \in Nat /\ ~ (n <= n - 1)
      BY <1>0, <1>1, <1>4
    <3> QED
      BY <1>2, <3>1
  <2>2. PICK g : IsCopy(g, n - 1)
    BY <2>1
  <2> DEFINE f == [i \in 0..n |-> IF i = n THEN CopyStep(g, n) ELSE g[i]]
  <2>3. \A i \in 0..n : f[i] = CopyStep(f, i)
    <3> SUFFICES ASSUME NEW i \in 0..n PROVE f[i] = CopyStep(f, i)
      OBVIOUS
    <3>1. \A j \in 0..(n - 1) : f[j] = g[j]
      BY <2>1
    <3>2. g = [j \in 0..(n - 1) |-> CopyStep(g, j)]
      BY <2>2 DEF IsCopy
    <3>3. i # 0 => i - 1 \in 0..(n - 1)
      BY <2>1
    <3>4. CopyStep(f, i) = CopyStep(g, i)
      <4>1. i # 0 => f[i - 1] = g[i - 1]
        BY <3>1, <3>3
      <4> HIDE DEF f
      <4> QED
        BY <4>1 DEF CopyStep
    <3>5. CASE i = n
      BY <3>4, <3>5
    <3>6. CASE i # n
      <4>1. i \in 0..(n - 1) /\ f[i] = g[i]
        BY <2>1, <3>6
      <4>2. g[i] = CopyStep(g, i)
        BY <3>2, <4>1
      <4> QED
        BY <3>4, <4>1, <4>2
    <3> QED
      BY <3>5, <3>6
  <2>4. f = [i \in 0..n |-> f[i]]
    OBVIOUS
  <2> HIDE DEF f
  <2>5. IsCopy(f, n)
    BY <2>3, <2>4 DEF IsCopy
  <2> QED
    BY <2>5
<1> QED
  BY <1>3, <1>4

\* What is copied: the blocks of the monitors that are asked.
LEMMA CopyFacts == ASSUME TableOK PROVE Holds(CopyOf(Places), Places)
<1>0. Places \in Nat /\ Places \in 0..Places
  BY MonitorsAssumption
<1> DEFINE F == CHOOSE f : IsCopy(f, Places)
<1>1. IsCopy(F, Places)
  BY <1>0, CopyExists
<1>2. CopyOf(Places) = F[Places]
  BY <1>0 DEF CopyOf, IsCopy, CopyStep
<1> HIDE DEF F
<1>3. F = [i \in 0..Places |-> CopyStep(F, i)]
  BY <1>1 DEF IsCopy
<1>4. \A n \in 0..Places : F[n] = CopyStep(F, n)
  BY <1>3
<1>5. \A i \in 1..Places : Asked(monitors[i]) => monitors[i].block \in Blocks
  BY DEF TableOK, Asked
<1>6. \A n \in 0..Places : Holds(F[n], n)
  <2> DEFINE bad == {n \in 0..Places : ~Holds(F[n], n)}
  <2> SUFFICES ASSUME bad # {} PROVE FALSE
    OBVIOUS
  <2>1. bad \in SUBSET Nat
    BY <1>0
  <2>2. PICK n \in bad : \A m \in bad : n <= m
    <3> HIDE DEF bad
    <3> QED
      BY <2>1, Least
  <2>3. CASE n = 0
    <3>1. F[0] = <<>>
      BY <1>0, <1>4 DEF CopyStep
    <3>2. <<>> \in Seq(Blocks) /\ Len(<<>>) = 0 /\ 1..0 = {}
      BY EmptySeq
    <3>3. Holds(F[0], 0)
      BY <3>1, <3>2 DEF Holds
    <3> QED
      BY <2>3, <3>3
  <2>4. CASE n # 0
    <3>1. n - 1 \in 0..Places /\ n \in 1..Places /\ n - 1 \notin bad
      <4>1. n - 1 \in 0..Places /\ n \in 1..Places /\ ~ (n <= n - 1)
        BY <1>0, <2>1, <2>4
      <4> QED
        BY <2>2, <4>1
    <3>2. Holds(F[n - 1], n - 1)
      BY <3>1
    <3>3. F[n - 1] \in Seq(Blocks) /\ Len(F[n - 1]) \in Nat
      BY <3>2, LenProperties DEF Holds
    <3>4. \A i \in 1..n : i = n \/ i \in 1..(n - 1)
      BY <3>1
    <3>5. CASE Asked(monitors[n])
      <4>1. F[n] = Append(F[n - 1], monitors[n].block)
        BY <1>4, <2>4, <3>1, <3>5 DEF CopyStep
      <4> PICK b \in Blocks : b = monitors[n].block
        BY <1>5, <3>1, <3>5
      <4>2. /\ F[n] \in Seq(Blocks) /\ Len(F[n]) = Len(F[n - 1]) + 1
            /\ \A k \in 1..Len(F[n - 1]) : F[n][k] = F[n - 1][k]
            /\ F[n][Len(F[n - 1]) + 1] = b
        BY <3>3, <4>1, AppendProperties
      <4>3. ASSUME NEW k \in 1..Len(F[n])
            PROVE  \E i \in 1..n : Asked(monitors[i]) /\ monitors[i].block = F[n][k]
        <5>1. CASE k = Len(F[n - 1]) + 1
          BY <3>1, <3>5, <4>2, <5>1
        <5>2. CASE k # Len(F[n - 1]) + 1
          <6>1. k \in 1..Len(F[n - 1])
            BY <3>3, <4>2, <5>2
          <6>2. PICK i \in 1..(n - 1) : Asked(monitors[i]) /\ monitors[i].block = F[n - 1][k]
            BY <3>2, <6>1 DEF Holds
          <6>3. i \in 1..n
            BY <3>1
          <6> QED
            BY <4>2, <6>1, <6>2, <6>3
        <5> QED
          BY <5>1, <5>2
      <4>4. ASSUME NEW i \in 1..n, Asked(monitors[i])
            PROVE  \E k \in 1..Len(F[n]) : F[n][k] = monitors[i].block
        <5>1. CASE i = n
          <6>1. Len(F[n - 1]) + 1 \in 1..Len(F[n])
            BY <3>3, <4>2
          <6> QED
            BY <4>2, <5>1, <6>1
        <5>2. CASE i # n
          <6>1. i \in 1..(n - 1)
            BY <3>4, <5>2
          <6>2. PICK k \in 1..Len(F[n - 1]) : F[n - 1][k] = monitors[i].block
            BY <3>2, <4>4, <6>1 DEF Holds
          <6>3. k \in 1..Len(F[n])
            BY <3>3, <4>2
          <6> QED
            BY <4>2, <6>2, <6>3
        <5> QED
          BY <5>1, <5>2
      <4>5. Holds(F[n], n)
        BY <4>2, <4>3, <4>4 DEF Holds
      <4> QED
        BY <4>5
    <3>6. CASE ~Asked(monitors[n])
      <4>1. F[n] = F[n - 1]
        BY <1>4, <2>4, <3>1, <3>6 DEF CopyStep
      <4>2. 1..(n - 1) \subseteq 1..n
        BY <3>1
      <4>3. Holds(F[n], n)
        BY <3>2, <3>4, <3>6, <4>1, <4>2 DEF Holds
      <4> QED
        BY <4>3
    <3> QED
      BY <3>5, <3>6
  <2> QED
    BY <2>3, <2>4
<1> QED
  BY <1>0, <1>2, <1>6

-------------------------------------------------------------------------------
(* The monitors hear.                                                         *)

DispatchType == [at : {"out", "snapshot", "call", "handler"}, type : Types \cup {"none"},
                 handlers : Seq(Blocks), heard : SUBSET (1..added), since : 0..added,
                 removed : BOOLEAN]

\* What this part adds to the queue's types.
MonitorTypes == bounds \in Traffic /\ TableOK /\ dispatch \in DispatchType /\ added \in 0..bounds.adds

\* The input's types in parts, before and after a step.
LEMMA InputParts ==
    /\ InputInv <=> QueueInv /\ MonitorTypes /\ DispatchOK /\ Numbered
    /\ InputInv' <=> QueueInv' /\ MonitorTypes' /\ DispatchOK' /\ Numbered'
BY DEF InputInv, InputTypeOK, QueueInv, MonitorTypes, TableOK, DispatchType

\* What is known of the monitors.
LEMMA InputFacts ==
    ASSUME InputInv
    PROVE  /\ Places \in Nat /\ None \notin Blocks /\ bounds \in Traffic /\ bounds.adds \in Nat
           /\ added \in Nat /\ added \in 0..bounds.adds
           /\ monitors \in [1..Places -> [block : Blocks \cup {None}, mask : SUBSET Types, n : 0..added]]
           /\ \A i \in 1..Places : /\ monitors[i].block \in Blocks \cup {None}
                                    /\ monitors[i].n \in 0..added
                                    /\ monitors[i].block # None => monitors[i].n \in 1..added
           /\ dispatch \in DispatchType /\ dispatch.handlers \in Seq(Blocks)
           /\ dispatch.heard \subseteq 1..added /\ dispatch.since \in 0..added
           /\ dispatch.at \in {"out", "snapshot", "call", "handler"}
           /\ dispatch.type \in Types \cup {"none"} /\ dispatch.removed \in BOOLEAN
           /\ DOMAIN dispatch.handlers = 1..Len(dispatch.handlers) /\ Len(dispatch.handlers) \in Nat
           /\ QueueInv /\ DispatchOK
<1>1. QueueInv /\ MonitorTypes /\ DispatchOK /\ Numbered
  BY InputParts
<1>2. Places \in Nat /\ None \notin Blocks /\ Traffic \subseteq [posts : 0..MaxPosts, calls : 0..MaxCalls, adds : Nat]
  BY MonitorsAssumption
<1>3. bounds \in Traffic /\ bounds.adds \in Nat /\ added \in 0..bounds.adds
  BY <1>1, <1>2 DEF MonitorTypes
<1>4. added \in Nat
  BY <1>3
<1>5. monitors \in [1..Places -> [block : Blocks \cup {None}, mask : SUBSET Types, n : 0..added]]
  BY <1>1 DEF MonitorTypes, TableOK
<1>6. \A i \in 1..Places : /\ monitors[i].block \in Blocks \cup {None}
                           /\ monitors[i].n \in 0..added
                           /\ monitors[i].block # None => monitors[i].n \in 1..added
  BY <1>1, <1>5 DEF Numbered
<1>7. dispatch \in DispatchType
  BY <1>1 DEF MonitorTypes
<1>8. /\ dispatch.handlers \in Seq(Blocks)
      /\ dispatch.heard \subseteq 1..added /\ dispatch.since \in 0..added
      /\ dispatch.at \in {"out", "snapshot", "call", "handler"}
      /\ dispatch.type \in Types \cup {"none"} /\ dispatch.removed \in BOOLEAN
  BY <1>7 DEF DispatchType
<1>9. DOMAIN dispatch.handlers = 1..Len(dispatch.handlers) /\ Len(dispatch.handlers) \in Nat
  BY <1>8, LenProperties
<1> QED
  BY <1>1, <1>2, <1>3, <1>4, <1>5, <1>6, <1>7, <1>8, <1>9

\* The table stays: what is to show is about the dispatch.
LEMMA TableStays ==
    ASSUME InputInv, QueueInv', UNCHANGED <<bounds, monitors, added>>,
           dispatch' \in DispatchType, DispatchOK'
    PROVE  InputInv'
<1>1. MonitorTypes' /\ Numbered'
  BY InputParts DEF MonitorTypes, TableOK, DispatchType, Numbered
<1> QED
  BY <1>1, InputParts

\* No event is dispatched.
LEMMA NoDispatchOK ==
    ASSUME InputInv, NEW at \in {"out", "snapshot"}, NEW type \in Types \cup {"none"},
           NEW since \in 0..added, dispatch' = Beginning(at, type, since)
    PROVE  dispatch' \in DispatchType /\ DispatchOK'
<1>1. <<>> \in Seq(Blocks) /\ DOMAIN <<>> = {}
  BY EmptySeq
<1>2. dispatch' \in DispatchType
  BY <1>1 DEF Beginning, DispatchType
<1>3. dispatch'.at \in {"out", "snapshot"} /\ dispatch'.handlers = <<>>
  BY DEF Beginning
<1> QED
  BY <1>1, <1>2, <1>3 DEF DispatchOK

\* A step of the queue.
LEMMA QueueInput ==
    ASSUME InputInv, NEW t \in Threads, QueueInv',
           \/ /\ t = Main /\ pc[t] = "send" /\ dispatch.at = "out"
              /\ dispatch' = Beginning("snapshot", call[t].event.type, added)
           \/ UNCHANGED dispatch,
           UNCHANGED <<bounds, monitors, added>>
    PROVE  InputInv'
<1>1. CASE dispatch' = Beginning("snapshot", call[t].event.type, added)
  <2>1. call[t].event.type \in Types \cup {"none"}
    <3>1. call[t].event \in EventType
      BY InputFacts, ThreadFacts
    <3> QED
      BY <3>1 DEF EventType
  <2>2. added \in 0..added
    BY InputFacts
  <2>3. dispatch' \in DispatchType /\ DispatchOK'
    BY <1>1, <2>1, <2>2, NoDispatchOK
  <2> QED
    BY <2>3, TableStays
<1>2. CASE dispatch' = dispatch
  <2>1. DispatchOK' /\ dispatch' \in DispatchType
    BY <1>2, InputFacts DEF DispatchOK
  <2> QED
    BY <2>1, TableStays
<1> QED
  BY <1>1, <1>2

\* A monitor is added: its number is above those the dispatch began with.
LEMMA AddInput ==
    ASSUME InputInv, NEW t \in Threads, NEW mask \in Masks, AddMonitor(t, mask)
    PROVE  InputInv'
<1> DEFINE free == {i \in 1..Places : monitors[i].block = None}
<1>1. /\ added < bounds.adds /\ added' = added + 1 /\ UNCHANGED <<vars, bounds, dispatch>>
      /\ \/ UNCHANGED monitors
         \/ \E b \in Blocks : free # {} /\ monitors' = [monitors EXCEPT ![Min(free)] =
                                              [block |-> b, mask |-> mask, n |-> added']]
  BY DEF AddMonitor
<1>2. QueueInv'
  BY <1>1, QueueStutter, InputFacts
<1>3. added' \in 0..bounds.adds /\ 0..added \subseteq 0..added' /\ 1..added \subseteq 1..added' /\ added' \in 1..added'
  BY <1>1, InputFacts
<1>4. dispatch' \in DispatchType'
  BY <1>1, <1>3, InputFacts DEF DispatchType
<1>5. CASE UNCHANGED monitors
  <2>1. TableOK' /\ Numbered'
    BY <1>3, <1>5, InputFacts DEF TableOK, Numbered
  <2>2. DispatchOK'
    BY <1>1, <1>5, InputFacts DEF DispatchOK
  <2> QED
    BY <1>1, <1>2, <1>3, <1>4, <2>1, <2>2, InputParts, InputFacts DEF MonitorTypes
<1>6. ASSUME NEW b \in Blocks, free # {},
             monitors' = [monitors EXCEPT ![Min(free)] = [block |-> b, mask |-> mask, n |-> added']]
      PROVE  InputInv'
  <2>1. PICK p \in free : p = Min(free)
    <3>1. free \in SUBSET Nat
      BY InputFacts
    <3> HIDE DEF free
    <3> QED
      BY <1>6, <3>1, MinFacts
  <2>2. PICK m \in [block : Blocks \cup {None}, mask : SUBSET Types, n : 0..added'] :
            m = [block |-> b, mask |-> mask, n |-> added']
    <3>1. mask \in SUBSET Types
      BY QueueAssumption
    <3>2. added' \in 0..added'
      BY <1>1, InputFacts
    <3> QED
      BY <3>1, <3>2
  <2>3. p \in 1..Places /\ monitors[p].block = None /\ m.n = added' /\ m.block = b /\ b # None
    BY <2>1, <2>2, InputFacts
  <2>4. monitors' = [monitors EXCEPT ![p] = m]
    BY <1>6, <2>1, <2>2
  <2>5. /\ monitors'[p] = m
        /\ \A i \in 1..Places : i # p => monitors'[i] = monitors[i]
    BY <2>3, <2>4, InputFacts
  <2>6. TableOK'
    <3>1. monitors \in [1..Places -> [block : Blocks \cup {None}, mask : SUBSET Types, n : 0..added']]
      BY <1>3, InputFacts
    <3> QED
      BY <2>3, <2>4, <3>1 DEF TableOK
  <2>7. Numbered'
    BY <1>3, <2>3, <2>5, InputFacts DEF Numbered
  <2>8. DispatchOK'
    <3>1. dispatch' = dispatch /\ dispatch.since < added'
      BY <1>1, InputFacts
    <3>2. ~ (m.n <= dispatch.since)
      BY <1>1, <2>3, InputFacts
    <3>3. dispatch.at \in {"out", "snapshot"} => dispatch.handlers = <<>>
      BY InputFacts DEF DispatchOK
    <3>4. ASSUME dispatch.at \in {"call", "handler"}, NEW i \in 1..Places,
                 monitors'[i].block # None, monitors'[i].n <= dispatch.since,
                 dispatch.type \in monitors'[i].mask
          PROVE  monitors'[i].n \in dispatch.heard \/ monitors'[i].block \in Range(dispatch.handlers)
      <4>1. i # p
        BY <2>5, <3>2, <3>4
      <4> QED
        BY <2>5, <3>4, <4>1, InputFacts DEF DispatchOK
    <3>5. ASSUME ~dispatch.removed, NEW k \in DOMAIN dispatch.handlers
          PROVE  \E i \in 1..Places :
                     monitors'[i].block = dispatch.handlers[k] /\ dispatch.type \in monitors'[i].mask
      <4>1. PICK i \in 1..Places :
                monitors[i].block = dispatch.handlers[k] /\ dispatch.type \in monitors[i].mask
        BY <3>5, InputFacts DEF DispatchOK
      <4>2. dispatch.handlers[k] # None
        BY <3>5, InputFacts, ElementOfSeq
      <4>3. i # p
        BY <2>3, <4>1, <4>2
      <4> QED
        BY <2>5, <4>1, <4>3
    <3> QED
      BY <3>1, <3>3, <3>4, <3>5 DEF DispatchOK
  <2> QED
    BY <1>1, <1>2, <1>3, <1>4, <2>6, <2>7, <2>8, InputParts, InputFacts DEF MonitorTypes
<1> QED
  BY <1>1, <1>5, <1>6

\* A monitor is removed.
LEMMA RemoveInput ==
    ASSUME InputInv, NEW t \in Threads, RemoveMonitor(t)
    PROVE  InputInv'
<1>1. PICK p \in 1..Places : monitors' = [monitors EXCEPT ![p] = NoMonitor]
  BY DEF RemoveMonitor
<1>2. /\ UNCHANGED <<vars, bounds, added>>
      /\ dispatch' = [dispatch EXCEPT !.removed = (dispatch.at # "out")]
  BY DEF RemoveMonitor
<1>3. QueueInv'
  BY <1>2, QueueStutter, InputFacts
<1>4. /\ dispatch' \in DispatchType /\ dispatch'.removed = (dispatch.at # "out")
      /\ dispatch'.at = dispatch.at /\ dispatch'.type = dispatch.type
      /\ dispatch'.handlers = dispatch.handlers /\ dispatch'.heard = dispatch.heard
      /\ dispatch'.since = dispatch.since
  <2>1. PICK gone_now \in BOOLEAN : gone_now = (dispatch.at # "out")
    OBVIOUS
  <2>2. dispatch' = [dispatch EXCEPT !.removed = gone_now]
    BY <1>2, <2>1
  <2>3. /\ dispatch' \in DispatchType /\ dispatch'.removed = gone_now
        /\ dispatch'.at = dispatch.at /\ dispatch'.type = dispatch.type
        /\ dispatch'.handlers = dispatch.handlers /\ dispatch'.heard = dispatch.heard
        /\ dispatch'.since = dispatch.since
    BY <2>2, InputFacts DEF DispatchType
  <2> QED
    BY <2>1, <2>3
<1>5. NoMonitor \in [block : Blocks \cup {None}, mask : SUBSET Types, n : 0..added] /\ NoMonitor.block = None
  BY InputFacts DEF NoMonitor
<1>6. /\ monitors'[p] = NoMonitor
      /\ \A i \in 1..Places : i # p => monitors'[i] = monitors[i]
  BY <1>1, InputFacts
<1>7. TableOK' /\ Numbered'
  BY <1>1, <1>2, <1>5, <1>6, InputFacts DEF TableOK, Numbered
<1>8. DispatchOK'
  <2>1. dispatch'.at \in {"out", "snapshot"} => dispatch'.handlers = <<>>
    BY <1>4, InputFacts DEF DispatchOK
  <2>2. ASSUME dispatch'.at \in {"call", "handler"}, NEW i \in 1..Places,
               monitors'[i].block # None, monitors'[i].n <= dispatch'.since,
               dispatch'.type \in monitors'[i].mask
        PROVE  monitors'[i].n \in dispatch'.heard \/ monitors'[i].block \in Range(dispatch'.handlers)
    <3>1. i # p
      BY <1>5, <1>6, <2>2
    <3> QED
      BY <1>4, <1>6, <2>2, <3>1, InputFacts DEF DispatchOK
  <2>3. ~dispatch'.removed => dispatch'.handlers = <<>>
    BY <1>4, <2>1
  <2>4. DOMAIN <<>> = {}
    OBVIOUS
  <2> QED
    BY <2>1, <2>2, <2>3, <2>4 DEF DispatchOK
<1> QED
  BY <1>2, <1>3, <1>4, <1>7, <1>8, InputParts, InputFacts DEF MonitorTypes, DispatchType

\* The copy is made.
LEMMA SnapshotInput == ASSUME InputInv, Snapshot PROVE InputInv'
<1> DEFINE made == CopyOf(Places)
<1>1. dispatch.at = "snapshot" /\ UNCHANGED <<vars, bounds, monitors, added>>
      /\ dispatch' = [dispatch EXCEPT !.at = "call", !.handlers = made]
  BY DEF Snapshot, Copied
<1>2. Holds(made, Places)
  BY InputFacts, CopyFacts DEF TableOK
<1> HIDE DEF made
<1>3. made \in Seq(Blocks) /\ Len(made) \in Nat /\ DOMAIN made = 1..Len(made)
  BY <1>2, LenProperties DEF Holds
<1>4. PICK d : d = [dispatch EXCEPT !.at = "call"]
  OBVIOUS
<1>5. /\ d \in DispatchType /\ d.at = "call" /\ d.type = dispatch.type /\ d.heard = dispatch.heard
      /\ d.since = dispatch.since /\ d.removed = dispatch.removed
  BY <1>4, InputFacts DEF DispatchType
<1>6. dispatch' = [d EXCEPT !.handlers = made]
  BY <1>1, <1>4
<1>7. /\ dispatch' \in DispatchType /\ dispatch'.at = "call" /\ dispatch'.type = dispatch.type
      /\ dispatch'.since = dispatch.since /\ dispatch'.removed = dispatch.removed
      /\ dispatch'.handlers = made
  BY <1>3, <1>5, <1>6 DEF DispatchType
<1>8. ASSUME NEW i \in 1..Places, Asked(monitors[i])
      PROVE  monitors[i].block \in Range(made)
  BY <1>2, <1>3, <1>8 DEF Holds, Range
<1>9. \A k \in DOMAIN made : \E i \in 1..Places :
          monitors[i].block = made[k] /\ dispatch.type \in monitors[i].mask
  BY <1>2, <1>3 DEF Holds, Asked
<1>10. DispatchOK'
  BY <1>1, <1>7, <1>8, <1>9 DEF DispatchOK, Asked
<1>11. QueueInv'
  BY <1>1, QueueStutter, InputFacts
<1> QED
  BY <1>1, <1>7, <1>10, <1>11, TableStays

\* What is left of a sequence without its first element.
LEMMA TailRange ==
    ASSUME NEW S, NEW q \in Seq(S), q # <<>>
    PROVE  /\ Tail(q) \in Seq(S) /\ Len(q) \in Nat /\ Len(q) # 0 /\ Len(Tail(q)) = Len(q) - 1
           /\ \A k \in DOMAIN Tail(q) : k + 1 \in DOMAIN q /\ Tail(q)[k] = q[k + 1]
           /\ Range(q) \subseteq {Head(q)} \cup Range(Tail(q))
<1>1. Len(q) \in Nat /\ Len(q) # 0 /\ DOMAIN q = 1..Len(q)
  BY EmptySeq, LenProperties
<1>2. Tail(q) \in Seq(S) /\ Len(Tail(q)) = Len(q) - 1 /\ DOMAIN Tail(q) = 1..(Len(q) - 1)
  BY <1>1, LenProperties, HeadTailProperties
<1>3. Head(q) = q[1] /\ \A k \in 1..(Len(q) - 1) : Tail(q)[k] = q[k + 1]
  BY <1>1, HeadTailProperties
<1>4. ASSUME NEW k \in DOMAIN q PROVE q[k] \in {Head(q)} \cup Range(Tail(q))
  <2>1. CASE k = 1
    BY <1>3, <2>1
  <2>2. CASE k # 1
    <3>1. k - 1 \in 1..(Len(q) - 1) /\ (k - 1) + 1 = k
      BY <1>1, <2>2
    <3>2. Tail(q)[k - 1] = q[k] /\ k - 1 \in DOMAIN Tail(q)
      BY <1>2, <1>3, <3>1
    <3> QED
      BY <3>2 DEF Range
  <2> QED
    BY <2>1, <2>2
<1> QED
  BY <1>1, <1>2, <1>3, <1>4 DEF Range

\* A handler is called: whoever is at its address has heard the event.
LEMMA CallInput == ASSUME InputInv, CallHandler PROVE InputInv'
<1> DEFINE called == {monitors[i].n : i \in
                          {j \in 1..Places : monitors[j].block = Head(dispatch.handlers)}}
           heard == dispatch.heard \cup called
           rest == Tail(dispatch.handlers)
<1>1. dispatch.at = "call" /\ dispatch.handlers # <<>> /\ UNCHANGED <<vars, bounds, monitors, added>>
      /\ dispatch' = [dispatch EXCEPT !.at = "handler", !.handlers = Tail(@), !.heard = @ \cup called]
  BY DEF CallHandler
<1>2. /\ rest \in Seq(Blocks)
      /\ \A k \in DOMAIN rest : k + 1 \in DOMAIN dispatch.handlers /\ rest[k] = dispatch.handlers[k + 1]
      /\ Range(dispatch.handlers) \subseteq {Head(dispatch.handlers)} \cup Range(rest)
  BY <1>1, InputFacts, TailRange
<1>3. Head(dispatch.handlers) \in Blocks
  BY <1>1, InputFacts, EmptySeq, HeadTailProperties
<1>4. heard \in SUBSET (1..added)
  <2>1. ASSUME NEW j \in 1..Places, monitors[j].block = Head(dispatch.handlers)
        PROVE  monitors[j].n \in 1..added
    BY <1>3, <2>1, InputFacts
  <2> QED
    BY <2>1, InputFacts
<1>5. \A i \in 1..Places : monitors[i].block = Head(dispatch.handlers) => monitors[i].n \in heard
  OBVIOUS
<1>6. dispatch.heard \subseteq heard
  OBVIOUS
<1>7. PICK d : d = [dispatch EXCEPT !.at = "handler"]
  OBVIOUS
<1>8. /\ d \in DispatchType /\ d.at = "handler" /\ d.type = dispatch.type /\ d.heard = dispatch.heard
      /\ d.since = dispatch.since /\ d.removed = dispatch.removed /\ d.handlers = dispatch.handlers
  BY <1>7, InputFacts DEF DispatchType
<1>9. PICK c : c = [d EXCEPT !.handlers = rest]
  OBVIOUS
<1>10. /\ c \in DispatchType /\ c.at = "handler" /\ c.type = dispatch.type /\ c.heard = dispatch.heard
       /\ c.since = dispatch.since /\ c.removed = dispatch.removed /\ c.handlers = rest
  BY <1>2, <1>8, <1>9 DEF DispatchType
<1>11. dispatch' = [c EXCEPT !.heard = heard]
  BY <1>1, <1>7, <1>8, <1>9, <1>10
<1> HIDE DEF heard, rest
<1>12. /\ dispatch' \in DispatchType /\ dispatch'.at = "handler" /\ dispatch'.type = dispatch.type
       /\ dispatch'.since = dispatch.since /\ dispatch'.removed = dispatch.removed
       /\ dispatch'.handlers = rest /\ dispatch'.heard = heard
  BY <1>4, <1>10, <1>11 DEF DispatchType
<1>13. DispatchOK'
  <2>1. ASSUME NEW i \in 1..Places, monitors[i].block # None, monitors[i].n <= dispatch.since,
               dispatch.type \in monitors[i].mask
        PROVE  monitors[i].n \in heard \/ monitors[i].block \in Range(rest)
    <3>1. monitors[i].n \in dispatch.heard \/ monitors[i].block \in Range(dispatch.handlers)
      BY <1>1, <2>1, InputFacts DEF DispatchOK
    <3> QED
      BY <1>2, <1>5, <1>6, <3>1
  <2>2. ASSUME ~dispatch.removed, NEW k \in DOMAIN rest
        PROVE  \E i \in 1..Places : monitors[i].block = rest[k] /\ dispatch.type \in monitors[i].mask
    <3>1. PICK l \in DOMAIN dispatch.handlers : rest[k] = dispatch.handlers[l]
      BY <1>2, <2>2
    <3> QED
      BY <2>2, <3>1, InputFacts DEF DispatchOK
  <2>3. dispatch'.at \notin {"out", "snapshot"} /\ monitors' = monitors
    BY <1>1, <1>12
  <2>4. \A i \in 1..Places :
            monitors'[i].block # None /\ monitors'[i].n <= dispatch'.since /\ dispatch'.type \in monitors'[i].mask
                => monitors'[i].n \in dispatch'.heard \/ monitors'[i].block \in Range(dispatch'.handlers)
    BY <1>12, <2>1, <2>3
  <2>5. ~dispatch'.removed =>
            \A k \in DOMAIN dispatch'.handlers : \E i \in 1..Places :
                monitors'[i].block = dispatch'.handlers[k] /\ dispatch'.type \in monitors'[i].mask
    BY <1>12, <2>2, <2>3
  <2> QED
    BY <2>3, <2>4, <2>5 DEF DispatchOK
<1>14. QueueInv'
  BY <1>1, QueueStutter, InputFacts
<1> QED
  BY <1>1, <1>12, <1>13, <1>14, TableStays

\* A handler returns, or the event is forwarded.
LEMMA ReturnInput == ASSUME InputInv, HandlerReturns \/ Forward PROVE InputInv'
<1>1. /\ UNCHANGED <<vars, bounds, monitors, added>>
      /\ \/ dispatch' = NoDispatch
         \/ dispatch.at = "handler" /\ dispatch' = [dispatch EXCEPT !.at = "call"]
  BY DEF HandlerReturns, Forward
<1>2. QueueInv'
  BY <1>1, QueueStutter, InputFacts
<1>3. CASE dispatch' = NoDispatch
  <2>1. dispatch' = Beginning("out", "none", 0) /\ 0 \in 0..added
    BY <1>3, InputFacts DEF NoDispatch
  <2>2. dispatch' \in DispatchType /\ DispatchOK'
    BY <2>1, NoDispatchOK
  <2> QED
    BY <1>1, <1>2, <2>2, TableStays
<1>4. CASE dispatch.at = "handler" /\ dispatch' = [dispatch EXCEPT !.at = "call"]
  <2>1. /\ dispatch' \in DispatchType /\ dispatch'.at = "call" /\ dispatch'.type = dispatch.type
        /\ dispatch'.since = dispatch.since /\ dispatch'.removed = dispatch.removed
        /\ dispatch'.handlers = dispatch.handlers /\ dispatch'.heard = dispatch.heard
    BY <1>4, InputFacts DEF DispatchType
  <2>2. DispatchOK'
    BY <1>1, <1>4, <2>1, InputFacts DEF DispatchOK
  <2> QED
    BY <1>1, <1>2, <2>1, <2>2, TableStays
<1> QED
  BY <1>1, <1>3, <1>4

\* At first nobody listens.
LEMMA InputBegins == InputInit => InputInv
<1> SUFFICES ASSUME InputInit PROVE InputInv
  OBVIOUS
<1>1. QueueInv
  BY QueueInit DEF InputInit
<1>2. /\ bounds \in Traffic /\ bounds.adds \in Nat /\ added = 0 /\ dispatch = NoDispatch
      /\ monitors = [i \in 1..Places |-> NoMonitor]
  BY MonitorsAssumption DEF InputInit
<1>3. NoMonitor \in [block : Blocks \cup {None}, mask : SUBSET Types, n : 0..0] /\ NoMonitor.block = None
  BY DEF NoMonitor
<1>4. TableOK /\ Numbered
  BY <1>2, <1>3 DEF TableOK, Numbered
<1>5. <<>> \in Seq(Blocks) /\ DOMAIN <<>> = {}
  BY EmptySeq
<1>6. dispatch \in DispatchType
  BY <1>2, <1>5 DEF NoDispatch, Beginning, DispatchType
<1>7. dispatch.at = "out" /\ dispatch.handlers = <<>>
  BY <1>2 DEF NoDispatch, Beginning
<1>8. DispatchOK
  BY <1>5, <1>7 DEF DispatchOK
<1> QED
  BY <1>1, <1>2, <1>4, <1>6, <1>8, InputParts DEF MonitorTypes

\* One step of the composition.
LEMMA InputStep == ASSUME InputInv, [InputNext]_inputVars PROVE InputInv'
<1>1. CASE Queue(Main, Devices)
  <2>1. Next /\ Main \in Threads
    BY <1>1 DEF Queue, Next, Threads
  <2>2. QueueInv'
    BY <2>1, InputFacts, QueueNext
  <2>3. /\ \/ /\ Main = Main /\ pc[Main] = "send" /\ dispatch.at = "out"
              /\ dispatch' = Beginning("snapshot", call[Main].event.type, added)
           \/ UNCHANGED dispatch
        /\ UNCHANGED <<bounds, monitors, added>>
    BY <1>1 DEF Queue
  <2> QED
    BY <2>1, <2>2, <2>3, QueueInput
<1>2. ASSUME NEW t \in Threads, QueueStep(t) \/ Queue(t, Call(t)) PROVE InputInv'
  <2>1. Next
    BY <1>2 DEF QueueStep, Queue, Next
  <2>2. QueueInv'
    BY <2>1, InputFacts, QueueNext
  <2>3. /\ \/ /\ t = Main /\ pc[t] = "send" /\ dispatch.at = "out"
              /\ dispatch' = Beginning("snapshot", call[t].event.type, added)
           \/ UNCHANGED dispatch
        /\ UNCHANGED <<bounds, monitors, added>>
    BY <1>2 DEF QueueStep, Queue
  <2> QED
    BY <2>2, <2>3, QueueInput
<1>3. ASSUME NEW t \in Threads, RemoveMonitor(t) \/ \E mask \in Masks : AddMonitor(t, mask)
      PROVE  InputInv'
  BY <1>3, AddInput, RemoveInput
<1>4. CASE Dispatch
  BY <1>4, SnapshotInput, CallInput, ReturnInput DEF Dispatch
<1>5. CASE UNCHANGED inputVars
  <2>1. UNCHANGED <<vars, bounds, monitors, dispatch, added>>
    BY <1>5 DEF inputVars, monitorVars
  <2>2. QueueInv'
    BY <2>1, QueueStutter, InputFacts
  <2>3. dispatch' \in DispatchType /\ DispatchOK'
    BY <2>1, InputFacts DEF DispatchOK
  <2> QED
    BY <2>1, <2>2, <2>3, TableStays
<1> QED
  BY <1>1, <1>2, <1>3, <1>4, <1>5 DEF InputNext

\* The invariant of the composition: the queue's, the table's numbers, and what the copy of
\* the blocks still holds while handlers run.
THEOREM InputInvariant == InputSpec => []InputInv
<1>1. InputInit => InputInv
  BY InputBegins
<1>2. InputInv /\ [InputNext]_inputVars => InputInv'
  BY InputStep
<1> QED
  BY <1>1, <1>2, PTL DEF InputSpec

\* The composition has its types: no scan raises, and a handler's address is a block's.
THEOREM InputTypesCorrect == InputSpec => []InputTypeOK
<1>1. InputInv => InputTypeOK
  BY DEF InputInv
<1> QED
  BY <1>1, InputInvariant, PTL

\* Every monitor that stays hears the event, and only a removal while handlers run leaves
\* the address of a released block in the copy.
THEOREM MonitorsHearAll == InputSpec => []MonitorsHear
<1>1. InputInv => MonitorsHear
  BY DEF InputInv, DispatchOK, MonitorsHear
<1> QED
  BY <1>1, InputInvariant, PTL
==============================================================================
