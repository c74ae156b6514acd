--------------------------- MODULE NetThreads_proofs ---------------------------
(***************************************************************************)
(* Proofs about NetThreads: how long a lost signal can cost the update     *)
(* thread, when a timed wait and an emulated receive may report a timeout. *)
(***************************************************************************)
EXTENDS NetThreads, SequenceTheorems, TLAPS

CallType == [at : {"out", "try", "real", "psynch", "lost", "won", "cond"},
             tries : 0..Tries, cond : Conds \cup {None}, left : Nat,
             sliced : BOOLEAN, ended : BOOLEAN, result : {"ok", "timedout"}]

RecvType == [at : {"out", "try", "poll", "asleep"}, timeout : Timeouts \cup {0}, waited : Nat,
             left : Nat, heard : BOOLEAN, result : {"none", "data", "again", "interrupted"}]

WaitTypes ==
    /\ owner \in Threads \cup {None} /\ queue \in Seq(Threads) /\ losses \in 0..MaxLost
    /\ call \in [Threads -> CallType]
    /\ condKey \in [Threads -> Conds \cup {None}] /\ sliceKey \in [Threads -> Nat]
    /\ keysReady \in BOOLEAN

ReceiveTypes ==
    /\ data \in 0..Buffer /\ reader \in BOOLEAN /\ age \in 0..Never /\ dumped \in BOOLEAN
    /\ recv \in RecvType
    /\ watch \in {"asleep", "look", "signal"}

ClientTypes ==
    /\ use \in Uses /\ doing \in [Threads -> {"start", "receiving", "locking", "unlocking", "holding"}]
    /\ inbox \in BOOLEAN /\ due \in Nat /\ awaited \in Conds \cup {None} /\ missed \in Nat

\* A call's result is set at its end, a try is one of Tries, and no wait that goes on has ended.
CallOK(c) ==
    /\ c.at # "out" => c.result = "ok"
    /\ c.at = "try" => c.tries < Tries
    /\ c.at = "cond" => ~c.ended

CallsOK == \A t \in Threads : CallOK(call[t])

\* A slice never reaches twice COND_SLICE_MAX_NS.
SlicesOK == \A t \in Threads : sliceKey[t] < 2 * SliceMax

\* The kernel's waiters are waiting, each once.
WaitersOK ==
    /\ \A i \in 1..Len(queue) : At(queue[i], "psynch")
    /\ \A i, j \in 1..Len(queue) : i # j => queue[i] # queue[j]

\* A wait ends at the deadline or before it, and what it missed and what is left of it
\* are together less than two slices.
UpdaterOK ==
    /\ At(Updater, "cond") =>
           /\ IF call[Updater].sliced THEN call[Updater].left < due ELSE call[Updater].left = due
           /\ call[Updater].left + missed < 2 * SliceMax
    /\ ~At(Updater, "cond") => missed = 0
    /\ call[Updater].ended /\ ~call[Updater].sliced => due = 0

\* An emulated receive has waited for its SO_RCVTIMEO and a tick at most.
ReceiveOK ==
    /\ recv.at # "out" => recv.result = "none"
    /\ recv.at = "try" /\ recv.timeout > 0 => recv.waited <= recv.timeout + 1
    /\ recv.at = "poll" /\ recv.timeout > 0 => recv.waited + recv.left <= recv.timeout + 1

WaitInv == WaitTypes /\ CallsOK /\ SlicesOK /\ WaitersOK
ReceiveInv == ReceiveTypes /\ ReceiveOK
ClientInv == ClientTypes /\ UpdaterOK
NetInv == WaitInv /\ ReceiveInv /\ ClientInv

\* TypeOK in three parts.
LEMMA TypeParts == NetInv => TypeOK
BY DEF NetInv, WaitInv, ReceiveInv, ClientInv, TypeOK, WaitTypes, ReceiveTypes, ClientTypes,
       CallType, RecvType

\* What the assumptions say of the constants the steps use.
LEMMA Constants ==
    /\ Reader \in Threads /\ Updater \in Threads /\ Reader # Updater
    /\ \A t \in Threads : t = Reader \/ t = Updater
    /\ None \notin Threads /\ Passed \in Conds
    /\ Tries \in Nat /\ 0 < Tries /\ MaxLost \in Nat
    /\ Slice \in Nat /\ 0 < Slice /\ SliceMax \in Nat /\ Slice <= SliceMax
    /\ Slice < 2 * SliceMax /\ 0 < 2 * SliceMax
    /\ \A u \in Uses : u.timeout \in Timeouts /\ u.deadline \in Nat /\ u.conds \subseteq Conds
                       /\ u.keys \in BOOLEAN
<1>1. /\ Reader \in Threads /\ Updater \in Threads /\ Reader # Updater
      /\ \A t \in Threads : t = Reader \/ t = Updater
      /\ Passed \in Conds
  BY NetThreadsAssumption
<1>2. /\ None \notin Threads /\ Tries \in Nat /\ Tries # 0 /\ MaxLost \in Nat
      /\ Slice \in Nat /\ Slice # 0 /\ SliceMax \in Nat /\ Slice <= SliceMax
  BY WaitsAssumption
<1>3. \A u \in Uses : u.timeout \in Timeouts /\ u.deadline \in Nat /\ u.conds \subseteq Conds
                      /\ u.keys \in BOOLEAN
  BY NetThreadsAssumption
<1>4. 0 < Tries /\ 0 < Slice /\ Slice < 2 * SliceMax /\ 0 < 2 * SliceMax
  BY <1>2
<1> QED
  BY <1>1, <1>2, <1>3, <1>4

\* The call of a thread that makes none.
LEMMA NoCallFacts ==
    /\ NoCall \in CallType /\ CallOK(NoCall) /\ NoCall.at = "out" /\ ~NoCall.ended /\ ~NoCall.sliced
    /\ NoCall.tries = 0 /\ NoCall.cond = None /\ NoCall.left = 0 /\ NoCall.result = "ok"
BY Constants DEF NoCall, CallType, CallOK

-------------------------------------------------------------------------------
(* The kernel's waiters                                                       *)

\* What is left of a sequence when one element is removed.
LEMMA RemovedOne ==
    ASSUME NEW S, NEW q \in Seq(S), NEW i \in 1..Len(q)
    PROVE  /\ RemoveAt(q, i) \in Seq(S)
           /\ Len(RemoveAt(q, i)) = Len(q) - 1
           /\ \A k \in 1..(Len(q) - 1) : RemoveAt(q, i)[k] = IF k < i THEN q[k] ELSE q[k + 1]
<1> DEFINE front == SubSeq(q, 1, i - 1)
           rest == SubSeq(q, i + 1, Len(q))
<1>1. Len(q) \in Nat /\ i \in Int /\ i - 1 \in Int /\ 1 \in Int /\ Len(q) \in Int /\ i + 1 \in Int
  BY LenProperties
<1>2. \A k \in 1..Len(q) : q[k] \in S
  BY ElementOfSeq
<1>3. /\ front \in Seq(S)
      /\ Len(front) = IF 1 <= i - 1 THEN (i - 1) - 1 + 1 ELSE 0
      /\ \A k \in 1..((i - 1) - 1 + 1) : front[k] = q[1 + k - 1]
  <2>1. \A k \in 1..(i - 1) : q[k] \in S
    BY <1>1, <1>2
  <2> QED
    BY <1>1, <2>1, SubSeqProperties
<1>4. /\ rest \in Seq(S)
      /\ Len(rest) = IF i + 1 <= Len(q) THEN Len(q) - (i + 1) + 1 ELSE 0
      /\ \A k \in 1..(Len(q) - (i + 1) + 1) : rest[k] = q[(i + 1) + k - 1]
  <2>1. \A k \in (i + 1)..Len(q) : q[k] \in S
    BY <1>1, <1>2
  <2> QED
    BY <1>1, <2>1, SubSeqProperties
<1>5. Len(front) = i - 1 /\ Len(rest) = Len(q) - i
  BY <1>1, <1>3, <1>4
<1>6. RemoveAt(q, i) = front \o rest
  BY DEF RemoveAt
<1> HIDE DEF front, rest
<1>7. /\ front \o rest \in Seq(S)
      /\ Len(front \o rest) = Len(front) + Len(rest)
      /\ \A k \in 1..(Len(front) + Len(rest)) :
             (front \o rest)[k] = IF k <= Len(front) THEN front[k] ELSE rest[k - Len(front)]
  BY <1>3, <1>4, ConcatProperties
<1>8. ASSUME NEW k \in 1..(Len(q) - 1)
      PROVE  RemoveAt(q, i)[k] = IF k < i THEN q[k] ELSE q[k + 1]
  <2>1. CASE k < i
    BY <1>1, <1>3, <1>5, <1>6, <1>7, <2>1
  <2>2. CASE ~ (k < i)
    <3>1. k - (i - 1) \in 1..(Len(q) - (i + 1) + 1) /\ (i + 1) + (k - (i - 1)) - 1 = k + 1
      BY <1>1, <2>2
    <3>2. rest[k - (i - 1)] = q[k + 1]
      BY <1>4, <3>1
    <3>3. (front \o rest)[k] = rest[k - (i - 1)]
      BY <1>1, <1>5, <1>7, <2>2
    <3> QED
      BY <1>6, <2>2, <3>2, <3>3
  <2> QED
    BY <2>1, <2>2
<1>9. RemoveAt(q, i) \in Seq(S) /\ Len(RemoveAt(q, i)) = Len(q) - 1
  BY <1>1, <1>5, <1>6, <1>7
<1> QED
  BY <1>8, <1>9

\* The rest of a sequence is the sequence without its first element.
LEMMA TailIsRemoval ==
    ASSUME NEW S, NEW q \in Seq(S), q # <<>>
    PROVE  1 \in 1..Len(q) /\ Head(q) = q[1] /\ Tail(q) = RemoveAt(q, 1)
<1>1. Len(q) \in Nat \ {0}
  BY EmptySeq
<1>2. 1 \in 1..Len(q)
  BY <1>1
<1>3. /\ Tail(q) \in Seq(S) /\ Len(Tail(q)) = Len(q) - 1
      /\ \A i \in 1..Len(Tail(q)) : Tail(q)[i] = q[i + 1]
  BY HeadTailProperties
<1>4. /\ RemoveAt(q, 1) \in Seq(S) /\ Len(RemoveAt(q, 1)) = Len(q) - 1
      /\ \A i \in 1..(Len(q) - 1) : RemoveAt(q, 1)[i] = IF i < 1 THEN q[i] ELSE q[i + 1]
  BY <1>2, RemovedOne
<1>5. \A i \in 1..Len(Tail(q)) : Tail(q)[i] = RemoveAt(q, 1)[i]
  BY <1>1, <1>3, <1>4
<1>6. Tail(q) = RemoveAt(q, 1)
  BY <1>3, <1>4, <1>5, SeqEqual
<1> QED
  BY <1>2, <1>6
\* What a call may become when something else than its thread acts on it.
Same(c, d) ==
    /\ d.left = c.left /\ d.sliced = c.sliced /\ d.ended = c.ended /\ d.result = c.result
    /\ d.cond = c.cond /\ d.tries = c.tries
    /\ d.at = "cond" => c.at = "cond"
    /\ d.at \in {"out", "try"} => d.at = c.at
    /\ c.at = "out" => d.at = "out"

\* Only where a call is changes.
LEMMA Moved ==
    ASSUME NEW c \in CallType, CallOK(c), c.at # "out",
           NEW at \in {"real", "psynch", "lost", "won"}
    PROVE  /\ [c EXCEPT !.at = at] \in CallType /\ [c EXCEPT !.at = at].at = at
           /\ CallOK([c EXCEPT !.at = at]) /\ Same(c, [c EXCEPT !.at = at])
BY DEF CallType, CallOK, Same

\* One call changes.
LEMMA OneCall ==
    ASSUME WaitInv, NEW t \in Threads, NEW c \in CallType, CallOK(c),
           call' = [call EXCEPT ![t] = c]
    PROVE  /\ call' \in [Threads -> CallType] /\ CallsOK' /\ call'[t] = c
           /\ \A u \in Threads : u # t => call'[u] = call[u]
BY DEF WaitInv, WaitTypes, CallsOK

\* The waiters wait on when those whose calls change are none of them.
LEMMA WaitersKept ==
    ASSUME WaitInv, UNCHANGED queue,
           \A u \in Threads : At(u, "psynch") => At(u, "psynch")'
    PROVE  WaitersOK'
<1>1. \A i \in 1..Len(queue) : queue[i] \in Threads
  BY ElementOfSeq DEF WaitInv, WaitTypes
<1> QED
  BY <1>1 DEF WaitInv, WaitersOK

\* A waiter leaves the queue.
LEMMA WaiterLeaves ==
    ASSUME WaitInv, NEW i \in 1..Len(queue), queue' = RemoveAt(queue, i),
           \A u \in Threads : u # queue[i] /\ At(u, "psynch") => At(u, "psynch")'
    PROVE  queue' \in Seq(Threads) /\ WaitersOK'
<1>1. queue \in Seq(Threads) /\ Len(queue) \in Nat
  BY LenProperties DEF WaitInv, WaitTypes
<1>2. /\ queue' \in Seq(Threads) /\ Len(queue') = Len(queue) - 1
      /\ \A k \in 1..(Len(queue) - 1) : queue'[k] = IF k < i THEN queue[k] ELSE queue[k + 1]
  BY <1>1, RemovedOne
<1> DEFINE from(k) == IF k < i THEN k ELSE k + 1
<1>3. \A k \in 1..Len(queue') : from(k) \in 1..Len(queue) /\ from(k) # i /\ queue'[k] = queue[from(k)]
  BY <1>1, <1>2
<1>4. \A k, l \in 1..Len(queue') : k # l => from(k) # from(l)
  BY <1>1, <1>2
<1> HIDE DEF from
<1>5. ASSUME NEW k \in 1..Len(queue') PROVE call'[queue'[k]].at = "psynch"
  <2>1. PICK j \in 1..Len(queue) : j # i /\ queue'[k] = queue[j]
    BY <1>3, <1>5
  <2>2. queue[j] \in Threads /\ queue[j] # queue[i] /\ At(queue[j], "psynch")
    BY <1>1, <2>1, ElementOfSeq DEF WaitInv, WaitersOK
  <2>3. call'[queue[j]].at = "psynch"
    BY <2>2 DEF At
  <2> QED
    BY <2>1, <2>3
<1>6. ASSUME NEW k \in 1..Len(queue'), NEW l \in 1..Len(queue'), k # l
      PROVE  queue'[k] # queue'[l]
  BY <1>3, <1>4, <1>6 DEF WaitInv, WaitersOK
<1> QED
  BY <1>2, <1>5, <1>6 DEF WaitersOK, At

\* The kernel releases the mutex: only the first waiter's call changes.
LEMMA Released ==
    ASSUME WaitInv, NEW calls \in [Threads -> CallType], \A u \in Threads : CallOK(calls[u]),
           \A u \in Threads : At(u, "psynch") => calls[u].at = "psynch",
           Release(calls)
    PROVE  /\ owner' \in Threads \cup {None} /\ queue' \in Seq(Threads) /\ losses' \in 0..MaxLost
           /\ call' \in [Threads -> CallType] /\ CallsOK' /\ WaitersOK'
           /\ \A u \in Threads : Same(calls[u], call'[u])
           /\ \A u \in Threads : calls[u].at # "psynch" => call'[u] = calls[u]
<1>1. /\ queue \in Seq(Threads) /\ losses \in 0..MaxLost /\ MaxLost \in Nat
      /\ call \in [Threads -> CallType]
  BY Constants DEF WaitInv, WaitTypes
<1>2. \A c \in CallType : Same(c, c)
  BY DEF Same
<1>3. CASE queue = <<>> /\ owner' = None /\ call' = calls /\ UNCHANGED <<queue, losses>>
  <2>1. \A u \in Threads : At(u, "psynch") => At(u, "psynch")'
    BY <1>3 DEF At
  <2>2. WaitersOK'
    BY <1>3, <2>1, WaitersKept
  <2> QED
    BY <1>1, <1>2, <1>3, <2>2 DEF CallsOK
<1>4. CASE queue # <<>>
  <2>1. /\ 1 \in 1..Len(queue) /\ Head(queue) = queue[1] /\ Tail(queue) = RemoveAt(queue, 1)
        /\ queue[1] \in Threads
    BY <1>1, <1>4, TailIsRemoval, ElementOfSeq
  <2>2. PICK h \in Threads : h = queue[1]
    BY <2>1
  <2>3. calls[h].at = "psynch" /\ calls[h] \in CallType /\ CallOK(calls[h])
    BY <2>1, <2>2 DEF WaitInv, WaitersOK
  <2>4. PICK at \in {"won", "lost"} : call' = [calls EXCEPT ![h].at = at]
    BY <1>4, <2>1, <2>2 DEF Release
  <2>5. PICK d : d = [calls[h] EXCEPT !.at = at]
    OBVIOUS
  <2>6. d \in CallType /\ d.at = at /\ CallOK(d) /\ Same(calls[h], d)
    <3>1. calls[h].at # "out" /\ at \in {"real", "psynch", "lost", "won"}
      BY <2>3
    <3> QED
      BY <2>3, <2>5, <3>1, Moved
  <2>7. call' = [calls EXCEPT ![h] = d]
    BY <2>4, <2>5
  <2>8. /\ call' \in [Threads -> CallType] /\ call'[h] = d
        /\ \A u \in Threads : u # h => call'[u] = calls[u]
    BY <2>6, <2>7
  <2>9. CallsOK' /\ \A u \in Threads : Same(calls[u], call'[u])
    BY <1>2, <2>6, <2>8 DEF CallsOK
  <2>10. \A u \in Threads : u # queue[1] /\ At(u, "psynch") => At(u, "psynch")'
    BY <2>2, <2>8 DEF At
  <2>11. queue' = RemoveAt(queue, 1) /\ owner' \in Threads \cup {None} /\ losses' \in 0..MaxLost
    <3>1. /\ queue' = Tail(queue) /\ owner' \in {Head(queue), None}
          /\ losses' = losses \/ (losses < MaxLost /\ losses' = losses + 1)
      BY <1>4 DEF Release
    <3>2. losses' \in 0..MaxLost
      BY <1>1, <3>1
    <3> QED
      BY <2>1, <3>1, <3>2
  <2>12. queue' \in Seq(Threads) /\ WaitersOK'
    BY <2>1, <2>10, <2>11, WaiterLeaves
  <2> QED
    BY <2>3, <2>8, <2>9, <2>11, <2>12
<1> QED
  BY <1>3, <1>4 DEF Release

-------------------------------------------------------------------------------
(* The mutex and the waits: each operation keeps WaitInv, and what it does to *)
(* the calls.                                                                 *)

\* What the invariant says of one thread.
LEMMA ThreadFacts ==
    ASSUME WaitInv, NEW t \in Threads
    PROVE  /\ call[t] \in CallType /\ CallOK(call[t])
           /\ call[t].tries \in Nat /\ call[t].left \in Nat
           /\ sliceKey[t] \in Nat /\ sliceKey[t] < 2 * SliceMax
           /\ condKey[t] \in Conds \cup {None}
<1>1. call \in [Threads -> CallType] /\ call[t] \in CallType
  BY DEF WaitInv, WaitTypes
<1>2. CallOK(call[t])
  BY DEF WaitInv, CallsOK
<1>3. call[t].tries \in Nat /\ call[t].left \in Nat
  <2>1. PICK c \in CallType : c = call[t]
    BY <1>1
  <2>2. c.tries \in Nat /\ c.left \in Nat
    BY Constants DEF CallType
  <2> QED
    BY <2>1, <2>2
<1>4. sliceKey[t] \in Nat /\ condKey[t] \in Conds \cup {None}
  BY DEF WaitInv, WaitTypes
<1>5. sliceKey[t] < 2 * SliceMax
  BY DEF WaitInv, SlicesOK
<1> QED
  BY <1>1, <1>2, <1>3, <1>4, <1>5

\* A step that changes the calls of the threads but no waiter's, nor the queue.
LEMMA CallsChange ==
    ASSUME WaitInv, owner' \in Threads \cup {None}, UNCHANGED <<queue, condKey, sliceKey, keysReady>>,
           losses' \in 0..MaxLost, call' \in [Threads -> CallType], CallsOK',
           \A u \in Threads : At(u, "psynch") => At(u, "psynch")'
    PROVE  WaitInv'
<1>1. WaitersOK'
  BY WaitersKept
<1> QED
  BY <1>1 DEF WaitInv, WaitTypes, SlicesOK

\* A thread asks for the mutex.
LEMMA LockKept ==
    ASSUME WaitInv, NEW t \in Threads, Lock(t)
    PROVE  /\ WaitInv' /\ \A u \in Threads : u # t => call'[u] = call[u]
           /\ ~call'[t].ended /\ call'[t].at = "try" /\ call'[t].result = "ok"
           /\ call[t].at = "out"
<1>1. PICK c : c = [NoCall EXCEPT !.at = "try"]
  OBVIOUS
<1>2. /\ c \in CallType /\ CallOK(c) /\ c.at = "try" /\ ~c.ended /\ c.result = "ok"
  BY <1>1, NoCallFacts, Constants DEF CallType, CallOK
<1>3. call' = [call EXCEPT ![t] = c] /\ At(t, "out")
  BY <1>1 DEF Lock
<1>4. /\ call' \in [Threads -> CallType] /\ CallsOK' /\ call'[t] = c
      /\ \A u \in Threads : u # t => call'[u] = call[u]
  BY <1>2, <1>3, OneCall
<1>5. \A u \in Threads : At(u, "psynch") => At(u, "psynch")'
  BY <1>3, <1>4 DEF At
<1>6. /\ owner' \in Threads \cup {None} /\ losses' \in 0..MaxLost
      /\ UNCHANGED <<queue, condKey, sliceKey, keysReady>>
  BY DEF Lock, WaitInv, WaitTypes
<1>7. WaitInv'
  BY <1>4, <1>5, <1>6, CallsChange
<1> QED
  BY <1>2, <1>3, <1>4, <1>7 DEF At

\* What a step of a waiting thread may do to its call.
Awakes(t) ==
    /\ \A u \in Threads : u # t => call'[u] = call[u]
    /\ ~At(t, "cond")' /\ ~At(t, "out")
    /\ call'[t].ended /\ ~call'[t].sliced =>
           ~call[t].sliced /\ (call[t].ended \/ (At(t, "cond") /\ call[t].left = 0))
    /\ call'[t].result = "timedout" => call[t].ended /\ ~call[t].sliced

\* A trylock that gets the mutex or fails.
LEMMA TryLockKept ==
    ASSUME WaitInv, NEW t \in Threads, TryLock(t)
    PROVE  WaitInv' /\ Awakes(t)
<1>1. /\ At(t, "try") /\ UNCHANGED <<queue, condKey, sliceKey, keysReady, losses>>
      /\ owner' \in Threads \cup {None} /\ losses' \in 0..MaxLost
  BY DEF TryLock, WaitInv, WaitTypes
<1>2. PICK c \in CallType :
         /\ call' = [call EXCEPT ![t] = c] /\ CallOK(c) /\ c.at # "cond"
         /\ c.ended => call[t].ended /\ c.sliced = call[t].sliced
         /\ c.result = "ok"
  <2>1. CASE owner = None
    BY <2>1, NoCallFacts DEF TryLock
  <2>2. CASE owner # None
    <3>1. PICK n : n = call[t].tries + 1
      OBVIOUS
    <3>2. PICK at : at = IF n < Tries THEN call[t].at ELSE "real"
      OBVIOUS
    <3>3. call' = [call EXCEPT ![t].tries = @ + 1, ![t].at = IF call[t].tries + 1 < Tries THEN @ ELSE "real"]
      BY <2>2 DEF TryLock
    <3>4. PICK first : first = [call EXCEPT ![t].tries = @ + 1]
      OBVIOUS
    <3>5. PICK d : d = [call[t] EXCEPT !.tries = n]
      OBVIOUS
    <3>6. first = [call EXCEPT ![t] = d]
      BY <3>1, <3>4, <3>5
    <3>7. /\ n \in 0..Tries /\ n \in Nat /\ at \in {"try", "real"} /\ (at = "try" => n < Tries)
          /\ call[t].result = "ok"
      BY <1>1, <3>1, <3>2, Constants, ThreadFacts DEF At, CallOK
    <3>8. /\ d \in CallType /\ d.tries = n /\ d.at = call[t].at /\ d.result = "ok"
          /\ d.ended = call[t].ended /\ d.sliced = call[t].sliced
      BY <3>5, <3>7, ThreadFacts DEF CallType
    <3>9. first \in [Threads -> CallType] /\ first[t] = d
      BY <3>6, <3>8 DEF WaitInv, WaitTypes
    <3>10. call' = [first EXCEPT ![t].at = at]
      BY <3>1, <3>2, <3>3, <3>4, <3>8, <3>9
    <3>11. PICK c : c = [d EXCEPT !.at = at]
      OBVIOUS
    <3>12. /\ c \in CallType /\ c.at = at /\ c.tries = n /\ c.result = "ok"
           /\ c.ended = call[t].ended /\ c.sliced = call[t].sliced
      BY <3>7, <3>8, <3>11 DEF CallType
    <3>13. call' = [call EXCEPT ![t] = c]
      BY <3>6, <3>8, <3>9, <3>10, <3>11 DEF WaitInv, WaitTypes
    <3>14. CallOK(c) /\ c.at # "cond"
      BY <3>7, <3>12 DEF CallOK
    <3> QED
      BY <3>12, <3>13, <3>14
  <2> QED
    BY <2>1, <2>2
<1>3. /\ call' \in [Threads -> CallType] /\ CallsOK' /\ call'[t] = c
      /\ \A u \in Threads : u # t => call'[u] = call[u]
  BY <1>2, OneCall
<1>4. \A u \in Threads : At(u, "psynch") => At(u, "psynch")'
  BY <1>1, <1>3 DEF At
<1>5. WaitInv'
  BY <1>1, <1>3, <1>4, CallsChange
<1>6. Awakes(t)
  BY <1>1, <1>2, <1>3 DEF Awakes, At
<1> QED
  BY <1>5, <1>6

\* A call returns with the mutex.
LEMMA ReturnedKept ==
    ASSUME WaitInv, NEW t \in Threads, Returned(t), ~At(t, "out"), ~At(t, "psynch"),
           owner' \in Threads \cup {None}, UNCHANGED queue
    PROVE  WaitInv' /\ Awakes(t)
<1>1. PICK r : r = Result(call[t])
  OBVIOUS
<1>2. r \in {"ok", "timedout"} /\ (r = "timedout" => call[t].ended /\ ~call[t].sliced)
  BY <1>1 DEF Result
<1>3. PICK c : c = [NoCall EXCEPT !.result = r]
  OBVIOUS
<1>4. c \in CallType /\ CallOK(c) /\ c.at = "out" /\ ~c.ended /\ c.result = r
  BY <1>2, <1>3, NoCallFacts DEF CallType, CallOK
<1>5. /\ call' \in [Threads -> CallType] /\ CallsOK' /\ call'[t] = c
      /\ \A u \in Threads : u # t => call'[u] = call[u]
  BY <1>1, <1>3, <1>4, OneCall DEF Returned
<1>6. \A u \in Threads : At(u, "psynch") => At(u, "psynch")'
  BY <1>5 DEF At
<1>7. WaitersOK'
  BY <1>6, WaitersKept
<1>8. sliceKey' \in [Threads -> Nat] /\ SlicesOK'
  <2>1. PICK k : k = WaitFinished(sliceKey[t], call[t].ended)
    OBVIOUS
  <2>2. k \in Nat /\ k < 2 * SliceMax
    BY <2>1, ThreadFacts, Constants DEF WaitFinished
  <2>3. sliceKey' = [sliceKey EXCEPT ![t] = k] \/ sliceKey' = sliceKey
    BY <2>1 DEF Returned
  <2> QED
    BY <2>2, <2>3 DEF WaitInv, WaitTypes, SlicesOK
<1>9. WaitInv'
  BY <1>5, <1>7, <1>8 DEF WaitInv, WaitTypes, Returned
<1>10. Awakes(t)
  BY <1>2, <1>4, <1>5 DEF Awakes, At
<1> QED
  BY <1>9, <1>10

\* The real lock: it gets the mutex, joins its waiters, or returns with it.
LEMMA RealLockKept ==
    ASSUME WaitInv, NEW t \in Threads, RealLock(t)
    PROVE  WaitInv' /\ Awakes(t)
<1>1. CASE At(t, "real") /\ owner' = t /\ Returned(t) /\ UNCHANGED queue
  BY <1>1, ReturnedKept DEF At
<1>2. CASE At(t, "won") /\ Returned(t) /\ UNCHANGED <<owner, queue>>
  <2>1. owner' \in Threads \cup {None}
    BY <1>2 DEF WaitInv, WaitTypes
  <2> QED
    BY <1>2, <2>1, ReturnedKept DEF At
<1>3. CASE /\ At(t, "real") /\ call' = [call EXCEPT ![t].at = "psynch"] /\ queue' = Append(queue, t)
           /\ UNCHANGED <<owner, condKey, sliceKey, keysReady, losses>>
  <2>1. PICK c : c = [call[t] EXCEPT !.at = "psynch"]
    OBVIOUS
  <2>2. c \in CallType /\ c.at = "psynch" /\ CallOK(c) /\ Same(call[t], c)
    BY <1>3, <2>1, ThreadFacts, Moved DEF At
  <2>3. /\ call' \in [Threads -> CallType] /\ CallsOK' /\ call'[t] = c
        /\ \A u \in Threads : u # t => call'[u] = call[u]
    BY <1>3, <2>1, <2>2, OneCall
  <2>4. queue \in Seq(Threads) /\ Len(queue) \in Nat
    BY LenProperties DEF WaitInv, WaitTypes
  <2>5. /\ queue' \in Seq(Threads) /\ Len(queue') = Len(queue) + 1
        /\ \A i \in 1..Len(queue) : queue'[i] = queue[i]
        /\ queue'[Len(queue) + 1] = t
    BY <1>3, <2>4, AppendProperties
  <2>6. \A i \in 1..Len(queue) : queue[i] \in Threads /\ call[queue[i]].at = "psynch"
    BY <2>4, ElementOfSeq DEF WaitInv, WaitersOK, At
  <2>7. \A i \in 1..Len(queue) : queue[i] # t
    BY <1>3, <2>6 DEF At
  <2>8. \A i \in 1..Len(queue') : i \in 1..Len(queue) \/ i = Len(queue) + 1
    BY <2>4, <2>5
  <2>9. \A i \in 1..Len(queue') : call'[queue'[i]].at = "psynch"
    BY <2>2, <2>3, <2>5, <2>6, <2>7, <2>8
  <2>10. \A i, j \in 1..Len(queue') : i # j => queue'[i] # queue'[j]
    BY <2>5, <2>7, <2>8 DEF WaitInv, WaitersOK
  <2>11. WaitersOK'
    BY <2>9, <2>10 DEF WaitersOK, At
  <2>12. WaitInv'
    BY <1>3, <2>3, <2>5, <2>11 DEF WaitInv, WaitTypes, SlicesOK
  <2>13. call[t].result = "ok"
    BY <1>3, ThreadFacts DEF CallOK, At
  <2>14. Awakes(t)
    BY <1>3, <2>2, <2>3, <2>13 DEF Awakes, At, Same
  <2> QED
    BY <2>12, <2>14
<1> QED
  BY <1>1, <1>2, <1>3 DEF RealLock

\* The kernel ends a wait.
LEMMA TimeOutKept ==
    ASSUME WaitInv, NEW t \in Threads, TimeOut(t)
    PROVE  WaitInv' /\ Awakes(t)
<1>1. /\ At(t, "cond") /\ call[t].left = 0 /\ UNCHANGED <<queue, condKey, sliceKey, keysReady, losses>>
      /\ owner' \in Threads \cup {None} /\ losses' \in 0..MaxLost
      /\ call' = [call EXCEPT ![t].at = "real", ![t].ended = TRUE]
  BY DEF TimeOut, WaitInv, WaitTypes
<1>2. PICK d : d = [call[t] EXCEPT !.at = "real"]
  OBVIOUS
<1>3. d \in CallType /\ d.at = "real" /\ Same(call[t], d)
  BY <1>1, <1>2, ThreadFacts, Moved DEF At
<1>4. PICK c : c = [d EXCEPT !.ended = TRUE]
  OBVIOUS
<1>5. c \in CallType /\ c.at = "real" /\ c.sliced = call[t].sliced /\ c.result = call[t].result
  BY <1>3, <1>4 DEF CallType, Same
<1>6. call[t].result = "ok"
  BY <1>1, ThreadFacts DEF CallOK, At
<1>7. CallOK(c)
  BY <1>5, <1>6 DEF CallOK
<1>8. PICK first : first = [call EXCEPT ![t].at = "real"]
  OBVIOUS
<1>9. first = [call EXCEPT ![t] = d]
  BY <1>2, <1>8
<1>10. first \in [Threads -> CallType] /\ first[t] = d
  BY <1>3, <1>9 DEF WaitInv, WaitTypes
<1>11. call' = [first EXCEPT ![t].ended = TRUE]
  BY <1>1, <1>8
<1>12. call' = [call EXCEPT ![t] = c]
  BY <1>4, <1>9, <1>10, <1>11 DEF WaitInv, WaitTypes
<1>13. /\ call' \in [Threads -> CallType] /\ CallsOK' /\ call'[t] = c
       /\ \A u \in Threads : u # t => call'[u] = call[u]
  BY <1>5, <1>7, <1>12, OneCall
<1>14. \A u \in Threads : At(u, "psynch") => At(u, "psynch")'
  BY <1>1, <1>13 DEF At
<1>15. WaitInv'
  BY <1>1, <1>13, <1>14, CallsChange
<1>16. Awakes(t)
  BY <1>1, <1>5, <1>6, <1>13 DEF Awakes, At
<1> QED
  BY <1>15, <1>16

\* A step of a thread in a lock or at the end of a wait.
LEMMA WaitStepKept ==
    ASSUME WaitInv, NEW t \in Threads, WaitStep(t)
    PROVE  WaitInv' /\ Awakes(t)
BY TryLockKept, RealLockKept, TimeOutKept DEF WaitStep

\* A thread releases the mutex.
LEMMA UnlockKept ==
    ASSUME WaitInv, NEW t \in Threads, Unlock(t)
    PROVE  /\ WaitInv' /\ \A u \in Threads : Same(call[u], call'[u])
           /\ \A u \in Threads : At(u, "cond") => At(u, "cond")'
<1>1. PICK calls : calls = call
  OBVIOUS
<1>2. /\ calls \in [Threads -> CallType] /\ \A u \in Threads : CallOK(calls[u])
      /\ \A u \in Threads : At(u, "psynch") => calls[u].at = "psynch"
  BY <1>1 DEF WaitInv, WaitTypes, CallsOK, At
<1>3. Release(calls)
  BY <1>1 DEF Unlock, Release
<1>4. /\ owner' \in Threads \cup {None} /\ queue' \in Seq(Threads) /\ losses' \in 0..MaxLost
      /\ call' \in [Threads -> CallType] /\ CallsOK' /\ WaitersOK'
      /\ \A u \in Threads : Same(calls[u], call'[u])
      /\ \A u \in Threads : calls[u].at # "psynch" => call'[u] = calls[u]
  BY <1>2, <1>3, Released
<1>5. WaitInv'
  BY <1>4 DEF Unlock, WaitInv, WaitTypes, SlicesOK
<1>6. \A u \in Threads : At(u, "cond") => At(u, "cond")'
  BY <1>1, <1>4 DEF At
<1> QED
  BY <1>1, <1>4, <1>5, <1>6

\* A signal that wakes a waiter, or none.
LEMMA SignalKept ==
    ASSUME WaitInv, NEW c \in Conds, Signal(c),
           UNCHANGED <<owner, queue, condKey, sliceKey, keysReady>>
    PROVE  WaitInv' /\ \A u \in Threads : Same(call[u], call'[u])
<1>1. owner' \in Threads \cup {None} /\ losses' \in 0..MaxLost
  BY Constants DEF WaitInv, WaitTypes, Signal
<1>2. \A d : Same(d, d)
  BY DEF Same
<1>3. CASE UNCHANGED call
  <2>1. /\ call' \in [Threads -> CallType] /\ CallsOK'
        /\ \A u \in Threads : At(u, "psynch") => At(u, "psynch")'
    BY <1>3 DEF WaitInv, WaitTypes, CallsOK, At
  <2> QED
    BY <1>1, <1>2, <1>3, <2>1, CallsChange
<1>4. CASE \E t \in Threads : At(t, "cond") /\ call' = [call EXCEPT ![t].at = "real"]
  <2>1. PICK t \in Threads : At(t, "cond") /\ call' = [call EXCEPT ![t].at = "real"]
    BY <1>4
  <2>2. PICK d : d = [call[t] EXCEPT !.at = "real"]
    OBVIOUS
  <2>3. d \in CallType /\ CallOK(d) /\ Same(call[t], d)
    BY <2>1, <2>2, ThreadFacts, Moved DEF At
  <2>4. /\ call' \in [Threads -> CallType] /\ CallsOK' /\ call'[t] = d
        /\ \A u \in Threads : u # t => call'[u] = call[u]
    BY <2>1, <2>2, <2>3, OneCall
  <2>5. \A u \in Threads : At(u, "psynch") => At(u, "psynch")'
    BY <2>1, <2>4 DEF At
  <2>6. \A u \in Threads : Same(call[u], call'[u])
    BY <1>2, <2>3, <2>4
  <2> QED
    BY <1>1, <2>4, <2>5, <2>6, CallsChange
<1> QED
  BY <1>3, <1>4 DEF Signal

\* The watchdog's signal ends a wait for the mutex.
LEMMA InterruptKept ==
    ASSUME WaitInv, NEW t \in Threads, Interrupt(t),
           UNCHANGED <<owner, condKey, sliceKey, keysReady, losses>>
    PROVE  /\ WaitInv' /\ \A u \in Threads : Same(call[u], call'[u])
           /\ \A u \in Threads : At(u, "cond") => At(u, "cond")'
<1>1. \A d : Same(d, d)
  BY DEF Same
<1>2. CASE ~(At(t, "lost") \/ At(t, "psynch"))
  <2>1. UNCHANGED <<owner, queue, call, condKey, sliceKey, keysReady, losses>>
    BY <1>2 DEF Interrupt
  <2> QED
    BY <1>1, <2>1 DEF WaitInv, WaitTypes, CallsOK, SlicesOK, WaitersOK, At
<1>3. CASE At(t, "lost") \/ At(t, "psynch")
  <2>1. PICK d : d = [call[t] EXCEPT !.at = "real"]
    OBVIOUS
  <2>2. d \in CallType /\ d.at = "real" /\ CallOK(d) /\ Same(call[t], d)
    BY <1>3, <2>1, ThreadFacts, Moved DEF At
  <2>3. /\ call' \in [Threads -> CallType] /\ CallsOK' /\ call'[t] = d
        /\ \A u \in Threads : u # t => call'[u] = call[u]
    BY <1>3, <2>1, <2>2, OneCall DEF Interrupt
  <2>4. \A u \in Threads : Same(call[u], call'[u])
    BY <1>1, <2>2, <2>3
  <2>5. queue \in Seq(Threads) /\ DOMAIN queue = 1..Len(queue)
    BY LenProperties DEF WaitInv, WaitTypes
  <2>6. queue' \in Seq(Threads) /\ WaitersOK'
    <3>1. CASE At(t, "lost") /\ UNCHANGED queue
      <4>1. \A u \in Threads : At(u, "psynch") => At(u, "psynch")'
        BY <2>3, <3>1 DEF At
      <4> QED
        BY <2>5, <3>1, <4>1, WaitersKept
    <3>2. CASE \E i \in DOMAIN queue : queue[i] = t /\ queue' = RemoveAt(queue, i)
      <4>1. PICK i \in 1..Len(queue) : queue[i] = t /\ queue' = RemoveAt(queue, i)
        BY <2>5, <3>2
      <4>2. \A u \in Threads : u # queue[i] /\ At(u, "psynch") => At(u, "psynch")'
        BY <2>3, <4>1 DEF At
      <4> QED
        BY <4>1, <4>2, WaiterLeaves
    <3> QED
      BY <1>3, <3>1, <3>2 DEF Interrupt
  <2>7. WaitInv'
    BY <2>3, <2>6 DEF WaitInv, WaitTypes, SlicesOK
  <2>8. \A u \in Threads : At(u, "cond") => At(u, "cond")'
    BY <1>3, <2>3 DEF At
  <2> QED
    BY <2>4, <2>7, <2>8
<1> QED
  BY <1>2, <1>3

\* The length of the next slice.
LEMMA SliceLength ==
    ASSUME WaitInv, NEW t \in Threads, NEW c
    PROVE  NextSlice(t, c) \in Nat /\ NextSlice(t, c) < 2 * SliceMax
<1>1. PICK k \in Nat : k = sliceKey[t] /\ k < 2 * SliceMax
  BY ThreadFacts
<1>2. NextSlice(t, c) \in {Slice, 2 * k, k} /\ (NextSlice(t, c) = 2 * k => k < SliceMax \/ 2 * k \in {Slice, k})
  BY <1>1 DEF NextSlice
<1>3. Slice \in Nat /\ Slice < 2 * SliceMax /\ SliceMax \in Nat
  BY Constants
<1> QED
  BY <1>1, <1>2, <1>3

\* A timed wait begins: the thread sleeps until its deadline or, if that is
\* further, for a slice.
LEMMA TimedWaitKept ==
    ASSUME WaitInv, NEW t \in Threads, NEW c \in Conds \cup {None}, NEW d \in Nat, TimedWait(t, c, d)
    PROVE  /\ WaitInv' /\ \A u \in Threads : u # t => Same(call[u], call'[u])
           /\ At(t, "out") /\ call'[t].at = "cond" /\ ~call'[t].ended /\ call'[t].result = "ok"
           /\ call'[t].left \in Nat /\ call'[t].left < 2 * SliceMax
           /\ IF call'[t].sliced THEN call'[t].left < d ELSE call'[t].left = d
<1>1. PICK length \in Nat : length = NextSlice(t, c) /\ length < 2 * SliceMax
  BY SliceLength
<1>2. PICK first \in BOOLEAN : first = (d <= length) /\ (first => d <= length) /\ (first \/ length < d)
  <2>1. CASE d <= length
    BY <2>1, Zenon
  <2>2. CASE ~ (d <= length)
    <3>1. length < d
      BY <1>1, <2>2
    <3>2. FALSE = (d <= length)
      BY <2>2
    <3> QED
      BY <3>1, <3>2, Zenon
  <2> QED
    BY <2>1, <2>2
<1>3. PICK left : left = IF first THEN d ELSE length
  OBVIOUS
<1>4. left \in Nat /\ left < 2 * SliceMax /\ (IF ~first THEN left < d ELSE left = d)
  BY <1>1, <1>2, <1>3, Constants
<1>5. PICK new : new = [NoCall EXCEPT !.at = "cond", !.cond = c, !.sliced = ~first, !.left = left]
  OBVIOUS
<1>6. /\ new \in CallType /\ CallOK(new) /\ new.at = "cond" /\ ~new.ended /\ new.result = "ok"
      /\ new.left = left /\ new.sliced = ~first
  <2>1. PICK a : a = [NoCall EXCEPT !.at = "cond"]
    OBVIOUS
  <2>2. a \in CallType /\ a.at = "cond" /\ ~a.ended /\ a.result = "ok"
    BY <2>1, NoCallFacts DEF CallType
  <2>3. PICK b : b = [a EXCEPT !.cond = c]
    OBVIOUS
  <2>4. b \in CallType /\ b.at = "cond" /\ ~b.ended /\ b.result = "ok"
    BY <2>2, <2>3 DEF CallType
  <2>5. PICK e : e = [b EXCEPT !.sliced = ~first]
    OBVIOUS
  <2>6. e \in CallType /\ e.at = "cond" /\ ~e.ended /\ e.result = "ok" /\ e.sliced = ~first
    BY <2>4, <2>5 DEF CallType
  <2>7. PICK f : f = [e EXCEPT !.left = left]
    OBVIOUS
  <2>8. /\ f \in CallType /\ f.at = "cond" /\ ~f.ended /\ f.result = "ok" /\ f.left = left
        /\ f.sliced = ~first
    BY <1>4, <2>6, <2>7 DEF CallType
  <2>9. new = f
    BY <1>5, <2>1, <2>3, <2>5, <2>7
  <2> QED
    BY <2>8, <2>9 DEF CallOK
<1>7. PICK calls : calls = [call EXCEPT ![t] = new]
  OBVIOUS
<1>8. At(t, "out") /\ Release(calls)
  BY <1>1, <1>2, <1>3, <1>5, <1>7 DEF TimedWait, Release
<1>9. /\ calls \in [Threads -> CallType] /\ \A u \in Threads : CallOK(calls[u])
      /\ \A u \in Threads : At(u, "psynch") => calls[u].at = "psynch"
      /\ calls[t] = new /\ \A u \in Threads : u # t => calls[u] = call[u]
  BY <1>6, <1>7, <1>8 DEF WaitInv, WaitTypes, CallsOK, At
<1>10. /\ owner' \in Threads \cup {None} /\ queue' \in Seq(Threads) /\ losses' \in 0..MaxLost
       /\ call' \in [Threads -> CallType] /\ CallsOK' /\ WaitersOK'
       /\ \A u \in Threads : Same(calls[u], call'[u])
       /\ \A u \in Threads : calls[u].at # "psynch" => call'[u] = calls[u]
  BY <1>8, <1>9, Released
<1>11. call'[t] = new
  BY <1>6, <1>9, <1>10
<1>12. sliceKey' \in [Threads -> Nat] /\ SlicesOK'
  <2>1. PICK k : k = WaitFinished(length, ~first)
    OBVIOUS
  <2>2. k \in Nat /\ k < 2 * SliceMax
    BY <1>1, <2>1, Constants DEF WaitFinished
  <2>3. sliceKey' = [sliceKey EXCEPT ![t] = k] \/ sliceKey' = sliceKey
    BY <1>1, <1>2, <2>1 DEF TimedWait
  <2> QED
    BY <2>2, <2>3 DEF WaitInv, WaitTypes, SlicesOK
<1>13. condKey' \in [Threads -> Conds \cup {None}] /\ keysReady' = keysReady
  BY DEF TimedWait, WaitInv, WaitTypes
<1>14. WaitInv'
  BY <1>10, <1>12, <1>13 DEF WaitInv, WaitTypes
<1> QED
  BY <1>4, <1>6, <1>8, <1>9, <1>10, <1>11, <1>14

\* A tick goes by for every wait.
LEMMA PassKept ==
    ASSUME WaitInv, WaitsPass
    PROVE  /\ WaitInv'
           /\ \A u \in Threads : ~At(u, "cond") => call'[u] = call[u]
           /\ \A u \in Threads : At(u, "cond") =>
                  /\ At(u, "cond")' /\ call[u].left > 0 /\ call'[u].left = call[u].left - 1
                  /\ call'[u].sliced = call[u].sliced /\ call'[u].ended = call[u].ended
                  /\ call'[u].result = call[u].result
<1>1. call' = [t \in Threads |-> IF At(t, "cond") THEN [call[t] EXCEPT !.left = @ - 1] ELSE call[t]]
  BY DEF WaitsPass
<1>2. ASSUME NEW u \in Threads, At(u, "cond")
      PROVE  /\ call'[u] \in CallType /\ CallOK(call'[u])
             /\ call'[u].at = "cond" /\ call[u].left > 0 /\ call'[u].left = call[u].left - 1
             /\ call'[u].sliced = call[u].sliced /\ call'[u].ended = call[u].ended
             /\ call'[u].result = call[u].result
  <2>1. call[u].left > 0 /\ call[u].left \in Nat
    BY <1>2, ThreadFacts DEF WaitsPass
  <2>2. PICK n : n = call[u].left - 1
    OBVIOUS
  <2>3. n \in Nat
    BY <2>1, <2>2
  <2>4. PICK c : c = [call[u] EXCEPT !.left = n]
    OBVIOUS
  <2>5. call'[u] = c
    BY <1>1, <1>2, <2>2, <2>4
  <2>6. /\ c \in CallType /\ c.left = n /\ c.at = call[u].at /\ c.sliced = call[u].sliced
        /\ c.ended = call[u].ended /\ c.result = call[u].result /\ c.tries = call[u].tries
    BY <2>3, <2>4, ThreadFacts DEF CallType
  <2>7. CallOK(c)
    BY <2>6, ThreadFacts DEF CallOK
  <2> QED
    BY <1>2, <2>1, <2>2, <2>5, <2>6, <2>7 DEF At
<1>3. ASSUME NEW u \in Threads, ~At(u, "cond")
      PROVE  call'[u] = call[u] /\ call'[u] \in CallType /\ CallOK(call'[u])
  BY <1>1, <1>3, ThreadFacts
<1>4. call' \in [Threads -> CallType] /\ CallsOK'
  <2>1. \A u \in Threads : call'[u] \in CallType /\ CallOK(call'[u])
    BY <1>2, <1>3
  <2>2. call' = [u \in Threads |-> call'[u]]
    BY <1>1
  <2> QED
    BY <2>1, <2>2 DEF CallsOK
<1>5. \A u \in Threads : At(u, "psynch") => At(u, "psynch")'
  BY <1>3 DEF At
<1>6. /\ owner' \in Threads \cup {None} /\ losses' \in 0..MaxLost
      /\ UNCHANGED <<queue, condKey, sliceKey, keysReady>>
  BY DEF WaitsPass, WaitInv, WaitTypes
<1>7. WaitInv'
  BY <1>4, <1>5, <1>6, CallsChange
<1>8. \A u \in Threads : At(u, "cond") => At(u, "cond")'
  BY <1>2 DEF At
<1> QED
  BY <1>2, <1>3, <1>7, <1>8

\* The mutex and the waits stand still.
LEMMA WaitsStill ==
    ASSUME WaitInv, UNCHANGED waitVars
    PROVE  /\ WaitInv' /\ \A u \in Threads : Same(call[u], call'[u])
           /\ \A u \in Threads : At(u, "cond") => At(u, "cond")'
BY DEF WaitInv, WaitTypes, CallsOK, SlicesOK, WaitersOK, waitVars, At, Same

-------------------------------------------------------------------------------
(* The receives: each operation keeps ReceiveInv, and an emulated receive     *)
(* gives up only when it may.                                                 *)

GivesUp ==
    recv.at = "try" /\ recv'.result = "again" =>
        data = 0 /\ recv.timeout > 0 /\ recv.waited \in recv.timeout..recv.timeout + 1

\* What the assumptions and the invariant say of a receive.
LEMMA ReceiveFacts ==
    ASSUME ReceiveInv
    PROVE  /\ Buffer \in Nat /\ PollSlice \in Nat /\ Old \in Nat /\ Never \in Nat /\ Old + 1 <= Never
           /\ data \in Nat /\ data <= Buffer /\ age \in Nat /\ age <= Never
           /\ recv \in RecvType /\ recv.timeout \in Nat /\ recv.waited \in Nat /\ recv.left \in Nat
<1>1. /\ Buffer \in Nat /\ PollSlice \in Nat /\ Old \in Nat /\ Never = Old + 2
      /\ Timeouts \cup {0} \subseteq Nat
  BY ReceiveAssumption
<1>2. data \in 0..Buffer /\ age \in 0..Never /\ recv \in RecvType
  BY DEF ReceiveInv, ReceiveTypes
<1>3. recv.timeout \in Timeouts \cup {0} /\ recv.waited \in Nat /\ recv.left \in Nat
  BY <1>2 DEF RecvType
<1>4. recv.timeout \in Nat
  BY <1>1, <1>3
<1> QED
  BY <1>1, <1>2, <1>3, <1>4

\* No receive, with any result.
LEMMA ReturnKept ==
    ASSUME NEW result \in {"none", "data", "again", "interrupted"}, Returns(result)
    PROVE  recv' \in RecvType /\ ReceiveOK' /\ recv'.result = result /\ recv'.at = "out"
<1>1. NoReceive \in RecvType /\ NoReceive.at = "out"
  BY DEF NoReceive, RecvType
<1>2. PICK r : r = [NoReceive EXCEPT !.result = result]
  OBVIOUS
<1>3. r \in RecvType /\ r.at = "out" /\ r.result = result
  BY <1>1, <1>2 DEF RecvType
<1>4. recv' = r
  BY <1>2 DEF Returns
<1> QED
  BY <1>3, <1>4 DEF ReceiveOK

\* The thread that received and what it forgets are of their types.
LEMMA CountKept ==
    ASSUME ReceiveInv, NEW result, CountReceive(result)
    PROVE  reader' \in BOOLEAN /\ age' \in 0..Never /\ dumped' \in BOOLEAN
<1>1. reader' \in BOOLEAN
  BY DEF CountReceive
<1>2. age' \in 0..Never
  BY ReceiveFacts DEF CountReceive
<1>3. dumped' \in BOOLEAN
  BY Zenon DEF CountReceive, ReceiveInv, ReceiveTypes
<1> QED
  BY <1>1, <1>2, <1>3

\* A receive that begins, or ends at once.
LEMMA CallKept ==
    ASSUME ReceiveInv, \/ \E timeout \in Timeouts : CallEmulated(timeout)
                       \/ ReceiveNow \/ CallRecv
    PROVE  ReceiveInv' /\ recv.at = "out"
<1>1. NoReceive \in RecvType /\ NoReceive.waited = 0 /\ NoReceive.result = "none"
  BY DEF NoReceive, RecvType
<1>2. CASE \E timeout \in Timeouts : CallEmulated(timeout)
  <2>1. PICK timeout \in Timeouts : CallEmulated(timeout)
    BY <1>2
  <2>2. PICK a : a = [NoReceive EXCEPT !.at = "try"]
    OBVIOUS
  <2>3. a \in RecvType /\ a.at = "try" /\ a.waited = 0 /\ a.result = "none"
    BY <1>1, <2>2 DEF RecvType
  <2>4. PICK r : r = [a EXCEPT !.timeout = timeout]
    OBVIOUS
  <2>5. r \in RecvType /\ r.at = "try" /\ r.waited = 0 /\ r.result = "none" /\ r.timeout = timeout
    BY <2>3, <2>4 DEF RecvType
  <2>6. recv' = r
    BY <2>1, <2>2, <2>4 DEF CallEmulated
  <2>7. timeout \in Nat
    BY ReceiveAssumption
  <2>8. ReceiveOK'
    BY <2>5, <2>6, <2>7 DEF ReceiveOK
  <2> QED
    BY <2>1, <2>5, <2>6, <2>8 DEF ReceiveInv, ReceiveTypes, CallEmulated
<1>3. CASE ReceiveNow
  <2>1. PICK result \in {"data", "again"} : CountReceive(result) /\ Returns(result)
    BY <1>3 DEF ReceiveNow
  <2>2. recv' \in RecvType /\ ReceiveOK'
    BY <2>1, ReturnKept
  <2>3. data' \in 0..Buffer
    BY <1>3, ReceiveFacts DEF ReceiveNow
  <2>4. watch' = watch /\ recv.at = "out"
    BY <1>3 DEF ReceiveNow
  <2> QED
    BY <2>1, <2>2, <2>3, <2>4, CountKept DEF ReceiveInv, ReceiveTypes
<1>4. CASE CallRecv
  <2>1. PICK r : r = [NoReceive EXCEPT !.at = "asleep"]
    OBVIOUS
  <2>2. r \in RecvType /\ r.at = "asleep" /\ r.result = "none"
    BY <1>1, <2>1 DEF RecvType
  <2>3. recv' = r
    BY <1>4, <2>1 DEF CallRecv
  <2>4. ReceiveOK'
    BY <2>2, <2>3 DEF ReceiveOK
  <2> QED
    BY <1>4, <2>2, <2>3, <2>4 DEF ReceiveInv, ReceiveTypes, CallRecv
<1> QED
  BY <1>2, <1>3, <1>4

\* A round of the emulated receive.
LEMMA TryReceiveKept ==
    ASSUME ReceiveInv, TryReceive
    PROVE  ReceiveInv' /\ GivesUp
<1>1. recv.at = "try" /\ watch' = watch
  BY DEF TryReceive
<1>2. recv.result = "none" /\ (recv.timeout > 0 => recv.waited <= recv.timeout + 1)
  BY <1>1 DEF ReceiveInv, ReceiveOK
<1>3. CASE data > 0 /\ data' = data - 1 /\ CountReceive("data") /\ Returns("data")
  <2>1. recv' \in RecvType /\ ReceiveOK' /\ recv'.result = "data"
    BY <1>3, ReturnKept
  <2>2. data' \in 0..Buffer
    BY <1>3, ReceiveFacts
  <2> QED
    BY <1>1, <1>3, <2>1, <2>2, CountKept DEF ReceiveInv, ReceiveTypes, GivesUp
<1>4. CASE /\ data = 0 /\ UNCHANGED <<data, reader, age, dumped>>
           /\ recv.timeout > 0 /\ recv.waited >= recv.timeout /\ Returns("again")
  <2>1. recv' \in RecvType /\ ReceiveOK'
    BY <1>4, ReturnKept
  <2>2. recv.waited \in recv.timeout..recv.timeout + 1
    BY <1>2, <1>4, ReceiveFacts
  <2> QED
    BY <1>1, <1>4, <2>1, <2>2 DEF ReceiveInv, ReceiveTypes, GivesUp
<1>5. CASE /\ data = 0 /\ UNCHANGED <<data, reader, age, dumped>>
           /\ ~(recv.timeout > 0 /\ recv.waited >= recv.timeout)
           /\ recv' = [recv EXCEPT !.at = "poll", !.left = PollTime(recv.waited, recv.timeout)]
  <2>1. PICK left : left = PollTime(recv.waited, recv.timeout)
    OBVIOUS
  <2>2. left \in Nat /\ (recv.timeout > 0 => recv.waited + left <= recv.timeout + 1)
    BY <1>5, <2>1, ReceiveFacts DEF PollTime
  <2>3. PICK a : a = [recv EXCEPT !.at = "poll"]
    OBVIOUS
  <2>4. /\ a \in RecvType /\ a.at = "poll" /\ a.result = "none"
        /\ a.timeout = recv.timeout /\ a.waited = recv.waited
    BY <1>2, <2>3, ReceiveFacts DEF RecvType
  <2>5. PICK r : r = [a EXCEPT !.left = left]
    OBVIOUS
  <2>6. /\ r \in RecvType /\ r.at = "poll" /\ r.result = "none"
        /\ r.timeout = recv.timeout /\ r.waited = recv.waited /\ r.left = left
    BY <2>2, <2>4, <2>5 DEF RecvType
  <2>7. recv' = r
    BY <1>5, <2>1, <2>3, <2>5
  <2>8. ReceiveOK'
    BY <2>2, <2>6, <2>7 DEF ReceiveOK
  <2> QED
    BY <1>1, <1>5, <2>6, <2>7, <2>8 DEF ReceiveInv, ReceiveTypes, GivesUp
<1> QED
  BY <1>3, <1>4, <1>5 DEF TryReceive

\* A receive goes on: it reads, polls or wakes.
LEMMA ReceiveStepKept ==
    ASSUME ReceiveInv, ReceiveStep
    PROVE  ReceiveInv' /\ GivesUp
<1>1. CASE TryReceive
  BY <1>1, TryReceiveKept
<1>2. CASE PollEnds
  <2>1. PICK r : r = [recv EXCEPT !.at = "try"]
    OBVIOUS
  <2>2. recv.at = "poll" /\ recv.result = "none" /\ recv' = r
    BY <1>2, <2>1 DEF PollEnds, ReceiveInv, ReceiveOK
  <2>3. /\ r \in RecvType /\ r.at = "try" /\ r.result = "none"
        /\ r.timeout = recv.timeout /\ r.waited = recv.waited
    BY <2>1, <2>2, ReceiveFacts DEF RecvType
  <2>4. recv.timeout > 0 => recv.waited <= recv.timeout + 1
    BY <2>2, ReceiveFacts DEF ReceiveInv, ReceiveOK
  <2>5. ReceiveOK'
    BY <2>2, <2>3, <2>4 DEF ReceiveOK
  <2> QED
    BY <1>2, <2>2, <2>3, <2>5 DEF ReceiveInv, ReceiveTypes, PollEnds, GivesUp
<1>3. CASE RecvWakes
  <2>1. recv' \in RecvType /\ ReceiveOK' /\ recv'.result = "data"
    BY <1>3, ReturnKept DEF RecvWakes
  <2>2. data' \in 0..Buffer
    BY <1>3, ReceiveFacts DEF RecvWakes
  <2>3. reader' \in BOOLEAN /\ age' \in 0..Never /\ dumped' \in BOOLEAN
    BY <1>3, CountKept DEF RecvWakes
  <2> QED
    BY <1>3, <2>1, <2>2, <2>3 DEF ReceiveInv, ReceiveTypes, RecvWakes, GivesUp
<1> QED
  BY <1>1, <1>2, <1>3 DEF ReceiveStep

\* A datagram arrives.
LEMMA ArriveKept ==
    ASSUME ReceiveInv, Arrive
    PROVE  ReceiveInv' /\ GivesUp
<1>1. data' \in 0..Buffer /\ UNCHANGED <<reader, age, dumped, watch>>
  BY ReceiveFacts DEF Arrive
<1>2. recv' \in RecvType /\ ReceiveOK' /\ (recv.at = "try" => recv' = recv)
  <2>1. CASE recv' = recv
    BY <2>1 DEF ReceiveInv, ReceiveTypes, ReceiveOK
  <2>2. CASE recv.at = "asleep" /\ recv' = [recv EXCEPT !.heard = TRUE]
    <3>1. PICK r : r = [recv EXCEPT !.heard = TRUE]
      OBVIOUS
    <3>2. r \in RecvType /\ r.at = "asleep" /\ r.result = recv.result
      BY <2>2, <3>1, ReceiveFacts DEF RecvType
    <3>3. ReceiveOK'
      BY <2>2, <3>1, <3>2 DEF ReceiveInv, ReceiveOK
    <3> QED
      BY <2>2, <3>1, <3>2, <3>3
  <2> QED
    BY <2>1, <2>2 DEF Arrive
<1>3. GivesUp
  BY <1>2 DEF GivesUp, ReceiveInv, ReceiveOK
<1> QED
  BY <1>1, <1>2, <1>3 DEF ReceiveInv, ReceiveTypes

\* The watchdog looks, and ends the receive it finds stalled.
LEMMA WatchKept ==
    ASSUME ReceiveInv, Look \/ MarkAndSignal
    PROVE  ReceiveInv' /\ GivesUp
<1>1. CASE Look
  <2>1. watch' \in {"asleep", "look", "signal"} /\ UNCHANGED <<data, recv, reader, age, dumped>>
    BY <1>1 DEF Look
  <2> QED
    BY <2>1 DEF ReceiveInv, ReceiveTypes, ReceiveOK, GivesUp
<1>2. CASE MarkAndSignal
  <2>1. watch' = "asleep" /\ dumped' = TRUE /\ UNCHANGED <<data, reader, age>>
    BY <1>2 DEF MarkAndSignal
  <2>2. recv' \in RecvType /\ ReceiveOK' /\ (recv.at = "try" => recv' = recv)
    <3>1. CASE recv.at = "asleep"
      <4>1. Returns("interrupted")
        BY <1>2, <3>1 DEF MarkAndSignal
      <4> QED
        BY <3>1, <4>1, ReturnKept
    <3>2. CASE recv.at = "poll"
      <4>1. PICK r : r = [recv EXCEPT !.at = "try"]
        OBVIOUS
      <4>2. recv' = r
        BY <1>2, <3>2, <4>1 DEF MarkAndSignal
      <4>3. /\ r \in RecvType /\ r.at = "try" /\ r.result = recv.result
            /\ r.timeout = recv.timeout /\ r.waited = recv.waited
        BY <4>1, ReceiveFacts DEF RecvType
      <4>4. recv.result = "none" /\ (recv.timeout > 0 => recv.waited <= recv.timeout + 1)
        BY <3>2, ReceiveFacts DEF ReceiveInv, ReceiveOK
      <4>5. ReceiveOK'
        BY <4>2, <4>3, <4>4 DEF ReceiveOK
      <4> QED
        BY <3>2, <4>2, <4>3, <4>5
    <3>3. CASE recv.at # "asleep" /\ recv.at # "poll"
      <4>1. recv' = recv
        BY <1>2, <3>3 DEF MarkAndSignal
      <4> QED
        BY <4>1 DEF ReceiveInv, ReceiveTypes, ReceiveOK
    <3> QED
      BY <3>1, <3>2, <3>3
  <2>3. GivesUp
    BY <2>2 DEF GivesUp, ReceiveInv, ReceiveOK
  <2> QED
    BY <2>1, <2>2, <2>3 DEF ReceiveInv, ReceiveTypes
<1> QED
  BY <1>1, <1>2

\* A tick goes by.
LEMMA ReceivePassesKept ==
    ASSUME ReceiveInv, ReceivePasses
    PROVE  ReceiveInv' /\ GivesUp
<1>1. recv.at # "try" /\ watch' = "look" /\ UNCHANGED <<data, reader, dumped>>
  BY DEF ReceivePasses
<1>2. age' \in 0..Never
  BY ReceiveFacts DEF ReceivePasses
<1>3. recv' \in RecvType /\ ReceiveOK'
  <2>1. CASE recv.at # "poll"
    <3>1. recv' = recv
      BY <2>1 DEF ReceivePasses
    <3> QED
      BY <3>1 DEF ReceiveInv, ReceiveTypes, ReceiveOK
  <2>2. CASE recv.at = "poll"
    <3>1. recv.left > 0 /\ recv.result = "none" /\ (recv.timeout > 0 => recv.waited + recv.left <= recv.timeout + 1)
      BY <2>2 DEF ReceivePasses, ReceiveInv, ReceiveOK
    <3>2. PICK left \in Nat : left = recv.left - 1
      BY <3>1, ReceiveFacts
    <3>3. PICK waited \in Nat : waited = IF recv.timeout > 0 THEN recv.waited + 1 ELSE 0
      BY ReceiveFacts
    <3>4. PICK a : a = [recv EXCEPT !.left = left]
      OBVIOUS
    <3>5. /\ a \in RecvType /\ a.at = "poll" /\ a.result = "none" /\ a.left = left
          /\ a.timeout = recv.timeout /\ a.waited = recv.waited
      BY <2>2, <3>1, <3>4, ReceiveFacts DEF RecvType
    <3>6. PICK r : r = [a EXCEPT !.waited = waited]
      OBVIOUS
    <3>7. /\ r \in RecvType /\ r.at = "poll" /\ r.result = "none" /\ r.left = left
          /\ r.timeout = recv.timeout /\ r.waited = waited
      BY <3>5, <3>6 DEF RecvType
    <3>8. recv' = [recv EXCEPT !.left = recv.left - 1,
                               !.waited = IF recv.timeout > 0 THEN recv.waited + 1 ELSE 0]
      BY <2>2 DEF ReceivePasses
    <3>9. recv' = r
      BY <3>2, <3>3, <3>4, <3>6, <3>8
    <3>10. recv.timeout > 0 => waited + left <= recv.timeout + 1
      BY <3>1, <3>2, <3>3, ReceiveFacts
    <3>11. ReceiveOK'
      BY <3>7, <3>9, <3>10 DEF ReceiveOK
    <3> QED
      BY <3>7, <3>9, <3>11
  <2> QED
    BY <2>1, <2>2
<1> QED
  BY <1>1, <1>2, <1>3 DEF ReceiveInv, ReceiveTypes, GivesUp

\* The receives stand still.
LEMMA ReceivesStill ==
    ASSUME ReceiveInv, UNCHANGED receiveVars
    PROVE  ReceiveInv' /\ GivesUp
BY DEF ReceiveInv, ReceiveTypes, ReceiveOK, receiveVars, GivesUp

-------------------------------------------------------------------------------
(* The two threads                                                            *)

\* The update thread's call reports a timeout only at its deadline.
Reports == ~At(Updater, "out") /\ call'[Updater].result = "timedout" => due = 0

\* What the invariant says of the update thread.
LEMMA UpdaterFacts ==
    ASSUME WaitInv, ClientInv
    PROVE  /\ call[Updater] \in CallType /\ call[Updater].left \in Nat /\ call[Updater].sliced \in BOOLEAN
           /\ CallOK(call[Updater]) /\ due \in Nat /\ missed \in Nat /\ SliceMax \in Nat
           /\ use \in Uses /\ use.deadline \in Nat /\ use.conds \subseteq Conds /\ use.timeout \in Timeouts
BY Constants, ThreadFacts DEF ClientInv, ClientTypes, CallType

\* The observation, after a step that says so.
LEMMA MissedFacts ==
    ASSUME ClientInv, Missed
    PROVE  /\ missed' \in {missed, 0} /\ missed' \in Nat
           /\ ~At(Updater, "cond")' => missed' = 0
BY DEF Missed, Asleep, ClientInv, ClientTypes

\* Another's step at the update thread's call.
LEMMA UpdaterSame ==
    ASSUME WaitInv, ClientInv, Same(call[Updater], call'[Updater]), due' = due,
           missed' \in {missed, 0}, ~At(Updater, "cond")' => missed' = 0
    PROVE  UpdaterOK' /\ Reports
<1>1. Reports
  BY UpdaterFacts DEF Reports, Same, CallOK, At
<1>2. ASSUME At(Updater, "cond")'
      PROVE  /\ IF call'[Updater].sliced THEN call'[Updater].left < due' ELSE call'[Updater].left = due'
             /\ call'[Updater].left + missed' < 2 * SliceMax
  <2>1. At(Updater, "cond")
    BY <1>2 DEF Same, At
  <2> QED
    BY <2>1, UpdaterFacts DEF ClientInv, UpdaterOK, Same
<1>3. call'[Updater].ended /\ ~call'[Updater].sliced => due' = 0
  BY DEF ClientInv, UpdaterOK, Same
<1> QED
  BY <1>1, <1>2, <1>3 DEF UpdaterOK

\* The same, when its wait goes on and nothing is counted.
LEMMA UpdaterStill ==
    ASSUME WaitInv, ClientInv, Same(call[Updater], call'[Updater]), UNCHANGED <<due, missed>>,
           At(Updater, "cond") => At(Updater, "cond")'
    PROVE  UpdaterOK' /\ Reports
<1>1. ~At(Updater, "cond")' => missed' = 0
  BY DEF ClientInv, UpdaterOK
<1> QED
  BY <1>1, UpdaterSame


\* Where a thread is in its own code.
LEMMA GoesKept ==
    ASSUME ClientInv, NEW t \in Threads, NEW from, NEW to \in {"start", "receiving", "locking", "unlocking", "holding"},
           Goes(t, from, to)
    PROVE  doing' \in [Threads -> {"start", "receiving", "locking", "unlocking", "holding"}]
BY DEF Goes, ClientInv, ClientTypes

\* What a step keeps and may do.
Kept == NetInv' /\ GivesUp /\ Reports

\* The receive thread calls a receive, and the receive goes on.
LEMMA ReceivingKept ==
    ASSUME NetInv, ReaderCalls \/ ReaderReceives
    PROVE  Kept
<1>1. WaitInv /\ ReceiveInv /\ ClientInv
  BY DEF NetInv
<1>2. UNCHANGED <<waitVars, use, inbox, due, awaited, missed>>
  BY DEF ReaderCalls, ReaderReceives, Stays
<1>3. WaitInv' /\ UpdaterOK' /\ Reports
  BY <1>1, <1>2, WaitsStill, UpdaterStill, Constants
<1>4. ReceiveInv' /\ GivesUp
  <2>1. CASE ReaderCalls
    BY <1>1, <2>1, CallKept, UpdaterFacts DEF ReaderCalls, GivesUp
  <2>2. CASE ReaderReceives
    BY <1>1, <2>2, ReceiveStepKept DEF ReaderReceives
  <2> QED
    BY <2>1, <2>2
<1>5. doing' \in [Threads -> {"start", "receiving", "locking", "unlocking", "holding"}]
  <2>1. CASE ReaderCalls
    BY <1>1, <2>1, Constants, GoesKept DEF ReaderCalls
  <2>2. CASE ReaderReceives
    BY <1>1, <2>2 DEF ReaderReceives, Stays, ClientInv, ClientTypes
  <2> QED
    BY <2>1, <2>2
<1>6. ClientTypes'
  BY <1>1, <1>2, <1>5 DEF ClientInv, ClientTypes
<1> QED
  BY <1>3, <1>4, <1>6 DEF Kept, NetInv, ClientInv

\* The receive thread has received: with data it asks for the mutex.
LEMMA ReceivedKept ==
    ASSUME NetInv, ReaderReceived
    PROVE  Kept
<1>1. WaitInv /\ ReceiveInv /\ ClientInv
  BY DEF NetInv
<1>2. UNCHANGED <<receiveVars, use, inbox, due, awaited, missed>>
  BY DEF ReaderReceived
<1>3. ReceiveInv' /\ GivesUp
  BY <1>1, <1>2, ReceivesStill
<1>4. WaitInv' /\ Same(call[Updater], call'[Updater]) /\ (At(Updater, "cond") => At(Updater, "cond")')
  <2>1. CASE Lock(Reader)
    <3>1. WaitInv' /\ call'[Updater] = call[Updater]
      BY <1>1, <2>1, LockKept, Constants
    <3> QED
      BY <3>1 DEF Same, At
  <2>2. CASE UNCHANGED waitVars
    BY <1>1, <2>2, WaitsStill, Constants
  <2> QED
    BY <2>1, <2>2 DEF ReaderReceived
<1>5. UpdaterOK' /\ Reports
  BY <1>1, <1>2, <1>4, UpdaterStill
<1>6. doing' \in [Threads -> {"start", "receiving", "locking", "unlocking", "holding"}]
  BY <1>1, Constants, GoesKept DEF ReaderReceived
<1>7. ClientTypes'
  BY <1>1, <1>2, <1>6 DEF ClientInv, ClientTypes
<1> QED
  BY <1>3, <1>4, <1>5, <1>7 DEF Kept, NetInv, ClientInv

\* It passes the data on and signals.
LEMMA PassOnKept ==
    ASSUME NetInv, PassOn
    PROVE  Kept
<1>1. WaitInv /\ ReceiveInv /\ ClientInv
  BY DEF NetInv
<1>2. /\ UNCHANGED <<owner, queue, condKey, sliceKey, keysReady>> /\ UNCHANGED receiveVars
      /\ UNCHANGED <<use, due, awaited>> /\ inbox' = TRUE /\ Signal(Passed) /\ Missed
      /\ Goes(Reader, "locking", "unlocking")
  BY DEF PassOn
<1>3. ReceiveInv' /\ GivesUp
  BY <1>1, <1>2, ReceivesStill
<1>4. WaitInv' /\ Same(call[Updater], call'[Updater])
  BY <1>1, <1>2, SignalKept, Constants
<1>5. missed' \in {missed, 0} /\ missed' \in Nat /\ (~At(Updater, "cond")' => missed' = 0)
  BY <1>1, <1>2, MissedFacts
<1>6. UpdaterOK' /\ Reports
  BY <1>1, <1>2, <1>4, <1>5, UpdaterSame
<1>7. doing' \in [Threads -> {"start", "receiving", "locking", "unlocking", "holding"}]
  BY <1>1, <1>2, Constants, GoesKept
<1>8. ClientTypes'
  BY <1>1, <1>2, <1>5, <1>7 DEF ClientInv, ClientTypes
<1> QED
  BY <1>3, <1>4, <1>6, <1>8 DEF Kept, NetInv, ClientInv

\* It releases the mutex.
LEMMA ReaderUnlocksKept ==
    ASSUME NetInv, ReaderUnlocks
    PROVE  Kept
<1>1. WaitInv /\ ReceiveInv /\ ClientInv
  BY DEF NetInv
<1>2. UNCHANGED <<receiveVars, use, inbox, due, awaited, missed>>
  BY DEF ReaderUnlocks
<1>3. ReceiveInv' /\ GivesUp
  BY <1>1, <1>2, ReceivesStill
<1>4. WaitInv' /\ Same(call[Updater], call'[Updater]) /\ (At(Updater, "cond") => At(Updater, "cond")')
  BY <1>1, UnlockKept, Constants DEF ReaderUnlocks
<1>5. UpdaterOK' /\ Reports
  BY <1>1, <1>2, <1>4, UpdaterStill
<1>6. doing' \in [Threads -> {"start", "receiving", "locking", "unlocking", "holding"}]
  BY <1>1, Constants, GoesKept DEF ReaderUnlocks
<1>7. ClientTypes'
  BY <1>1, <1>2, <1>6 DEF ClientInv, ClientTypes
<1> QED
  BY <1>3, <1>4, <1>5, <1>7 DEF Kept, NetInv, ClientInv

\* The update thread asks for the mutex, with a deadline.
LEMMA UpdaterStartsKept ==
    ASSUME NetInv, UpdaterStarts
    PROVE  Kept
<1>1. WaitInv /\ ReceiveInv /\ ClientInv
  BY DEF NetInv
<1>2. /\ UNCHANGED <<receiveVars, use, inbox, missed>> /\ Lock(Updater)
      /\ due' = use.deadline /\ awaited' \in use.conds /\ Goes(Updater, "start", "holding")
  BY DEF UpdaterStarts
<1>3. ReceiveInv' /\ GivesUp
  BY <1>1, <1>2, ReceivesStill
<1>4. /\ WaitInv' /\ ~call'[Updater].ended /\ call'[Updater].at = "try" /\ call'[Updater].result = "ok"
      /\ call[Updater].at = "out"
  BY <1>1, <1>2, LockKept, Constants
<1>5. missed' = 0
  BY <1>1, <1>2, <1>4 DEF ClientInv, UpdaterOK, At
<1>6. UpdaterOK' /\ Reports
  BY <1>4, <1>5 DEF UpdaterOK, Reports, At
<1>7. doing' \in [Threads -> {"start", "receiving", "locking", "unlocking", "holding"}]
  BY <1>1, <1>2, Constants, GoesKept
<1>8. due' \in Nat /\ awaited' \in Conds \cup {None}
  BY <1>1, <1>2, UpdaterFacts
<1>9. ClientTypes'
  BY <1>1, <1>2, <1>7, <1>8 DEF ClientInv, ClientTypes
<1> QED
  BY <1>3, <1>4, <1>6, <1>9 DEF Kept, NetInv, ClientInv

\* It waits.
LEMMA UpdaterWaitsKept ==
    ASSUME NetInv, UpdaterWaits
    PROVE  Kept
<1>1. WaitInv /\ ReceiveInv /\ ClientInv
  BY DEF NetInv
<1>2. /\ UNCHANGED receiveVars /\ UNCHANGED <<use, doing, inbox, due, awaited>>
      /\ TimedWait(Updater, awaited, due) /\ Missed
  BY DEF UpdaterWaits, Stays
<1>3. ReceiveInv' /\ GivesUp
  BY <1>1, <1>2, ReceivesStill
<1>4. /\ WaitInv' /\ At(Updater, "out") /\ call'[Updater].at = "cond" /\ ~call'[Updater].ended
      /\ call'[Updater].left \in Nat /\ call'[Updater].left < 2 * SliceMax
      /\ IF call'[Updater].sliced THEN call'[Updater].left < due ELSE call'[Updater].left = due
  <2>1. awaited \in Conds \cup {None} /\ due \in Nat /\ Updater \in Threads
    BY <1>1, Constants DEF ClientInv, ClientTypes
  <2> QED
    BY <1>1, <1>2, <2>1, TimedWaitKept
<1>5. missed' = 0
  <2>1. missed = 0
    BY <1>1, <1>4 DEF ClientInv, UpdaterOK, At
  <2> QED
    BY <1>1, <1>2, <2>1, MissedFacts
<1>6. UpdaterOK' /\ Reports
  BY <1>2, <1>4, <1>5 DEF UpdaterOK, Reports, At
<1>7. ClientTypes'
  BY <1>1, <1>2, <1>5 DEF ClientInv, ClientTypes
<1> QED
  BY <1>3, <1>4, <1>6, <1>7 DEF Kept, NetInv, ClientInv

\* It takes what it waited for, or gives up, and releases the mutex.
LEMMA UpdaterTakesKept ==
    ASSUME NetInv, UpdaterTakes
    PROVE  Kept
<1>1. WaitInv /\ ReceiveInv /\ ClientInv
  BY DEF NetInv
<1>2. /\ UNCHANGED receiveVars /\ UNCHANGED <<use, missed>> /\ inbox' = FALSE /\ due' = 0 /\ awaited' = None
      /\ Unlock(Updater) /\ At(Updater, "out") /\ Goes(Updater, "holding", "start")
  BY DEF UpdaterTakes, Holding
<1>3. ReceiveInv' /\ GivesUp
  BY <1>1, <1>2, ReceivesStill
<1>4. WaitInv' /\ Same(call[Updater], call'[Updater])
  BY <1>1, <1>2, UnlockKept, Constants
<1>5. ~At(Updater, "cond")' /\ missed' = 0
  BY <1>1, <1>2, <1>4 DEF ClientInv, UpdaterOK, At, Same
<1>6. UpdaterOK' /\ Reports
  BY <1>2, <1>5 DEF UpdaterOK, Reports
<1>7. doing' \in [Threads -> {"start", "receiving", "locking", "unlocking", "holding"}]
  BY <1>1, <1>2, Constants, GoesKept
<1>8. ClientTypes'
  BY <1>1, <1>2, <1>5, <1>7 DEF ClientInv, ClientTypes
<1> QED
  BY <1>3, <1>4, <1>6, <1>8 DEF Kept, NetInv, ClientInv

\* A thread goes on in a lock or at the end of a wait.
LEMMA WaitStepsKept ==
    ASSUME NetInv, NEW t \in Threads, WaitSteps(t)
    PROVE  Kept
<1>1. WaitInv /\ ReceiveInv /\ ClientInv
  BY DEF NetInv
<1>2. /\ UNCHANGED receiveVars /\ UNCHANGED <<use, doing, inbox, due, awaited>>
      /\ WaitStep(t) /\ Missed
  BY DEF WaitSteps, Stays
<1>3. ReceiveInv' /\ GivesUp
  BY <1>1, <1>2, ReceivesStill
<1>4. WaitInv' /\ Awakes(t)
  BY <1>1, <1>2, WaitStepKept
<1>5. missed' \in {missed, 0} /\ missed' \in Nat /\ (~At(Updater, "cond")' => missed' = 0)
  BY <1>1, <1>2, MissedFacts
<1>6. UpdaterOK' /\ Reports
  <2>1. CASE t = Updater
    <3>1. call[Updater].ended /\ ~call[Updater].sliced => due = 0
      BY <1>1 DEF ClientInv, UpdaterOK
    <3>2. At(Updater, "cond") /\ ~call[Updater].sliced => call[Updater].left = due
      BY <1>1 DEF ClientInv, UpdaterOK
    <3>3. call'[Updater].ended /\ ~call'[Updater].sliced => due' = 0
      BY <1>2, <1>4, <2>1, <3>1, <3>2 DEF Awakes
    <3>4. Reports
      BY <1>4, <2>1, <3>1 DEF Awakes, Reports
    <3>5. ~At(Updater, "cond")'
      BY <1>4, <2>1 DEF Awakes
    <3> QED
      BY <1>5, <3>3, <3>4, <3>5 DEF UpdaterOK
  <2>2. CASE t # Updater
    <3>1. Same(call[Updater], call'[Updater])
      BY <1>4, <2>2, Constants DEF Awakes, Same
    <3> QED
      BY <1>1, <1>2, <1>5, <3>1, UpdaterSame
  <2> QED
    BY <2>1, <2>2
<1>7. ClientTypes'
  BY <1>1, <1>2, <1>5 DEF ClientInv, ClientTypes
<1> QED
  BY <1>3, <1>4, <1>6, <1>7 DEF Kept, NetInv, ClientInv

\* A datagram arrives, and the watchdog does its work.
LEMMA OutsideKept ==
    ASSUME NetInv, Network \/ Watchdog
    PROVE  Kept
<1>1. WaitInv /\ ReceiveInv /\ ClientInv
  BY DEF NetInv
<1>2. UNCHANGED <<use, doing, inbox, due, awaited, missed>>
  BY DEF Network, Watchdog, Stays
<1>3. ReceiveInv' /\ GivesUp
  BY <1>1, ArriveKept, WatchKept DEF Network, Watchdog
<1>4. WaitInv' /\ Same(call[Updater], call'[Updater]) /\ (At(Updater, "cond") => At(Updater, "cond")')
  <2>1. CASE UNCHANGED waitVars
    BY <1>1, <2>1, WaitsStill, Constants
  <2>2. CASE Interrupt(Reader) /\ UNCHANGED <<owner, condKey, sliceKey, keysReady, losses>>
    BY <1>1, <2>2, InterruptKept, Constants
  <2> QED
    BY <2>1, <2>2 DEF Network, Watchdog
<1>5. UpdaterOK' /\ Reports
  BY <1>1, <1>2, <1>4, UpdaterStill
<1>6. ClientTypes'
  BY <1>1, <1>2 DEF ClientInv, ClientTypes
<1> QED
  BY <1>3, <1>4, <1>5, <1>6 DEF Kept, NetInv, ClientInv

\* A tick, which no wait outlives.
LEMMA TickKept ==
    ASSUME NetInv, Tick
    PROVE  Kept /\ (At(Updater, "cond") => due > 0)
<1>1. WaitInv /\ ReceiveInv /\ ClientInv
  BY DEF NetInv
<1>2. /\ WaitsPass /\ ReceivePasses /\ UNCHANGED <<use, doing, inbox, awaited>>
      /\ due' = IF due > 0 THEN due - 1 ELSE 0
      /\ missed' = IF Asleep THEN missed + 1 ELSE 0
  BY DEF Tick
<1>3. ReceiveInv' /\ GivesUp
  BY <1>1, <1>2, ReceivePassesKept
<1>4. /\ WaitInv'
      /\ ~At(Updater, "cond") => call'[Updater] = call[Updater]
      /\ At(Updater, "cond") =>
             /\ At(Updater, "cond")' /\ call[Updater].left > 0
             /\ call'[Updater].left = call[Updater].left - 1
             /\ call'[Updater].sliced = call[Updater].sliced
             /\ call'[Updater].ended = call[Updater].ended
             /\ call'[Updater].result = call[Updater].result
  BY <1>1, <1>2, PassKept, Constants
<1>5. due \in Nat /\ missed \in Nat /\ call[Updater].left \in Nat /\ SliceMax \in Nat
  BY <1>1, UpdaterFacts
<1>6. due' \in Nat /\ missed' \in Nat
  BY <1>2, <1>5
<1>7. call[Updater].ended /\ ~call[Updater].sliced => due' = 0
  BY <1>1, <1>2 DEF ClientInv, UpdaterOK
<1>8. call'[Updater].ended = call[Updater].ended /\ call'[Updater].sliced = call[Updater].sliced
      /\ call'[Updater].result = call[Updater].result
  BY <1>4
<1>9. ASSUME At(Updater, "cond")
      PROVE  UpdaterOK' /\ Reports /\ due > 0
  <2>1. /\ IF call[Updater].sliced THEN call[Updater].left < due ELSE call[Updater].left = due
        /\ call[Updater].left + missed < 2 * SliceMax
    BY <1>1, <1>9 DEF ClientInv, UpdaterOK
  <2>2. due > 0 /\ due' = due - 1
    BY <1>2, <1>4, <1>5, <1>9, <2>1
  <2>3. IF call[Updater].sliced THEN call'[Updater].left < due' ELSE call'[Updater].left = due'
    BY <1>4, <1>5, <1>9, <2>1, <2>2
  <2>4. call'[Updater].left + missed' < 2 * SliceMax
    BY <1>2, <1>4, <1>5, <1>9, <2>1
  <2>5. UpdaterOK'
    BY <1>4, <1>7, <1>8, <1>9, <2>3, <2>4 DEF UpdaterOK
  <2>6. Reports
    BY <1>1, <1>8, <1>9, UpdaterFacts DEF Reports, CallOK, At
  <2> QED
    BY <2>2, <2>5, <2>6
<1>10. ASSUME ~At(Updater, "cond")
       PROVE  UpdaterOK' /\ Reports
  <2>1. missed' = 0 /\ ~At(Updater, "cond")'
    BY <1>2, <1>4, <1>10 DEF Asleep, At
  <2>2. UpdaterOK'
    BY <1>7, <1>8, <2>1 DEF UpdaterOK
  <2>3. Reports
    BY <1>1, <1>8, UpdaterFacts DEF Reports, CallOK, At
  <2> QED
    BY <2>2, <2>3
<1>11. ClientTypes'
  BY <1>1, <1>2, <1>6 DEF ClientInv, ClientTypes
<1> QED
  BY <1>3, <1>4, <1>9, <1>10, <1>11 DEF Kept, NetInv, ClientInv

-------------------------------------------------------------------------------
(* The invariant and what follows from it                                     *)

\* It holds at the start.
LEMMA InitHolds == Init => NetInv
<1> SUFFICES ASSUME Init PROVE NetInv
  OBVIOUS
<1>1. WaitInv
  <2>1. /\ owner = None /\ queue = <<>> /\ losses = 0 /\ call = [t \in Threads |-> NoCall]
        /\ condKey = [t \in Threads |-> None] /\ sliceKey = [t \in Threads |-> 0]
        /\ keysReady \in BOOLEAN
    BY DEF Init, WaitsInit
  <2>2. queue \in Seq(Threads) /\ Len(queue) = 0
    BY <2>1
  <2>3. WaitTypes
    BY <2>1, <2>2, Constants, NoCallFacts DEF WaitTypes
  <2>4. CallsOK
    BY <2>1, NoCallFacts DEF CallsOK
  <2>5. SlicesOK
    BY <2>1, Constants DEF SlicesOK
  <2>6. WaitersOK
    BY <2>2 DEF WaitersOK
  <2> QED
    BY <2>3, <2>4, <2>5, <2>6 DEF WaitInv
<1>2. ReceiveInv
  <2>1. NoReceive \in RecvType /\ NoReceive.at = "out"
    BY DEF NoReceive, RecvType
  <2>2. data \in 0..Buffer /\ age \in 0..Never
    BY ReceiveAssumption DEF Init, ReceiveInit
  <2> QED
    BY <2>1, <2>2 DEF Init, ReceiveInit, ReceiveInv, ReceiveTypes, ReceiveOK
<1>3. ClientInv
  <2>1. call[Updater] = NoCall
    BY Constants DEF Init, WaitsInit
  <2>2. UpdaterOK
    BY <2>1, NoCallFacts DEF UpdaterOK, Init, At
  <2>3. ClientTypes
    BY DEF Init, ClientTypes
  <2> QED
    BY <2>2, <2>3 DEF ClientInv
<1> QED
  BY <1>1, <1>2, <1>3 DEF NetInv

\* Every step keeps it.
LEMMA StepKeeps ==
    ASSUME NetInv, [Next]_vars
    PROVE  Kept
<1>1. CASE ReaderSteps
  BY <1>1, ReceivingKept, ReceivedKept, PassOnKept, ReaderUnlocksKept DEF ReaderSteps
<1>2. CASE UpdaterSteps
  BY <1>2, UpdaterStartsKept, UpdaterWaitsKept, UpdaterTakesKept DEF UpdaterSteps
<1>3. CASE \E t \in Threads : WaitSteps(t)
  BY <1>3, WaitStepsKept
<1>4. CASE Network \/ Watchdog
  BY <1>4, OutsideKept
<1>5. CASE Tick
  BY <1>5, TickKept
<1>6. CASE UNCHANGED vars
  <2>1. WaitInv /\ ReceiveInv /\ ClientInv
    BY DEF NetInv
  <2>2. UNCHANGED waitVars /\ UNCHANGED receiveVars /\ UNCHANGED <<use, doing, inbox, due, awaited, missed>>
    BY <1>6 DEF vars
  <2>3. WaitInv' /\ Same(call[Updater], call'[Updater]) /\ (At(Updater, "cond") => At(Updater, "cond")')
    BY <2>1, <2>2, WaitsStill, Constants
  <2>4. UpdaterOK' /\ Reports /\ ReceiveInv' /\ GivesUp
    BY <2>1, <2>2, <2>3, UpdaterStill, ReceivesStill
  <2>5. ClientTypes'
    BY <2>1, <2>2 DEF ClientInv, ClientTypes
  <2> QED
    BY <2>3, <2>4, <2>5 DEF Kept, NetInv, ClientInv
<1> QED
  BY <1>1, <1>2, <1>3, <1>4, <1>5, <1>6 DEF Next

\* The inductive invariant of the mutex, the waits, the receives and the two threads
\* holds in every state that the calls of darling_fixes.c and net_trace.c can reach.
THEOREM NetInvariant == Spec => []NetInv
<1>1. NetInv /\ [Next]_vars => NetInv'
  BY StepKeeps DEF Kept
<1> QED
  BY InitHolds, <1>1, PTL DEF Spec

\* Every variable keeps its type, the kernel's waiters and the slices included.
THEOREM TypeCorrect == Spec => []TypeOK
BY NetInvariant, TypeParts, PTL

\* A signal that Darling lost costs the update thread less than two of the longest
\* slices of macoblox_pthread_cond_timedwait, whatever the slices and the deadline are.
THEOREM LostSignalCostsASlice == Spec => []NewsSeenInASlice
<1>1. NetInv => NewsSeenInASlice
  <2> SUFFICES ASSUME NetInv PROVE NewsSeenInASlice
    OBVIOUS
  <2>1. WaitInv /\ ClientInv
    BY DEF NetInv
  <2>2. CASE At(Updater, "cond")
    BY <2>1, <2>2, UpdaterFacts DEF ClientInv, UpdaterOK, NewsSeenInASlice
  <2>3. CASE ~At(Updater, "cond")
    BY <2>1, <2>3, Constants DEF ClientInv, UpdaterOK, NewsSeenInASlice
  <2> QED
    BY <2>2, <2>3
<1> QED
  BY NetInvariant, <1>1, PTL

\* A sliced wait reports a timeout only at the caller's deadline, and sleeps no tick
\* beyond it: macoblox_pthread_cond_timedwait keeps the promise of the call it replaces.
THEOREM TimeoutsAreTheCallers == Spec => DeadlineKept
<1>1. ASSUME NetInv, [Next]_vars
      PROVE  /\ ~At(Updater, "out") /\ call'[Updater].result = "timedout" => due = 0
             /\ Tick /\ At(Updater, "cond") => due > 0
  BY <1>1, StepKeeps, TickKept DEF Kept, Reports
<1> QED
  BY NetInvariant, <1>1, PTL DEF Spec, DeadlineKept

\* The emulated receive gives up only on an empty socket, at its SO_RCVTIMEO or a tick
\* later, although each poll is cut to a slice (wait_readable_or_timeout).
THEOREM ReceiveTimeoutKept == Spec => RcvTimeoutKept
<1>1. ASSUME NetInv, [Next]_vars
      PROVE  recv.at = "try" /\ recv'.result = "again" =>
                 /\ data = 0 /\ recv.timeout > 0
                 /\ recv.waited \in recv.timeout..recv.timeout + 1
  BY <1>1, StepKeeps DEF Kept, GivesUp
<1> QED
  BY NetInvariant, <1>1, PTL DEF Spec, RcvTimeoutKept
================================================================================
