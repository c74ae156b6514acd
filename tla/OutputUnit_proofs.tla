--------------------------- MODULE OutputUnit_proofs ---------------------------
(***************************************************************************)
(* Proofs about OutputUnit, for any number of threads, IOProcs and         *)
(* devices and any interleaving: which threads there are, what a freed     *)
(* unit leaves behind, and that IsRunning tells the truth.                 *)
(*                                                                         *)
(* The properties speak of a unit at rest; UnitInv says what each step of  *)
(* a call may rely on: how far the call is, which thread it joins, and     *)
(* that an IOProc runs only while the unit says so.                        *)
(***************************************************************************)
EXTENDS OutputUnit, TLAPS

CallForm ==
    /\ call.at = "idle" <=> call = Idle
    /\ call.at = "create" => call.op = "start"
    /\ call.at = "join" => call.op # "start"
    /\ call.op = "none" => call.at = "idle"

\* What a call in progress knows of the flags.
CallFlags ==
    /\ call.op = "start" => unit.producing /\ ~unit.running /\ ~fifo
    /\ call.op \in {"stop", "uninit", "dispose"} => ~unit.producing
    /\ call.at = "join" => unit.thread \in Threads
    /\ unit.producing => unit.thread \in Threads
    /\ call = Idle /\ unit.running => unit.producing
    /\ ~unit.magic => call = Idle /\ ~unit.producing /\ ~unit.running

\* The threads, as long as every start that made one succeeded.
ThreadsKnown ==
    "start failed" \notin upset =>
        /\ \A t \in Live : t = unit.thread
        /\ Live # {} => unit.producing \/ call.at = "join"
        /\ call = Idle /\ unit.producing => unit.running

\* The IOProcs, as long as the device was not changed under them.
ProcsKnown ==
    /\ fifo => unit.ioproc = None
    /\ call = [op |-> "start", at |-> "device"] => unit.ioproc \in Procs
    /\ (call.op # "start" /\ unit.running /\ ~fifo) =>
           unit.ioproc \in Procs /\ procs[unit.ioproc].started
    /\ "device moved" \notin upset =>
           /\ \A p \in Started : p = unit.ioproc /\ unit.running
           /\ unit.ioproc # None => procs[unit.ioproc].device = unit.device

UnitInv == TypeOK /\ CallForm /\ CallFlags /\ ThreadsKnown /\ ProcsKnown

-----------------------------------------------------------------------------
LEMMA InitInv == Init => UnitInv
<1> SUFFICES ASSUME Init PROVE UnitInv
  OBVIOUS
<1> USE UnitAssumption
<1>1. TypeOK
  BY DEF Init, TypeOK, Idle
<1>2. CallForm /\ CallFlags
  BY DEF Init, CallForm, CallFlags, Idle
<1>3. ThreadsKnown
  BY DEF Init, ThreadsKnown, Live
<1>4. ProcsKnown
  BY DEF Init, ProcsKnown, Started, Idle
<1> QED
  BY <1>1, <1>2, <1>3, <1>4 DEF UnitInv

\* A thread's step touches nothing of the unit and makes no thread live.
LEMMA ThreadStep ==
    ASSUME TypeOK, NEW t \in Threads, Thread(t)
    PROVE  /\ TypeOK'
           /\ Live' \subseteq Live
           /\ UNCHANGED <<fifo, unit, call, procs, upset>>
<1> USE DEF Goto, hostVars
<1>1. /\ UNCHANGED <<fifo, unit, call, procs, host, upset>>
      /\ threads[t] \notin {"none", "exited"}
      /\ \E to \in {"loop", "exited", "open", "work", "write", "lost"} :
             threads' = [threads EXCEPT ![t] = to]
  BY DEF Thread, Allocate, TestProducing, Work, OpenFifo, WriteFifo
<1>2. pipe' \in 0..PipeSize
  <2>1. CASE WriteFifo(t)
    <3>1. pipe' = pipe \/ (pipe < PipeSize /\ pipe' = pipe + 1)
      BY <2>1 DEF WriteFifo
    <3>2. pipe \in 0..PipeSize /\ PipeSize \in Nat
      BY UnitAssumption DEF TypeOK
    <3> QED
      BY <3>1, <3>2
  <2>2. CASE Allocate(t) \/ TestProducing(t) \/ Work(t) \/ OpenFifo(t)
    BY <2>2 DEF Allocate, TestProducing, Work, OpenFifo, TypeOK
  <2> QED
    BY <2>1, <2>2 DEF Thread
<1>3. fd' \in [Threads -> BOOLEAN]
  BY DEF Thread, Allocate, TestProducing, Work, OpenFifo, WriteFifo, TypeOK
<1>4. TypeOK'
  <2>1. threads' \in [Threads -> {"none", "alloc", "loop", "open", "lost", "work", "write",
                                  "exited"}]
    <3>1. PICK to \in {"loop", "exited", "open", "work", "write", "lost"} :
              threads' = [threads EXCEPT ![t] = to]
      BY <1>1
    <3>2. threads \in [Threads -> {"none", "alloc", "loop", "open", "lost", "work", "write",
                                   "exited"}]
      BY DEF TypeOK
    <3> QED
      BY <3>1, <3>2
  <2>2. fifo' \in BOOLEAN /\ upset' \subseteq {"start failed", "device moved"}
    BY <1>1 DEF TypeOK
  <2>3. unit' \in [magic : BOOLEAN, device : Devices, output_enabled : BOOLEAN,
                   running : BOOLEAN, producing : BOOLEAN, ioproc : Procs \cup {None},
                   thread : Threads \cup {None}]
    BY <1>1 DEF TypeOK
  <2>4. /\ call' \in [op : {"none", "start", "stop", "uninit", "dispose"},
                      at : {"idle", "create", "device", "join"}]
        /\ procs' \in [Procs -> [device : Devices \cup {None}, started : BOOLEAN]]
        /\ host' \in {"playing", "stuck", "closing", "gone"}
    BY <1>1 DEF TypeOK
  <2> QED
    BY <1>2, <1>3, <2>1, <2>2, <2>3, <2>4 DEF TypeOK
<1>5. Live' \subseteq Live
  BY <1>1 DEF Live, TypeOK
<1> QED
  BY <1>1, <1>4, <1>5

\* Starting or stopping one registration changes nothing of the others.
LEMMA ProcsUpdate ==
    ASSUME TypeOK, NEW p \in Procs, NEW on \in BOOLEAN
    PROVE  LET new == [procs EXCEPT ![p].started = on]
           IN  /\ new \in [Procs -> [device : Devices \cup {None}, started : BOOLEAN]]
               /\ new[p].started = on /\ new[p].device = procs[p].device
               /\ \A q \in Procs : q # p => new[q] = procs[q]
<1>1. procs \in [Procs -> [device : Devices \cup {None}, started : BOOLEAN]]
  BY DEF TypeOK
<1> QED
  BY <1>1

\* A start that gives up after its thread was made leaves the invariant.
LEMMA GivenUp ==
    ASSUME UnitInv, call.op = "start", GiveUpStart,
           UNCHANGED <<fifo, threads, fd, host, pipe, procs>>
    PROVE  UnitInv'
<1> USE DEF UnitInv, GiveUpStart
<1>1. TypeOK'
  BY DEF TypeOK, Idle
<1>2. CallForm' /\ CallFlags'
  BY DEF CallForm, CallFlags, TypeOK, Idle
<1>3. ThreadsKnown'
  BY DEF ThreadsKnown
<1>4. ProcsKnown'
  BY DEF ProcsKnown, CallFlags, TypeOK, Started, Idle
<1> QED
  BY <1>1, <1>2, <1>3, <1>4

LEMMA NextInv == UnitInv /\ [Next]_vars => UnitInv'
<1> SUFFICES ASSUME UnitInv, [Next]_vars PROVE UnitInv'
  OBVIOUS
<1> USE UnitAssumption DEF UnitInv
<1>1. ASSUME NEW on \in BOOLEAN, EnableIO(on) PROVE UnitInv'
  <2> USE DEF EnableIO, hostVars
  <2>1. TypeOK'
    BY <1>1 DEF TypeOK
  <2>2. CallForm' /\ CallFlags'
    BY <1>1 DEF CallForm, CallFlags, TypeOK, Idle
  <2>3. ThreadsKnown' /\ ProcsKnown'
    BY <1>1 DEF ThreadsKnown, ProcsKnown, TypeOK, Live, Started, Idle
  <2> QED
    BY <2>1, <2>2, <2>3
<1>2. ASSUME NEW d \in Devices, CurrentDevice(d) PROVE UnitInv'
  <2> USE DEF CurrentDevice, hostVars
  <2>1. TypeOK'
    BY <1>2 DEF TypeOK
  <2>2. CallForm' /\ CallFlags'
    BY <1>2 DEF CallForm, CallFlags, TypeOK, Idle
  <2>3. ThreadsKnown'
    BY <1>2 DEF ThreadsKnown, TypeOK, Live, Idle
  <2>4. ProcsKnown'
    BY <1>2 DEF ProcsKnown, TypeOK, Started, Idle
  <2> QED
    BY <2>1, <2>2, <2>3, <2>4
<1>3. CASE CreateThread
  <2> USE DEF CreateThread, MayStart, hostVars
  <2>1. PICK t \in Threads :
           /\ threads[t] = "none"
           /\ threads' = [threads EXCEPT ![t] = "alloc"]
           /\ unit' = [unit EXCEPT !.producing = TRUE, !.thread = t, !.running = fifo]
    BY <1>3
  <2>2. TypeOK'
    BY <1>3, <2>1 DEF TypeOK, Idle
  <2>3. CallForm' /\ CallFlags'
    <3>1. unit'.producing /\ unit'.thread = t /\ unit'.running = fifo /\ unit'.magic = unit.magic
      BY <2>1 DEF TypeOK
    <3>2. call' = IF fifo THEN Idle ELSE [op |-> "start", at |-> "create"]
      BY <1>3
    <3>3. CallForm'
      BY <3>2 DEF CallForm, Idle
    <3>4. unit.magic /\ fifo' = fifo
      BY <1>3
    <3> HIDE DEF CreateThread, MayStart, hostVars, UnitInv
    <3>5. CASE fifo
      <4>1. call' = Idle /\ call'.op = "none" /\ call'.at = "idle"
        BY <3>2, <3>5 DEF Idle
      <4> QED
        BY <3>1, <3>3, <3>4, <3>5, <4>1 DEF CallFlags
    <3>6. CASE ~fifo
      <4>1. call' # Idle /\ call'.op = "start" /\ call'.at = "create"
        BY <3>2, <3>6 DEF Idle
      <4> QED
        BY <3>1, <3>3, <3>4, <3>6, <4>1 DEF CallFlags
    <3> QED
      BY <3>3, <3>5, <3>6
  <2>4. ThreadsKnown'
    <3> SUFFICES ASSUME "start failed" \notin upset
                 PROVE  \A u \in Live' : u = t
      BY <1>3, <2>1 DEF ThreadsKnown, TypeOK, Idle
    <3>1. Live = {}
      BY <1>3 DEF ThreadsKnown, Idle
    <3> QED
      BY <2>1, <3>1 DEF Live, TypeOK
  <2>5. ProcsKnown'
    BY <1>3, <2>1 DEF ProcsKnown, TypeOK, Started, Idle
  <2> QED
    BY <2>2, <2>3, <2>4, <2>5
<1>4. CASE CreateThreadFails
  <2> USE DEF CreateThreadFails, MayStart, hostVars
  <2>1. TypeOK'
    BY <1>4 DEF TypeOK
  <2>2. CallForm' /\ CallFlags'
    BY <1>4 DEF CallForm, CallFlags, TypeOK, Idle
  <2>3. ThreadsKnown' /\ ProcsKnown'
    BY <1>4 DEF ThreadsKnown, ProcsKnown, TypeOK, Live, Started, Idle
  <2> QED
    BY <2>1, <2>2, <2>3
<1>5. CASE CreateIOProc
  <2> USE DEF hostVars
  <2>0. /\ call.op = "start" /\ call.at = "create" /\ call # Idle
        /\ UNCHANGED <<fifo, threads, fd, host, pipe>>
    BY <1>5 DEF CreateIOProc, Idle
  <2>1. CASE GiveUpStart /\ UNCHANGED procs
    BY <2>0, <2>1, GivenUp
  <2>2. ASSUME NEW p \in Procs,
               procs' = [procs EXCEPT ![p] = [device |-> unit.device, started |-> FALSE]],
               unit' = [unit EXCEPT !.ioproc = p],
               call' = [op |-> "start", at |-> "device"],
               UNCHANGED upset
        PROVE  UnitInv'
    <3>1. TypeOK'
      BY <2>0, <2>2 DEF TypeOK
    <3>2. CallForm' /\ CallFlags'
      BY <2>0, <2>2 DEF CallForm, CallFlags, TypeOK, Idle
    <3>3. ThreadsKnown'
      BY <2>0, <2>2 DEF ThreadsKnown, CallFlags, TypeOK, Live, Idle
    <3>4. ProcsKnown'
      <4>1. \A q \in Procs : procs'[q].started => procs[q].started
        BY <2>2 DEF TypeOK
      <4>2. "device moved" \notin upset => Started = {}
        BY <2>0 DEF ProcsKnown, CallFlags, Started
      <4>3. /\ unit'.ioproc = p /\ unit'.device = unit.device
            /\ procs'[p].device = unit.device
        BY <2>2 DEF TypeOK
      <4>4. ~fifo
        BY <2>0 DEF CallFlags
      <4> QED
        BY <2>0, <2>2, <4>1, <4>2, <4>3, <4>4 DEF ProcsKnown, Started
    <3> QED
      BY <3>1, <3>2, <3>3, <3>4
  <2> QED
    BY <1>5, <2>1, <2>2 DEF CreateIOProc
<1>6. CASE StartDevice
  <2> USE DEF hostVars
  <2>0. /\ call.op = "start" /\ call.at = "device" /\ call # Idle
        /\ UNCHANGED <<fifo, threads, fd, host, pipe>>
        /\ unit.ioproc \in Procs
    BY <1>6 DEF StartDevice, Idle, ProcsKnown
  <2>1. CASE GiveUpStart /\ UNCHANGED procs
    BY <2>0, <2>1, GivenUp
  <2>2. CASE /\ procs' = [procs EXCEPT ![unit.ioproc].started = TRUE]
             /\ unit' = [unit EXCEPT !.running = TRUE]
             /\ call' = Idle
             /\ UNCHANGED upset
    <3>1. TypeOK'
      <4>1. procs' \in [Procs -> [device : Devices \cup {None}, started : BOOLEAN]]
        BY <2>0, <2>2, ProcsUpdate
      <4> QED
        BY <2>0, <2>2, <4>1 DEF TypeOK, Idle
    <3>2. CallForm' /\ CallFlags'
      BY <2>0, <2>2 DEF CallForm, CallFlags, TypeOK, Idle
    <3>3. ThreadsKnown'
      BY <2>0, <2>2 DEF ThreadsKnown, CallFlags, TypeOK, Live, Idle
    <3>4. ProcsKnown'
      <4>1. /\ \A q \in Procs : procs'[q].started => procs[q].started \/ q = unit.ioproc
            /\ procs'[unit.ioproc].started
            /\ procs'[unit.ioproc].device = procs[unit.ioproc].device
        BY <2>0, <2>2, ProcsUpdate
      <4>2. "device moved" \notin upset => Started = {}
        BY <2>0 DEF ProcsKnown, CallFlags, Started
      <4>3. /\ unit'.ioproc = unit.ioproc /\ unit'.device = unit.device /\ unit'.running
        BY <2>2 DEF TypeOK
      <4>4. ~fifo
        BY <2>0 DEF CallFlags
      <4> QED
        BY <2>0, <2>2, <4>1, <4>2, <4>3, <4>4 DEF ProcsKnown, Started, Idle
    <3> QED
      BY <3>1, <3>2, <3>3, <3>4
  <2> QED
    BY <1>6, <2>1, <2>2 DEF StartDevice
<1>7. ASSUME NEW op \in {"stop", "uninit", "dispose"}, ClearProducing(op) PROVE UnitInv'
  <2> USE DEF ClearProducing, hostVars
  <2>1. TypeOK'
    BY <1>7 DEF TypeOK
  <2>2. CallForm' /\ CallFlags'
    BY <1>7 DEF CallForm, CallFlags, TypeOK, Idle
  <2>3. ThreadsKnown'
    BY <1>7 DEF ThreadsKnown, TypeOK, Live, Idle
  <2>4. ProcsKnown'
    BY <1>7 DEF ProcsKnown, TypeOK, Started, Idle
  <2> QED
    BY <2>1, <2>2, <2>3, <2>4
<1>8. CASE JoinThread
  <2> USE DEF JoinThread, hostVars
  <2>1. TypeOK'
    BY <1>8 DEF TypeOK
  <2>2. CallForm' /\ CallFlags'
    BY <1>8 DEF CallForm, CallFlags, TypeOK, Idle
  <2>3. ThreadsKnown'
    <3>1. "start failed" \notin upset => Live' = {}
      BY <1>8 DEF ThreadsKnown, TypeOK, Live
    <3>2. call' # Idle
      BY <1>8 DEF TypeOK, Idle
    <3> QED
      BY <1>8, <3>1, <3>2 DEF ThreadsKnown
  <2>4. ProcsKnown'
    BY <1>8 DEF ProcsKnown, CallForm, TypeOK, Started, Idle
  <2> QED
    BY <2>1, <2>2, <2>3, <2>4
<1>9. CASE StopDevice
  <2> USE DEF StopDevice, Stopped, hostVars
  <2>1. procs' \in [Procs -> [device : Devices \cup {None}, started : BOOLEAN]]
    <3>1. unit.ioproc \in Procs \cup {None}
      BY DEF TypeOK
    <3>2. StopProc \in [Procs -> [device : Devices \cup {None}, started : BOOLEAN]]
      <4>1. CASE StopProc = procs
        BY <4>1 DEF TypeOK
      <4>2. CASE unit.ioproc # None /\ StopProc = [procs EXCEPT ![unit.ioproc].started = FALSE]
        BY <4>2, <3>1, ProcsUpdate
      <4> QED
        BY <4>1, <4>2 DEF StopProc, OnDevice
    <3>3. DestroyProc \in [Procs -> [device : Devices \cup {None}, started : BOOLEAN]]
      BY <3>1 DEF TypeOK, DestroyProc, OnDevice
    <3> QED
      BY <1>9, <3>2, <3>3
  <2>2. TypeOK'
    <3>1. unit' \in [magic : BOOLEAN, device : Devices, output_enabled : BOOLEAN,
                     running : BOOLEAN, producing : BOOLEAN, ioproc : Procs \cup {None},
                     thread : Threads \cup {None}]
      <4>1. unit \in [magic : BOOLEAN, device : Devices, output_enabled : BOOLEAN,
                      running : BOOLEAN, producing : BOOLEAN, ioproc : Procs \cup {None},
                      thread : Threads \cup {None}]
        BY DEF TypeOK
      <4>2. \/ unit' = [unit EXCEPT !.running = FALSE]
            \/ unit' = [unit EXCEPT !.running = FALSE, !.ioproc = None,
                                    !.magic = call.op # "dispose"]
        BY <1>9, <4>1
      <4>3. (call.op # "dispose") \in BOOLEAN
        OBVIOUS
      <4> QED
        BY <4>1, <4>2, <4>3
    <3> QED
      BY <1>9, <2>1, <3>1 DEF TypeOK, Idle
  <2>3. call.op \in {"stop", "uninit", "dispose"} /\ ~unit.producing
    BY <1>9 DEF CallForm, CallFlags, TypeOK, Idle
  <2>7. /\ call' = Idle /\ threads' = threads /\ fifo' = fifo /\ upset' = upset
        /\ ~unit'.running /\ ~unit'.producing /\ unit'.thread = unit.thread
        /\ unit'.ioproc \in {unit.ioproc, None} /\ unit'.device = unit.device
        /\ call.op # "stop" => unit'.ioproc = None
    <3>1. PICK i, m : /\ unit' = [unit EXCEPT !.running = FALSE, !.ioproc = i, !.magic = m]
                      /\ i \in {unit.ioproc, None}
                      /\ call.op # "stop" => i = None
      <4>1. CASE call.op = "stop"
        <5>1. unit' = [unit EXCEPT !.running = FALSE, !.ioproc = unit.ioproc, !.magic = unit.magic]
          <6>1. unit' = [unit EXCEPT !.running = FALSE]
            BY <1>9, <4>1
          <6> HIDE DEF StopDevice, UnitInv
          <6> QED
            BY <6>1 DEF TypeOK
        <5> QED
          BY <4>1, <5>1
      <4>2. CASE call.op # "stop"
        <5>1. unit' = [unit EXCEPT !.running = FALSE, !.ioproc = None,
                                   !.magic = call.op # "dispose"]
          BY <1>9, <4>2
        <5> QED
          BY <5>1
      <4> QED
        BY <4>1, <4>2
    <3> HIDE DEF StopDevice, UnitInv
    <3>2. /\ ~unit'.running /\ unit'.producing = unit.producing /\ unit'.thread = unit.thread
          /\ unit'.ioproc = i /\ unit'.device = unit.device
      <4>1. TypeOK
        BY DEF UnitInv
      <4> QED
        BY <3>1, <4>1 DEF TypeOK
    <3>3. call' = Idle /\ threads' = threads /\ fifo' = fifo /\ upset' = upset
      BY <1>9 DEF StopDevice
    <3> QED
      BY <2>3, <3>1, <3>2, <3>3
  <2>4. CallForm' /\ CallFlags'
    <3> HIDE DEF StopDevice
    <3> QED
      BY <2>7 DEF CallForm, CallFlags, Idle
  <2>5. ThreadsKnown'
    <3> HIDE DEF StopDevice
    <3>1. Live' = Live /\ ("start failed" \notin upset => \A t \in Live : t = unit.thread)
      BY <2>7 DEF Live, ThreadsKnown
    <3>2. "start failed" \notin upset => Live = {}
      BY <1>9, <2>3 DEF ThreadsKnown, StopDevice
    <3> QED
      BY <2>7, <3>1, <3>2 DEF ThreadsKnown
  <2>6. ProcsKnown'
    <3>1. /\ call' = Idle /\ unit'.running = FALSE /\ fifo' = fifo /\ upset' = upset
          /\ unit'.ioproc \in {unit.ioproc, None} /\ unit'.device = unit.device
          /\ call.op = "stop" => procs' = StopProc
          /\ call.op # "stop" => procs' = DestroyProc /\ unit'.ioproc = None
      <4>1. /\ call.op = "stop" => procs' = StopProc
            /\ call.op # "stop" => procs' = DestroyProc
        BY <1>9
      <4> HIDE DEF StopDevice, UnitInv
      <4> QED
        BY <2>7, <4>1
    <3>2. "device moved" \notin upset => Started' = {}
      <4> SUFFICES ASSUME "device moved" \notin upset, NEW p \in Procs, procs'[p].started
                   PROVE  FALSE
        BY DEF Started
      <4>1. unit.ioproc # None => OnDevice(unit.ioproc)
        BY DEF ProcsKnown, OnDevice
      <4>2. \A q \in Procs : procs[q].started => q = unit.ioproc /\ unit.running
        BY DEF ProcsKnown, Started
      <4>3. CASE unit.ioproc = None
        BY <4>2, <4>3, <3>1 DEF StopProc, DestroyProc, OnDevice
      <4>4. CASE unit.ioproc # None /\ call.op = "stop"
        <5>1. unit.ioproc \in Procs
          BY <4>4 DEF TypeOK
        <5>2. CASE unit.running
          <6>1. procs' = [procs EXCEPT ![unit.ioproc].started = FALSE]
            BY <4>1, <4>4, <5>2, <3>1 DEF StopProc
          <6> QED
            BY <6>1, <5>1, <4>2, ProcsUpdate
        <5>3. CASE ~unit.running
          BY <5>3, <4>2, <4>4, <3>1 DEF StopProc
        <5> QED
          BY <5>2, <5>3
      <4>5. CASE unit.ioproc # None /\ call.op # "stop"
        <5>1. procs' = [procs EXCEPT ![unit.ioproc] = [device |-> None, started |-> FALSE]]
          BY <4>1, <4>5, <3>1 DEF DestroyProc
        <5> QED
          BY <5>1, <4>2 DEF TypeOK
      <4> QED
        BY <4>3, <4>4, <4>5
    <3>3. ("device moved" \notin upset /\ call.op = "stop" /\ unit.ioproc # None) =>
             procs'[unit.ioproc].device = unit.device
      <4> SUFFICES ASSUME "device moved" \notin upset, call.op = "stop", unit.ioproc # None
                   PROVE  procs'[unit.ioproc].device = unit.device
        OBVIOUS
      <4>1. unit.ioproc \in Procs /\ procs[unit.ioproc].device = unit.device
        BY DEF ProcsKnown, TypeOK
      <4>2. procs' = procs \/ procs' = [procs EXCEPT ![unit.ioproc].started = FALSE]
        BY <3>1 DEF StopProc
      <4>3. CASE procs' = procs
        BY <4>1, <4>3
      <4>4. CASE procs' = [procs EXCEPT ![unit.ioproc].started = FALSE]
        BY <4>1, <4>4, ProcsUpdate
      <4> QED
        BY <4>2, <4>3, <4>4
    <3>4. fifo' => unit'.ioproc = None
      BY <3>1 DEF ProcsKnown
    <3>5. unit'.ioproc # None => unit'.ioproc = unit.ioproc /\ call.op = "stop"
      BY <3>1
    <3> HIDE DEF StopDevice
    <3> QED
      BY <3>1, <3>2, <3>3, <3>4, <3>5 DEF ProcsKnown, Idle
  <2> QED
    BY <2>2, <2>4, <2>5, <2>6
<1>10. ASSUME NEW t \in Threads, Thread(t) PROVE UnitInv'
  <2>1. TypeOK' /\ Live' \subseteq Live /\ UNCHANGED <<fifo, unit, call, procs, upset>>
    BY <1>10, ThreadStep
  <2>2. CallForm' /\ CallFlags'
    BY <2>1 DEF CallForm, CallFlags
  <2>3. ThreadsKnown' /\ ProcsKnown'
    BY <2>1 DEF ThreadsKnown, ProcsKnown, Started
  <2> QED
    BY <2>1, <2>2, <2>3
<1>11. CASE Host
  <2>1. /\ UNCHANGED <<fifo, unit, call, threads, fd, procs, upset>>
        /\ host' \in {"playing", "stuck", "closing", "gone"}
    BY <1>11 DEF Host, Drain, PlayerEnds, CloseKeep, Unlink, TypeOK
  <2>5. pipe' \in 0..PipeSize
    <3>1. pipe' = pipe \/ pipe' = 0 \/ (pipe > 0 /\ pipe' = pipe - 1)
      BY <1>11 DEF Host, Drain, PlayerEnds, CloseKeep, Unlink
    <3>2. pipe \in 0..PipeSize /\ PipeSize \in Nat
      BY DEF TypeOK
    <3> QED
      BY <3>1, <3>2
  <2>2. TypeOK'
    <3>1. /\ fifo' = fifo /\ unit' = unit /\ call' = call /\ threads' = threads
          /\ fd' = fd /\ procs' = procs /\ upset' = upset
      BY <2>1
    <3>2. TypeOK
      OBVIOUS
    <3> HIDE DEF UnitInv
    <3>3. /\ unit' \in [magic : BOOLEAN, device : Devices, output_enabled : BOOLEAN,
                        running : BOOLEAN, producing : BOOLEAN, ioproc : Procs \cup {None},
                        thread : Threads \cup {None}]
          /\ call' \in [op : {"none", "start", "stop", "uninit", "dispose"},
                        at : {"idle", "create", "device", "join"}]
          /\ procs' \in [Procs -> [device : Devices \cup {None}, started : BOOLEAN]]
      BY <3>1, <3>2 DEF TypeOK
    <3>4. /\ fifo' \in BOOLEAN /\ fd' \in [Threads -> BOOLEAN]
          /\ threads' \in [Threads -> {"none", "alloc", "loop", "open", "lost", "work", "write",
                                      "exited"}]
          /\ upset' \subseteq {"start failed", "device moved"}
      BY <3>1, <3>2 DEF TypeOK
    <3> QED
      BY <2>1, <2>5, <3>3, <3>4 DEF TypeOK
  <2>3. CallForm' /\ CallFlags'
    BY <2>1 DEF CallForm, CallFlags
  <2>4. ThreadsKnown' /\ ProcsKnown'
    BY <2>1 DEF ThreadsKnown, ProcsKnown, Started, Live
  <2> QED
    BY <2>2, <2>3, <2>4
<1>12. CASE UNCHANGED vars
  <2>1. TypeOK' /\ CallForm' /\ CallFlags'
    <3>1. /\ fifo' = fifo /\ unit' = unit /\ call' = call /\ threads' = threads
          /\ fd' = fd /\ procs' = procs /\ host' = host /\ pipe' = pipe /\ upset' = upset
      BY <1>12 DEF vars, hostVars
    <3>3. TypeOK
      OBVIOUS
    <3> HIDE DEF UnitInv
    <3>2. TypeOK'
      <4>1. unit' = unit /\ call' = call /\ procs' = procs
        BY <3>1
      <4>2. /\ unit' \in [magic : BOOLEAN, device : Devices, output_enabled : BOOLEAN,
                          running : BOOLEAN, producing : BOOLEAN, ioproc : Procs \cup {None},
                          thread : Threads \cup {None}]
            /\ call' \in [op : {"none", "start", "stop", "uninit", "dispose"},
                          at : {"idle", "create", "device", "join"}]
            /\ procs' \in [Procs -> [device : Devices \cup {None}, started : BOOLEAN]]
        BY <3>3, <4>1 DEF TypeOK
      <4> QED
        BY <3>1, <3>3, <4>2 DEF TypeOK
    <3>4. CallForm /\ CallFlags
      BY DEF UnitInv
    <3> QED
      BY <3>1, <3>2, <3>4 DEF CallForm, CallFlags
  <2>2. ThreadsKnown' /\ ProcsKnown'
    BY <1>12 DEF vars, ThreadsKnown, ProcsKnown, Started, Live
  <2> QED
    BY <2>1, <2>2
<1> QED
  BY <1>1, <1>2, <1>3, <1>4, <1>5, <1>6, <1>7, <1>8, <1>9, <1>10, <1>11, <1>12
  DEF Next, Client

\* The strengthened invariant holds throughout.
THEOREM Invariance == Spec => []UnitInv
<1> QED
  BY InitInv, NextInv, PTL DEF Spec

\* The unit's fields, FMOD's call, the threads and the registrations keep their types.
THEOREM TypeCorrect == Spec => []TypeOK
<1>1. UnitInv => TypeOK
  BY DEF UnitInv
<1> QED
  BY <1>1, Invariance, PTL

\* Without a failed start the unit has one render thread at most, the one it joins.
THEOREM RenderThreads == Spec => []OneRenderThread
<1>1. UnitInv => OneRenderThread
  BY DEF UnitInv, CallForm, ThreadsKnown, OneRenderThread
<1> QED
  BY <1>1, Invariance, PTL

\* Nothing uses a unit after t_dispose, unless a start failed or the device was moved.
THEOREM FreedIsUnused == Spec => []FreedUnitUnused
<1>1. UnitInv => FreedUnitUnused
  BY DEF UnitInv, CallForm, CallFlags, ThreadsKnown, ProcsKnown, FreedUnitUnused, Idle
<1> QED
  BY <1>1, Invariance, PTL

\* IsRunning (property 2001) tells FMOD what the thread and the device really do.
THEOREM RunningTold == Spec => []RunningIsTrue
<1>1. UnitInv => RunningIsTrue
  BY DEF UnitInv, CallFlags, ProcsKnown, RunningIsTrue, Idle
<1> QED
  BY <1>1, Invariance, PTL
=============================================================================
