------------------------------ MODULE KqueueNet ------------------------------
(***************************************************************************)
(* net_trace.c's safety net around kevent.  Roblox's network thread waits  *)
(* on one kqueue; other threads register, change and close sockets on it.  *)
(* Darling may lose the edge that says data arrived.  traced_kevent keeps  *)
(* a table of the UDP sockets registered for reading, waits in slices, and *)
(* between slices looks for data nobody was told of.                       *)
(*                                                                         *)
(* A registration is named by its number, which is also its udata.  Time   *)
(* is left out: a slice may end at any moment, and the wait after any      *)
(* slice, as one with a limit does.                                        *)
(***************************************************************************)
EXTENDS Naturals, FiniteSets

CONSTANTS
    UdpFds,        \* descriptors a UDP socket may be given
    OtherFds,      \* descriptors another file may be given
    Slots,         \* slots of the watched table (MAX_WATCHED, 256)
    Capacity,      \* events a call may return
    Buffer,        \* datagrams a socket's receive buffer holds
    MaxRegs,       \* bound on the registrations
    MaxArrivals,   \* bound on the datagrams
    None           \* no descriptor

ASSUME NetAssumption ==
    /\ None \notin UdpFds \cup OtherFds
    /\ IsFiniteSet(UdpFds \cup OtherFds)
    /\ Slots \in Nat /\ Capacity \in Nat \ {0} /\ Buffer \in Nat \ {0}
    /\ MaxRegs \in Nat /\ MaxArrivals \in Nat

Fds == UdpFds \cup OtherFds

VARIABLES
    sock,       \* what each descriptor is
    data,       \* datagrams in its receive buffer
    reg, on,    \* the kernel's registration (0: none), and whether it is enabled
    edge,       \* descriptors with an edge the kernel has still to report
    watched,    \* the table
    wait,       \* the network thread's kevent call and what it does with the result
    admin,      \* another thread's kevent call: the change recorded but not yet applied
    regs,       \* registrations so far
    arrivals,   \* datagrams so far
    ended,      \* observation: registrations that ended since the table was read for wait.out
    orphans     \* observation: registrations whose descriptor was closed under them

socketVars == <<sock, data, arrivals>>
kernelVars == <<reg, on, edge>>
vars == <<socketVars, kernelVars, watched, wait, admin, regs, ended, orphans>>

Free == [fd |-> None, udata |-> 0, enabled |-> FALSE]
NoWait == [at |-> "idle", change |-> None, number |-> 0, todo |-> {}, out |-> {}]
NoChange == [op |-> "none", fd |-> None, number |-> 0]

Init ==
    /\ sock = [f \in Fds |-> "closed"] /\ data = [f \in Fds |-> 0]
    /\ reg = [f \in Fds |-> 0] /\ on = [f \in Fds |-> FALSE] /\ edge = {}
    /\ watched = [s \in 1..Slots |-> Free]
    /\ wait = NoWait /\ admin = NoChange
    /\ regs = 0 /\ arrivals = 0 /\ ended = {} /\ orphans = {}

Ends(numbers) ==
    ended' = IF wait.at \in {"peek", "add", "handle"} THEN ended \cup (numbers \ {0}) ELSE {}

-----------------------------------------------------------------------------
(* Sockets and the network.                                                *)

Open(f, kind) ==
    /\ sock[f] = "closed" /\ admin = NoChange
    /\ sock' = [sock EXCEPT ![f] = kind]
    /\ data' = [data EXCEPT ![f] = 0]
    /\ UNCHANGED <<arrivals, kernelVars, watched, wait, admin, regs, ended, orphans>>

\* close: the kernel forgets the registration, the table does not.
Close(f) ==
    /\ sock[f] # "closed" /\ admin = NoChange
    /\ sock' = [sock EXCEPT ![f] = "closed"]
    /\ data' = [data EXCEPT ![f] = 0]
    /\ reg' = [reg EXCEPT ![f] = 0] /\ on' = [on EXCEPT ![f] = FALSE]
    /\ edge' = edge \ {f}
    /\ Ends({reg[f]})
    /\ orphans' = orphans \cup (({reg[f]} \cup (IF wait.change = f THEN {wait.number} ELSE {})) \ {0})
    /\ UNCHANGED <<arrivals, watched, wait, admin, regs>>

\* A datagram arrives; a full buffer drops it.  Darling may lose the edge.
Arrive(f) ==
    /\ sock[f] # "closed" /\ arrivals < MaxArrivals
    /\ arrivals' = arrivals + 1
    /\ IF data[f] < Buffer
       THEN /\ data' = [data EXCEPT ![f] = @ + 1]
            /\ edge' \in {edge, IF on[f] THEN edge \cup {f} ELSE edge}
       ELSE UNCHANGED <<data, edge>>
    /\ UNCHANGED <<sock, reg, on, watched, wait, admin, regs, ended, orphans>>

-----------------------------------------------------------------------------
(* The table: record_changes, add_missed_events, queue_has_watched.        *)

Watching(f) == {s \in 1..Slots : watched[s].fd = f}

\* Mutant: an enabled socket stays marked as disabled.
RecordedDisabled(op, f, number) ==
    LET free == {s \in 1..Slots : watched[s].fd = None}
        place == IF Watching(f) # {} THEN Watching(f) ELSE free
    IN CASE op = "add" /\ sock[f] = "udp" /\ place # {} ->
              {[watched EXCEPT ![s] = [fd |-> f, udata |-> number, enabled |-> TRUE]] : s \in place}
         [] op \in {"enable", "disable"} /\ Watching(f) # {} ->
              {[watched EXCEPT ![s].enabled = FALSE] : s \in Watching(f)}
         [] op = "delete" /\ Watching(f) # {} -> {[watched EXCEPT ![s] = Free] : s \in Watching(f)}
         [] OTHER -> {watched}

\* Mutant: a deleted socket is only disabled.
RecordedDeleteKept(op, f, number) ==
    LET free == {s \in 1..Slots : watched[s].fd = None}
        place == IF Watching(f) # {} THEN Watching(f) ELSE free
    IN CASE op = "add" /\ sock[f] = "udp" /\ place # {} ->
              {[watched EXCEPT ![s] = [fd |-> f, udata |-> number, enabled |-> TRUE]] : s \in place}
         [] op \in {"enable", "disable"} /\ Watching(f) # {} ->
              {[watched EXCEPT ![s].enabled = (op = "enable")] : s \in Watching(f)}
         [] OTHER -> {watched}

\* What record_changes makes of the table: a UDP socket that is added takes its slot or
\* a free one, if there is any.  (Which of several free slots does not matter.)
Recorded(op, f, number) ==
    LET free == {s \in 1..Slots : watched[s].fd = None}
        place == IF Watching(f) # {} THEN Watching(f) ELSE free
    IN CASE op = "add" /\ sock[f] = "udp" /\ place # {} ->
              {[watched EXCEPT ![s] = [fd |-> f, udata |-> number, enabled |-> TRUE]] : s \in place}
         [] op \in {"enable", "disable"} /\ Watching(f) # {} ->
              {[watched EXCEPT ![s].enabled = (op = "enable")] : s \in Watching(f)}
         [] op = "delete" /\ Watching(f) # {} -> {[watched EXCEPT ![s] = Free] : s \in Watching(f)}
         [] OTHER -> {watched}

Enabled == {watched[s] : s \in {u \in 1..Slots : watched[u].fd # None /\ watched[u].enabled}}
QueueHasWatched == Enabled # {}

\* What the kernel makes of a change.  Data that waits at an add or enable is an edge,
\* which may be lost too.
Apply(op, f, number) ==
    CASE op = "add" ->
           /\ reg' = [reg EXCEPT ![f] = number] /\ on' = [on EXCEPT ![f] = TRUE]
           /\ edge' \in {edge \ {f}, IF data[f] > 0 THEN edge \cup {f} ELSE edge}
           /\ Ends({reg[f]} \ {number})
      [] op = "enable" ->
           /\ on' = [on EXCEPT ![f] = TRUE]
           /\ edge' \in {edge, IF data[f] > 0 THEN edge \cup {f} ELSE edge}
           /\ UNCHANGED <<reg, ended>>
      [] op = "disable" ->
           /\ on' = [on EXCEPT ![f] = FALSE] /\ edge' = edge \ {f}
           /\ UNCHANGED <<reg, ended>>
      [] op = "delete" ->
           /\ reg' = [reg EXCEPT ![f] = 0] /\ on' = [on EXCEPT ![f] = FALSE] /\ edge' = edge \ {f}
           /\ Ends({reg[f]})

-----------------------------------------------------------------------------
(* Another thread's call: changes only, no wait.                           *)

RecordChange(op, f) ==
    /\ admin = NoChange /\ wait.change # f
    /\ sock[f] # "closed"
    /\ IF op = "add" THEN regs < MaxRegs ELSE reg[f] # 0
    /\ admin' = [op |-> op, fd |-> f, number |-> IF op = "add" THEN regs + 1 ELSE 0]
    /\ regs' = IF op = "add" THEN regs + 1 ELSE regs
    /\ watched' \in Recorded(op, f, regs + 1)
    /\ UNCHANGED <<socketVars, kernelVars, wait, ended, orphans>>

ApplyChange ==
    /\ admin # NoChange
    /\ Apply(admin.op, admin.fd, admin.number)
    /\ admin' = NoChange
    /\ UNCHANGED <<socketVars, watched, wait, regs, orphans>>

-----------------------------------------------------------------------------
(* The network thread's traced_kevent, with at most one change of its own  *)
(* (an add).  `at` is where the call is.                                   *)

Go(at) == wait' = [wait EXCEPT !.at = at]
NetUnchanged == UNCHANGED <<socketVars, watched, admin, regs, orphans>>

Kevent(f) ==
    /\ wait.at = "idle"
    /\ wait' = [NoWait EXCEPT !.at = "entered", !.change = f,
                          !.number = IF f = None THEN 0 ELSE regs + 1]
    /\ IF f = None
       THEN UNCHANGED <<watched, regs>>
       ELSE /\ sock[f] # "closed" /\ regs < MaxRegs /\ admin = NoChange
            /\ regs' = regs + 1
            /\ watched' \in Recorded("add", f, regs + 1)
    /\ UNCHANGED <<socketVars, kernelVars, admin, ended, orphans>>

\* Without a watched socket the call goes straight to the kernel.
Enter ==
    /\ wait.at = "entered"
    /\ Go(IF QueueHasWatched THEN "look" ELSE "plain")
    /\ UNCHANGED <<kernelVars, ended>> /\ NetUnchanged

\* add_missed_events copies the table under its lock ...
Snapshot ==
    /\ wait.at = "look"
    /\ wait' = [wait EXCEPT !.at = "peek", !.todo = Enabled]
    /\ ended' = {}
    /\ UNCHANGED kernelVars /\ NetUnchanged

\* ... and peeks at each socket after releasing it.
Peek ==
    /\ wait.at = "peek"
    /\ IF wait.todo = {} \/ Cardinality(wait.out) = Capacity
       THEN /\ wait' = [wait EXCEPT !.todo = {},
                          !.at = IF wait.out = {} THEN "slice"
                                 ELSE IF wait.change # None THEN "add" ELSE "handle"]
            /\ ended' = IF wait.out = {} THEN {} ELSE ended
       ELSE \E w \in wait.todo :
              /\ wait' = [wait EXCEPT !.todo = @ \ {w},
                            !.out = IF data[w.fd] > 0 THEN @ \cup {[fd |-> w.fd, udata |-> w.udata]} ELSE @]
              /\ UNCHANGED ended
    /\ UNCHANGED kernelVars /\ NetUnchanged

\* The call's own change reaches the kernel; it fails if the fd was closed
\* meanwhile, and the call returns.
ApplyOwn ==
    /\ wait.at \in {"plain", "slice", "add"} /\ wait.change # None
    /\ wait' = [wait EXCEPT !.change = None, !.number = 0,
                             !.at = IF sock[wait.change] = "closed" THEN "handle" ELSE @]
    /\ IF sock[wait.change] = "closed"
       THEN /\ Ends({wait.number}) /\ orphans' = orphans \cup {wait.number}
            /\ UNCHANGED kernelVars
       ELSE Apply("add", wait.change, wait.number) /\ UNCHANGED orphans
    /\ UNCHANGED <<socketVars, watched, admin, regs>>

\* The kernel reports edges and forgets them (EV_CLEAR).
Report(fds) ==
    /\ fds \subseteq edge
    /\ edge' = edge \ fds
    /\ wait' = [wait EXCEPT !.at = "handle", !.out = @ \cup {[fd |-> f, udata |-> reg[f]] : f \in fds}]
    /\ UNCHANGED <<reg, on, ended>> /\ NetUnchanged

\* Mutant: the kernel may fill the whole buffer behind the synthesized events.
KernelReturnsMore(fds) ==
    /\ wait.change = None
    /\ Cardinality(fds) <= Capacity
    /\ \/ wait.at \in {"plain", "slice"} /\ fds # {}
       \/ wait.at = "add" /\ (fds # {} \/ edge = {} \/ Cardinality(wait.out) = Capacity)
    /\ Report(fds)

\* Events come, or, with events already synthesized, none need to.
KernelReturns(fds) ==
    /\ wait.change = None
    /\ Cardinality(fds) + Cardinality(wait.out) <= Capacity
    /\ \/ wait.at \in {"plain", "slice"} /\ fds # {}
       \/ wait.at = "add" /\ (fds # {} \/ edge = {} \/ Cardinality(wait.out) = Capacity)
    /\ Report(fds)

\* Mutant: after an empty slice the kernel is asked again without a look.
SliceEndsBlind ==
    /\ wait.at = "slice" /\ wait.change = None /\ edge = {}
    /\ Go("slice")
    /\ UNCHANGED <<kernelVars, ended>> /\ NetUnchanged

\* A slice passes without an event: look again.
SliceEnds ==
    /\ wait.at = "slice" /\ wait.change = None /\ edge = {}
    /\ Go("look")
    /\ UNCHANGED <<kernelVars, ended>> /\ NetUnchanged

\* A wait with a limit ends; one without never does, so this step is not fair.
LimitEnds ==
    /\ wait.at \in {"plain", "slice"} /\ wait.change = None /\ edge = {}
    /\ Go("idle")
    /\ UNCHANGED <<kernelVars, ended>> /\ NetUnchanged

\* Asio reads the socket of each event until there is nothing left.
Handle ==
    /\ wait.at = "handle"
    /\ IF wait.out = {}
       THEN Go("idle") /\ ended' = {} /\ UNCHANGED data
       ELSE /\ UNCHANGED ended
            /\ \E e \in wait.out :
              IF data[e.fd] > 0 /\ e.udata = reg[e.fd]
              THEN data' = [data EXCEPT ![e.fd] = @ - 1] /\ UNCHANGED wait
              ELSE wait' = [wait EXCEPT !.out = @ \ {e}] /\ UNCHANGED data
    /\ UNCHANGED <<sock, arrivals, kernelVars, watched, admin, regs, orphans>>

-----------------------------------------------------------------------------
Waiter ==
    \/ Enter \/ Snapshot \/ Peek \/ ApplyOwn \/ SliceEnds \/ Handle
    \/ \E fds \in SUBSET edge : KernelReturns(fds)

Call == \E f \in Fds \cup {None} : Kevent(f)

Others ==
    \/ ApplyChange \/ LimitEnds
    \/ \E f \in Fds :
         \/ Arrive(f) \/ Close(f)
         \/ f \in UdpFds /\ Open(f, "udp")
         \/ f \in OtherFds /\ Open(f, "other")
         \/ \E op \in {"add", "delete", "enable", "disable"} : RecordChange(op, f)

NetThread == Waiter \/ Call

Next == NetThread \/ Others

Spec == Init /\ [][Next]_vars

\* The network thread runs, a slice ends in time, and the thread waits again after it
\* handled its events; a change recorded is applied.
FairSpec == Spec /\ WF_vars(NetThread) /\ WF_vars(ApplyChange)

-----------------------------------------------------------------------------
\* The state has its types, and a call returns no more events than it has room for.
TypeOK ==
    /\ sock \in [Fds -> {"closed", "udp", "other"}]
    /\ data \in [Fds -> 0..Buffer]
    /\ reg \in [Fds -> 0..MaxRegs] /\ on \in [Fds -> BOOLEAN] /\ edge \subseteq Fds
    /\ watched \in [1..Slots -> [fd : Fds \cup {None}, udata : 0..MaxRegs, enabled : BOOLEAN]]
    /\ wait \in [at : {"idle", "entered", "plain", "look", "peek", "slice", "add", "handle"},
                 change : Fds \cup {None}, number : 0..MaxRegs,
                 todo : SUBSET [fd : Fds, udata : 0..MaxRegs, enabled : BOOLEAN],
                 out : SUBSET [fd : Fds, udata : 0..MaxRegs]]
    /\ Cardinality(wait.out) <= Capacity
    /\ admin \in [op : {"none", "add", "delete", "enable", "disable"}, fd : Fds \cup {None},
                  number : 0..MaxRegs]
    /\ regs \in 0..MaxRegs /\ arrivals \in 0..MaxArrivals
    /\ ended \subseteq 1..MaxRegs /\ orphans \subseteq 1..MaxRegs

\* A socket the safety net watches as the kernel does.
Served(f) ==
    /\ reg[f] # 0 /\ on[f]
    /\ \E w \in Enabled : w.fd = f /\ w.udata = reg[f]

\* The reason for net_trace.c: whatever edges Darling loses, data that waits in a
\* watched UDP socket is read, unless the thread had begun to wait before any socket
\* of its queue was watched (traced_kevent, 557-558).
DataIsRead ==
    \A f \in Fds : (data[f] > 0 /\ Served(f) /\ wait.at # "plain") ~> (data[f] = 0 \/ ~Served(f))

\* A registration that is over frees its udata.  So an event the call hands out belongs
\* to a live registration, to one whose change is on its way to the kernel, or to one
\* that ended after the table was read.  A socket closed without EV_DELETE is not
\* covered: record_changes does not see the close.
DeletedIsSilent ==
    \A e \in wait.out : e.udata \in {reg[e.fd], admin.number, wait.number} \cup ended \cup orphans

\* "UDP sockets registered for EVFILT_READ are remembered, waits are split into 50 ms
\* slices, and between slices those sockets are checked with MSG_PEEK" (net_trace.c:
\* 10-12): data in such a socket is read.
AllDataRead ==
    \A f \in Fds : (data[f] > 0 /\ Served(f)) ~> (data[f] = 0 \/ ~Served(f))
=============================================================================
