-------------------------- MODULE KqueueNet_proofs --------------------------
(***************************************************************************)
(* A registration that is over frees its udata, and the wrapper hands out  *)
(* no event for it, for any number of sockets, slots and registrations.    *)
(* The invariant says that the table and the kernel differ by the change   *)
(* under way and by sockets that were closed, and what a look at the table *)
(* may still hold when the kernel has changed.                             *)
(***************************************************************************)
EXTENDS KqueueNet, FiniteSetTheorems, TLAPS

Steps == {"idle", "entered", "plain", "look", "peek", "slice", "add", "handle"}
Waits == [at : Steps, change : Fds \cup {None}, number : 0..MaxRegs,
          todo : SUBSET [fd : Fds, udata : 0..MaxRegs, enabled : BOOLEAN],
          out : SUBSET [fd : Fds, udata : 0..MaxRegs]]

\* The change that another thread, or the waiting thread, has recorded for f.
Coming(f, u) == \/ admin.op = "add" /\ admin.fd = f /\ u = admin.number
                \/ wait.change = f /\ u = wait.number

\* What the table may know of f: its registration, or the newer one already recorded,
\* or one of a descriptor that was closed.
Current(f, u) ==
    \/ u \in orphans
    \/ sock[f] = "udp" /\ Coming(f, u)
    \/ sock[f] = "udp" /\ u = reg[f] /\ wait.change # f
       /\ (admin.fd # f \/ admin.op \in {"enable", "disable"})

\* What a call may still hold of f.
Alive(f, u) == u \in ended \cup orphans \/ Coming(f, u) \/ u = reg[f]

\* An entry of the table, alone for its descriptor.
Tabled(s) ==
    watched[s].fd # None =>
        /\ watched[s].udata # 0
        /\ Current(watched[s].fd, watched[s].udata)
        /\ \A t \in 1..Slots \ {s} : watched[t].fd # watched[s].fd

\* A change another thread has recorded: its descriptor stays open until it is applied.
AdminOK ==
    IF admin.op = "none" THEN admin = NoChange
    ELSE /\ admin.fd \in Fds /\ sock[admin.fd] # "closed" /\ wait.change # admin.fd
         /\ IF admin.op = "add" THEN admin.number # 0 ELSE reg[admin.fd] # 0 /\ admin.number = 0
         /\ admin.op = "delete" => \A s \in 1..Slots : watched[s].fd # admin.fd

\* The call under way: where it holds anything, and where its own change can be.
WaitOK ==
    /\ wait.change # None => wait.number # 0
    /\ wait.change # None => wait.at \in {"entered", "plain", "look", "peek", "slice", "add"}
    /\ wait.todo # {} => wait.at = "peek"
    /\ wait.out # {} => wait.at \in {"peek", "add", "handle"}
    /\ \A w \in wait.todo \cup wait.out : w.udata # 0 /\ Alive(w.fd, w.udata)

\* What the kernel has registered: only on an open descriptor, and only there an edge.
KernelOK ==
    /\ \A f \in Fds : reg[f] # 0 => sock[f] # "closed"
    /\ \A f \in Fds : on[f] => reg[f] # 0
    /\ \A f \in edge : reg[f] # 0

NetInv ==
    /\ TypeOK
    /\ \A s \in 1..Slots : Tabled(s)
    /\ AdminOK
    /\ WaitOK
    /\ KernelOK
------------------------------------------------------------------------------

Ops == {"add", "delete", "enable", "disable"}
Entries == [fd : Fds \cup {None}, udata : 0..MaxRegs, enabled : BOOLEAN]
Events == [fd : Fds, udata : 0..MaxRegs]

SocketTypes == /\ sock \in [Fds -> {"closed", "udp", "other"}] /\ data \in [Fds -> 0..Buffer]
               /\ arrivals \in 0..MaxArrivals
KernelTypes == /\ reg \in [Fds -> 0..MaxRegs] /\ on \in [Fds -> BOOLEAN] /\ edge \subseteq Fds
               /\ ended \subseteq 1..MaxRegs
TableTypes == /\ watched \in [1..Slots -> Entries] /\ regs \in 0..MaxRegs
              /\ orphans \subseteq 1..MaxRegs
CallTypes == wait \in Waits /\ Cardinality(wait.out) <= Capacity
AdminTypes == admin \in [op : {"none"} \cup Ops, fd : Fds \cup {None}, number : 0..MaxRegs]

\* The type invariant, part by part, before and after a step.
Types == SocketTypes /\ KernelTypes /\ TableTypes /\ CallTypes /\ AdminTypes
LEMMA TypeParts == (TypeOK <=> Types) /\ (TypeOK' <=> Types')
<1>1. {"none"} \cup Ops = {"none", "add", "delete", "enable", "disable"}
  BY DEF Ops
<1> QED
  BY <1>1 DEF Types, TypeOK, SocketTypes, KernelTypes, TableTypes, CallTypes, AdminTypes,
              Waits, Steps, Entries

\* Where a call holds events or entries of the table.
Holding == wait.at \in {"peek", "add", "handle"}

\* A change leaves at most one entry per descriptor: the new one, or those that were
\* there, without the one it replaces or deletes.
LEMMA RecordedTable ==
    ASSUME TypeOK, \A s \in 1..Slots : Tabled(s),
           NEW op \in Ops, NEW f \in Fds, NEW n \in 1..MaxRegs,
           NEW table \in Recorded(op, f, n)
    PROVE  /\ table \in [1..Slots -> Entries]
           /\ \A s \in 1..Slots : table[s].fd # None =>
                 \/ /\ op = "add" /\ sock[f] = "udp"
                    /\ table[s].fd = f /\ table[s].udata = n
                 \/ /\ table[s].fd = watched[s].fd /\ table[s].udata = watched[s].udata
                    /\ table[s].fd = f => op # "delete" /\ ~(op = "add" /\ sock[f] = "udp")
           /\ \A s, t \in 1..Slots :
                 s # t /\ table[s].fd # None => table[t].fd # table[s].fd
<1> DEFINE free == {s \in 1..Slots : watched[s].fd = None}
           place == IF Watching(f) # {} THEN Watching(f) ELSE free
<1>1. watched \in [1..Slots -> Entries] /\ f # None
  BY NetAssumption DEF TypeOK, Entries, Fds
<1>2. \A s, t \in 1..Slots : s # t /\ watched[s].fd # None => watched[t].fd # watched[s].fd
  BY DEF Tabled
<1>3. CASE op = "add" /\ sock[f] = "udp" /\ place # {}
  <2>1. PICK s \in place :
            table = [watched EXCEPT ![s] = [fd |-> f, udata |-> n, enabled |-> TRUE]]
    BY <1>3 DEF Recorded
  <2>2. s \in 1..Slots /\ \A t \in 1..Slots \ {s} : watched[t].fd # f
    BY <1>1, <1>2, <2>1 DEF Watching
  <2>3. /\ table[s] = [fd |-> f, udata |-> n, enabled |-> TRUE]
        /\ \A t \in 1..Slots \ {s} : table[t] = watched[t]
        /\ [fd |-> f, udata |-> n, enabled |-> TRUE] \in Entries
    BY <1>1, <2>1, <2>2 DEF Entries
  <2>4. table \in [1..Slots -> Entries]
    BY <1>1, <2>1, <2>3
  <2> QED
    BY <1>1, <1>2, <1>3, <2>2, <2>3, <2>4
<1>4. CASE op \in {"enable", "disable"} /\ Watching(f) # {}
  <2>1. PICK s \in Watching(f) : table = [watched EXCEPT ![s].enabled = (op = "enable")]
    BY <1>4 DEF Recorded
  <2>2. s \in 1..Slots /\ (op = "enable") \in BOOLEAN
    BY <2>1 DEF Watching
  <2>3. PICK new : new = [watched[s] EXCEPT !.enabled = (op = "enable")]
    OBVIOUS
  <2>4. watched[s] \in Entries
    BY <1>1, <2>2
  <2>5. new \in Entries /\ new.fd = watched[s].fd /\ new.udata = watched[s].udata
    BY <2>2, <2>3, <2>4 DEF Entries
  <2>6. table = [watched EXCEPT ![s] = new]
    BY <2>1, <2>3
  <2>7. /\ table \in [1..Slots -> Entries]
        /\ \A t \in 1..Slots : table[t].fd = watched[t].fd /\ table[t].udata = watched[t].udata
    BY <1>1, <2>2, <2>5, <2>6
  <2> QED
    BY <1>2, <1>4, <2>7
<1>5. CASE op = "delete" /\ Watching(f) # {}
  <2>1. PICK s \in Watching(f) : table = [watched EXCEPT ![s] = Free]
    BY <1>5 DEF Recorded
  <2>2. s \in 1..Slots /\ \A t \in 1..Slots \ {s} : watched[t].fd # f
    BY <1>1, <1>2, <2>1 DEF Watching
  <2>3. Free \in Entries /\ Free.fd = None
    BY NetAssumption DEF Free, Entries
  <2>4. table \in [1..Slots -> Entries] /\ table[s] = Free
        /\ \A t \in 1..Slots \ {s} : table[t] = watched[t]
    BY <1>1, <2>1, <2>2, <2>3
  <2> QED
    BY <1>2, <1>5, <2>2, <2>3, <2>4
<1>6. CASE /\ ~(op = "add" /\ sock[f] = "udp" /\ place # {})
           /\ Watching(f) = {} \/ op = "add"
  <2>1. table = watched
    BY <1>6 DEF Recorded
  <2>2. ASSUME op = "delete" \/ (op = "add" /\ sock[f] = "udp"), NEW s \in 1..Slots
        PROVE  watched[s].fd # f
    BY <1>6, <2>2 DEF Watching
  <2> QED
    BY <1>1, <1>2, <2>1, <2>2
<1> QED
  BY <1>3, <1>4, <1>5, <1>6 DEF Ops

\* Registrations that end are remembered while a call holds anything.
LEMMA EndsKept ==
    ASSUME TypeOK, NEW numbers \in SUBSET (0..MaxRegs), Ends(numbers)
    PROVE  /\ ended' \subseteq 1..MaxRegs
           /\ Holding => ended \subseteq ended' /\ numbers \ {0} \subseteq ended'
<1>1. ended \subseteq 1..MaxRegs /\ MaxRegs \in Nat
  BY NetAssumption DEF TypeOK
<1>2. numbers \ {0} \subseteq 1..MaxRegs
  BY <1>1
<1>3. CASE Holding
  BY <1>1, <1>2, <1>3 DEF Ends, Holding
<1>4. CASE ~Holding
  BY <1>4 DEF Ends, Holding
<1> QED
  BY <1>3, <1>4

\* What the kernel makes of a change: an event of the registration that it ends is
\* remembered as such while a call holds any.
LEMMA ApplyKernel ==
    ASSUME TypeOK, KernelOK, NEW op \in Ops, NEW f \in Fds, NEW n \in 0..MaxRegs,
           IF op = "add" THEN n # 0 ELSE reg[f] # 0,
           sock[f] # "closed", sock' = sock, Apply(op, f, n)
    PROVE  /\ reg' \in [Fds -> 0..MaxRegs] /\ on' \in [Fds -> BOOLEAN] /\ edge' \subseteq Fds
           /\ ended' \subseteq 1..MaxRegs
           /\ KernelOK'
           /\ \A g \in Fds \ {f} : reg'[g] = reg[g]
           /\ op = "add" => reg'[f] = n
           /\ op \in {"enable", "disable"} => reg'[f] = reg[f]
           /\ Holding => /\ ended \subseteq ended'
                         /\ reg[f] \in ended' \cup {0, reg'[f]}
<1>1. /\ reg \in [Fds -> 0..MaxRegs] /\ on \in [Fds -> BOOLEAN] /\ edge \subseteq Fds
      /\ ended \subseteq 1..MaxRegs /\ MaxRegs \in Nat
  BY NetAssumption DEF TypeOK
<1>2. CASE op = "add"
  <2>1. /\ reg' = [reg EXCEPT ![f] = n] /\ on' = [on EXCEPT ![f] = TRUE]
        /\ edge' \in {edge \ {f}, IF data[f] > 0 THEN edge \cup {f} ELSE edge}
        /\ Ends({reg[f]} \ {n})
    BY <1>2 DEF Apply
  <2>2. edge' \subseteq edge \cup {f} /\ reg'[f] = n /\ \A g \in Fds \ {f} : reg'[g] = reg[g]
    BY <1>1, <2>1
  <2>3. ended' \subseteq 1..MaxRegs /\ (Holding => ended \subseteq ended'
                                        /\ reg[f] \in ended' \cup {0, reg'[f]})
    <3>1. {reg[f]} \ {n} \in SUBSET (0..MaxRegs)
      BY <1>1
    <3> QED
      BY <2>1, <2>2, <3>1, EndsKept
  <2>4. KernelOK'
    BY <1>1, <1>2, <2>1, <2>2 DEF KernelOK
  <2> QED
    BY <1>1, <1>2, <2>1, <2>2, <2>3, <2>4
<1>3. CASE op = "enable"
  <2>1. /\ on' = [on EXCEPT ![f] = TRUE]
        /\ edge' \in {edge, IF data[f] > 0 THEN edge \cup {f} ELSE edge}
        /\ UNCHANGED <<reg, ended>>
    BY <1>3 DEF Apply
  <2>2. edge' \subseteq edge \cup {f}
    BY <2>1
  <2> QED
    BY <1>1, <1>3, <2>1, <2>2 DEF KernelOK
<1>4. CASE op = "disable"
  <2>1. /\ on' = [on EXCEPT ![f] = FALSE] /\ edge' = edge \ {f}
        /\ UNCHANGED <<reg, ended>>
    BY <1>4 DEF Apply
  <2> QED
    BY <1>1, <1>4, <2>1 DEF KernelOK
<1>5. CASE op = "delete"
  <2>1. /\ reg' = [reg EXCEPT ![f] = 0] /\ on' = [on EXCEPT ![f] = FALSE] /\ edge' = edge \ {f}
        /\ Ends({reg[f]})
    BY <1>5 DEF Apply
  <2>2. ended' \subseteq 1..MaxRegs /\ (Holding => ended \subseteq ended'
                                        /\ reg[f] \in ended' \cup {0, reg'[f]})
    <3>1. {reg[f]} \in SUBSET (0..MaxRegs)
      BY <1>1
    <3> QED
      BY <2>1, <3>1, EndsKept
  <2> QED
    BY <1>1, <1>5, <2>1, <2>2 DEF KernelOK
<1> QED
  BY <1>2, <1>3, <1>4, <1>5 DEF Ops
------------------------------------------------------------------------------

\* Initially nothing is watched and nobody waits.
LEMMA InitInv == Init => NetInv
<1> SUFFICES ASSUME Init PROVE NetInv
  OBVIOUS
<1>1. NoWait \in Waits /\ NoWait.out = {} /\ NoWait.todo = {} /\ NoWait.change = None
  BY NetAssumption DEF NoWait, Waits, Steps
<1>2. Free \in Entries /\ Free.fd = None
  BY NetAssumption DEF Free, Entries
<1>3. TypeOK
  <2>1. Cardinality({}) = 0
    BY FS_EmptySet
  <2> QED
    BY <1>1, <1>2, <2>1, NetAssumption DEF Init, TypeOK, Waits, Steps, Entries, NoChange
<1> QED
  BY <1>1, <1>2, <1>3, NetAssumption
  DEF Init, NetInv, Tabled, AdminOK, WaitOK, KernelOK, NoChange

\* There are finitely many events a call may hold.
LEMMA EventsFinite ==
    ASSUME NEW out \in SUBSET Events PROVE IsFiniteSet(out) /\ Cardinality(out) \in Nat
<1> DEFINE pairs == Fds \X (0..MaxRegs)
           event == [p \in pairs |-> [fd |-> p[1], udata |-> p[2]]]
<1>1. IsFiniteSet(pairs)
  <2>1. IsFiniteSet(Fds)
    BY NetAssumption DEF Fds
  <2>2. IsFiniteSet(0..MaxRegs)
    <3>1. 0 \in Int /\ MaxRegs \in Int
      BY NetAssumption
    <3> QED
      BY <3>1, FS_Interval
  <2> QED
    BY <2>1, <2>2, FS_Product
<1>2. event \in Surjection(pairs, Events)
  <2>1. event \in [pairs -> Events]
    BY DEF Events
  <2>2. ASSUME NEW e \in Events PROVE \E p \in pairs : event[p] = e
    <3>1. <<e.fd, e.udata>> \in pairs /\ event[<<e.fd, e.udata>>] = e
      BY DEF Events
    <3> QED
      BY <3>1
  <2> QED
    BY <2>1, <2>2 DEF Surjection
<1>3. IsFiniteSet(Events)
  BY <1>1, <1>2, FS_Surjection
<1> QED
  BY <1>3, FS_Subset, FS_CardinalityType

\* The types of the call and of the table, and where the call's own change is.
LEMMA Typed ==
    ASSUME NetInv
    PROVE  /\ wait \in Waits /\ wait.at \in Steps /\ wait.change \in Fds \cup {None}
           /\ wait.number \in 0..MaxRegs /\ wait.out \subseteq Events
           /\ wait.todo \subseteq [fd : Fds, udata : 0..MaxRegs, enabled : BOOLEAN]
           /\ watched \in [1..Slots -> Entries]
           /\ IsFiniteSet(wait.out) /\ Cardinality(wait.out) \in Nat
           /\ Cardinality(wait.out) <= Capacity
<1>1. /\ wait \in Waits /\ wait.at \in Steps /\ wait.change \in Fds \cup {None}
      /\ wait.number \in 0..MaxRegs /\ wait.out \subseteq Events
      /\ wait.todo \subseteq [fd : Fds, udata : 0..MaxRegs, enabled : BOOLEAN]
      /\ watched \in [1..Slots -> Entries] /\ Cardinality(wait.out) <= Capacity
  BY DEF NetInv, TypeOK, Waits, Steps, Entries, Events
<1> QED
  BY <1>1, EventsFinite

\* A step that changes neither table, registrations nor changes on their way.
LEMMA TableKept ==
    ASSUME NetInv, UNCHANGED <<sock, reg, admin, watched, orphans>>,
           wait'.change = wait.change, wait'.number = wait.number
    PROVE  /\ \A s \in 1..Slots : Tabled(s)'
           /\ AdminOK'
           /\ ended \subseteq ended' => \A f, u : Alive(f, u) => Alive(f, u)'
  BY DEF NetInv, Tabled, Current, Coming, AdminOK, Alive

\* A new call record with the same change.
LEMMA Moved ==
    ASSUME NetInv, NEW at \in Steps, wait' = [wait EXCEPT !.at = at]
    PROVE  /\ wait' \in Waits /\ wait'.at = at
           /\ wait'.change = wait.change /\ wait'.number = wait.number
           /\ wait'.todo = wait.todo /\ wait'.out = wait.out
  BY Typed DEF Waits
------------------------------------------------------------------------------

\* A descriptor that is opened was closed: nothing of it but orphans is known.
LEMMA OpenInv ==
    ASSUME NetInv, NEW f \in Fds, NEW kind \in {"udp", "other"}, Open(f, kind)
    PROVE  NetInv'
<1>1. /\ sock[f] = "closed" /\ admin = NoChange
      /\ sock' = [sock EXCEPT ![f] = kind] /\ data' = [data EXCEPT ![f] = 0]
      /\ UNCHANGED <<arrivals, kernelVars, watched, wait, admin, regs, ended, orphans>>
  BY DEF Open
<1>2. TypeOK'
  <2>1. SocketTypes /\ KernelTypes /\ TableTypes /\ CallTypes /\ AdminTypes
    BY TypeParts DEF NetInv, Types
  <2>2. SocketTypes'
    BY <1>1, <2>1, NetAssumption DEF SocketTypes
  <2>3. KernelTypes' /\ TableTypes' /\ CallTypes' /\ AdminTypes'
    BY <1>1, <2>1 DEF KernelTypes, TableTypes, CallTypes, AdminTypes, kernelVars
  <2> QED
    BY <2>2, <2>3, TypeParts DEF Types
<1>3. /\ \A g \in Fds \ {f} : sock'[g] = sock[g]
      /\ sock'[f] = kind
  BY <1>1 DEF NetInv, TypeOK
<1>4. ASSUME NEW s \in 1..Slots PROVE Tabled(s)'
  <2>1. watched[s].fd \in Fds \cup {None}
    BY Typed DEF Entries
  <2>2. Tabled(s)
    BY DEF NetInv
  <2>3. CASE watched[s].fd = f
    BY <1>1, <2>2, <2>3, NetAssumption DEF Tabled, Current, Fds, kernelVars
  <2>4. CASE watched[s].fd # f
    BY <1>1, <1>3, <2>1, <2>2, <2>4 DEF Tabled, Current, Coming, kernelVars
  <2> QED
    BY <2>3, <2>4
<1>5. AdminOK'
  BY <1>1 DEF NetInv, AdminOK, NoChange
<1>6. WaitOK'
  BY <1>1 DEF NetInv, WaitOK, Alive, Coming, kernelVars
<1>7. KernelOK'
  BY <1>1, <1>3 DEF NetInv, KernelOK, kernelVars
<1> QED
  BY <1>2, <1>4, <1>5, <1>6, <1>7 DEF NetInv

\* A descriptor that is closed leaves its registrations as orphans.
LEMMA CloseInv ==
    ASSUME NetInv, NEW f \in Fds, Close(f) PROVE NetInv'
<1> DEFINE left == ({reg[f]} \cup (IF wait.change = f THEN {wait.number} ELSE {})) \ {0}
<1>1. /\ sock[f] # "closed" /\ admin = NoChange
      /\ sock' = [sock EXCEPT ![f] = "closed"] /\ data' = [data EXCEPT ![f] = 0]
      /\ reg' = [reg EXCEPT ![f] = 0] /\ on' = [on EXCEPT ![f] = FALSE]
      /\ edge' = edge \ {f} /\ Ends({reg[f]}) /\ orphans' = orphans \cup left
      /\ UNCHANGED <<arrivals, watched, wait, admin, regs>>
  BY DEF Close
<1>2. reg[f] \in 0..MaxRegs /\ wait.number \in 0..MaxRegs /\ left \subseteq 1..MaxRegs
  BY Typed, NetAssumption DEF NetInv, TypeOK
<1>3. /\ ended' \subseteq 1..MaxRegs
      /\ Holding => ended \subseteq ended' /\ {reg[f]} \ {0} \subseteq ended'
  <2>1. {reg[f]} \in SUBSET (0..MaxRegs)
    BY <1>2
  <2> QED
    BY <1>1, <2>1, EndsKept DEF NetInv
<1>4. TypeOK'
  <2>1. SocketTypes /\ KernelTypes /\ TableTypes /\ CallTypes /\ AdminTypes
    BY TypeParts DEF NetInv, Types
  <2>2. SocketTypes'
    BY <1>1, <2>1, NetAssumption DEF SocketTypes
  <2>3. KernelTypes'
    BY <1>1, <1>3, <2>1, NetAssumption DEF KernelTypes
  <2>4. TableTypes' /\ CallTypes' /\ AdminTypes'
    BY <1>1, <1>2, <2>1 DEF TableTypes, CallTypes, AdminTypes
  <2> QED
    BY <2>2, <2>3, <2>4, TypeParts DEF Types
<1>5. /\ \A g \in Fds \ {f} : sock'[g] = sock[g] /\ reg'[g] = reg[g] /\ on'[g] = on[g]
      /\ sock'[f] = "closed" /\ reg'[f] = 0 /\ on'[f] = FALSE
  BY <1>1 DEF NetInv, TypeOK
<1>6. ASSUME NEW s \in 1..Slots PROVE Tabled(s)'
  <2>1. watched[s].fd \in Fds \cup {None}
    BY Typed DEF Entries
  <2>2. Tabled(s)
    BY DEF NetInv
  <2>3. CASE watched[s].fd = f
    <3>1. f # None /\ admin.op = "none"
      BY <1>1, NetAssumption DEF Fds, NoChange
    <3>2. watched[s].udata # 0 /\ Current(f, watched[s].udata)
      BY <2>2, <2>3, <3>1 DEF Tabled
    <3>3. watched[s].udata \in orphans'
      BY <1>1, <3>1, <3>2 DEF Current, Coming
    <3> QED
      BY <1>1, <2>2, <3>3 DEF Tabled, Current
  <2>4. CASE watched[s].fd # f
    BY <1>1, <1>5, <2>1, <2>2, <2>4 DEF Tabled, Current, Coming
  <2> QED
    BY <2>3, <2>4
<1>7. AdminOK'
  BY <1>1 DEF NetInv, AdminOK, NoChange
<1>8. ASSUME NEW w \in wait.todo \cup wait.out PROVE w.udata # 0 /\ Alive(w.fd, w.udata)'
  <2>1. Holding /\ w.udata # 0 /\ Alive(w.fd, w.udata) /\ w.fd \in Fds
    BY Typed DEF NetInv, WaitOK, Holding, Events
  <2> QED
    BY <1>1, <1>3, <1>5, <2>1 DEF Alive, Coming
<1>9. WaitOK'
  BY <1>1, <1>8 DEF NetInv, WaitOK
<1>10. KernelOK'
  BY <1>1, <1>5 DEF NetInv, KernelOK, TypeOK
<1> QED
  BY <1>4, <1>6, <1>7, <1>9, <1>10 DEF NetInv

\* A datagram changes the buffer, and maybe the edges.
LEMMA ArriveInv ==
    ASSUME NetInv, NEW f \in Fds, Arrive(f) PROVE NetInv'
<1>1. /\ arrivals < MaxArrivals /\ arrivals' = arrivals + 1
      /\ UNCHANGED <<sock, reg, on, watched, wait, admin, regs, ended, orphans>>
      /\ \/ data[f] < Buffer /\ data' = [data EXCEPT ![f] = @ + 1]
         \/ data' = data
      /\ edge' \subseteq IF on[f] THEN edge \cup {f} ELSE edge
  BY DEF Arrive
<1>2. TypeOK'
  <2>1. SocketTypes /\ KernelTypes /\ TableTypes /\ CallTypes /\ AdminTypes
    BY TypeParts DEF NetInv, Types
  <2>2. data' \in [Fds -> 0..Buffer]
    BY <1>1, <2>1, NetAssumption DEF SocketTypes
  <2>3. SocketTypes'
    BY <1>1, <2>1, <2>2, NetAssumption DEF SocketTypes
  <2>4. KernelTypes' /\ TableTypes' /\ CallTypes' /\ AdminTypes'
    BY <1>1, <2>1 DEF KernelTypes, TableTypes, CallTypes, AdminTypes
  <2> QED
    BY <2>3, <2>4, TypeParts DEF Types
<1>3. \A g \in edge' : g \in edge \/ on[g]
  BY <1>1
<1>4. KernelOK'
  BY <1>1, <1>2, <1>3 DEF NetInv, KernelOK, TypeOK
<1>5. WaitOK'
  BY <1>1 DEF NetInv, WaitOK, Alive, Coming
<1> QED
  BY <1>1, <1>2, <1>4, <1>5, TableKept DEF NetInv
------------------------------------------------------------------------------

\* Another thread records a change: the entry is the coming registration's.
LEMMA RecordInv ==
    ASSUME NetInv, NEW op \in Ops, NEW f \in Fds, RecordChange(op, f) PROVE NetInv'
<1> DEFINE n == regs + 1
<1>1. /\ admin = NoChange /\ wait.change # f /\ sock[f] # "closed"
      /\ IF op = "add" THEN regs < MaxRegs ELSE reg[f] # 0
      /\ admin' = [op |-> op, fd |-> f, number |-> IF op = "add" THEN n ELSE 0]
      /\ regs' = IF op = "add" THEN n ELSE regs
      /\ watched' \in Recorded(op, f, n)
      /\ UNCHANGED <<socketVars, kernelVars, wait, ended, orphans>>
  BY DEF RecordChange
<1>2. regs \in 0..MaxRegs /\ MaxRegs \in Nat /\ f # None
  BY NetAssumption DEF NetInv, TypeOK, Fds
<1>3. PICK m \in 1..MaxRegs : watched' \in Recorded(op, f, m) /\ (op = "add" => m = n)
  <2>1. CASE op = "add"
    BY <1>1, <1>2, <2>1
  <2>2. CASE op # "add"
    <3>1. reg[f] \in 1..MaxRegs
      BY <1>1, <1>2, <2>2 DEF NetInv, TypeOK
    <3>2. Recorded(op, f, n) = Recorded(op, f, reg[f])
      BY <2>2 DEF Recorded
    <3> QED
      BY <1>1, <2>2, <3>1, <3>2
  <2> QED
    BY <2>1, <2>2
<1>4. /\ watched' \in [1..Slots -> Entries]
      /\ \A s \in 1..Slots : watched'[s].fd # None =>
            \/ /\ op = "add" /\ sock[f] = "udp"
               /\ watched'[s].fd = f /\ watched'[s].udata = m
            \/ /\ watched'[s].fd = watched[s].fd /\ watched'[s].udata = watched[s].udata
               /\ watched'[s].fd = f => op # "delete" /\ ~(op = "add" /\ sock[f] = "udp")
      /\ \A s, t \in 1..Slots :
            s # t /\ watched'[s].fd # None => watched'[t].fd # watched'[s].fd
  <2>1. TypeOK /\ \A s \in 1..Slots : Tabled(s)
    BY DEF NetInv
  <2> QED
    BY <1>3, <2>1, RecordedTable
<1>5. /\ admin'.op = op /\ admin'.fd = f /\ admin'.number = IF op = "add" THEN n ELSE 0
      /\ regs' \in 0..MaxRegs /\ admin'.number \in 0..MaxRegs
      /\ op = "add" => n # 0
  BY <1>1, <1>2
<1>6. TypeOK'
  <2>1. Types
    BY TypeParts DEF NetInv
  <2>2. TableTypes' /\ AdminTypes'
    BY <1>1, <1>4, <1>5, <2>1 DEF Types, TableTypes, AdminTypes
  <2>3. SocketTypes' /\ KernelTypes' /\ CallTypes'
    BY <1>1, <2>1 DEF Types, SocketTypes, KernelTypes, CallTypes, socketVars, kernelVars
  <2> QED
    BY <2>2, <2>3, TypeParts DEF Types
<1>7. ASSUME NEW s \in 1..Slots PROVE Tabled(s)'
  <2> SUFFICES ASSUME watched'[s].fd # None
               PROVE  watched'[s].udata # 0 /\ Current(watched[s].fd, watched[s].udata)'
    BY <1>4 DEF Tabled
  <2>1. CASE op = "add" /\ sock[f] = "udp" /\ watched'[s].fd = f /\ watched'[s].udata = m
    BY <1>1, <1>3, <1>5, <2>1 DEF Current, Coming, socketVars
  <2>2. CASE /\ watched'[s].fd = watched[s].fd /\ watched'[s].udata = watched[s].udata
             /\ watched'[s].fd = f => op # "delete" /\ ~(op = "add" /\ sock[f] = "udp")
    <3>1. watched[s].udata # 0 /\ Current(watched[s].fd, watched[s].udata)
      BY <2>2 DEF NetInv, Tabled
    <3>2. admin.op = "none" /\ admin.fd = None
      BY <1>1 DEF NoChange
    <3> QED
      BY <1>1, <1>5, <2>2, <3>1, <3>2 DEF Current, Coming, Ops, socketVars, kernelVars
  <2> QED
    BY <1>4, <2>1, <2>2
<1>8. AdminOK'
  <2>1. op = "delete" => \A s \in 1..Slots : watched'[s].fd # f
    BY <1>2, <1>4
  <2> QED
    BY <1>1, <1>5, <2>1 DEF AdminOK, Ops, socketVars, kernelVars
<1>9. WaitOK'
  <2>1. admin.op = "none"
    BY <1>1 DEF NoChange
  <2> QED
    BY <1>1, <2>1 DEF NetInv, WaitOK, Alive, Coming, kernelVars
<1>10. KernelOK'
  BY <1>1 DEF NetInv, KernelOK, socketVars, kernelVars
<1> QED
  BY <1>6, <1>7, <1>8, <1>9, <1>10 DEF NetInv

\* The recorded change reaches the kernel: what comes is now registered.
LEMMA ApplyInv ==
    ASSUME NetInv, ApplyChange PROVE NetInv'
<1> DEFINE f == admin.fd
           n == admin.number
<1>1. /\ admin # NoChange /\ Apply(admin.op, f, n) /\ admin' = NoChange
      /\ UNCHANGED <<socketVars, watched, wait, regs, orphans>>
  BY DEF ApplyChange
<1>2. /\ admin.op \in Ops /\ f \in Fds /\ n \in 0..MaxRegs /\ sock[f] # "closed"
      /\ wait.change # f
      /\ IF admin.op = "add" THEN n # 0 ELSE reg[f] # 0
      /\ admin.op = "delete" => \A s \in 1..Slots : watched[s].fd # f
  BY <1>1, TypeParts DEF NetInv, Types, AdminTypes, AdminOK
<1>3. /\ reg' \in [Fds -> 0..MaxRegs] /\ on' \in [Fds -> BOOLEAN] /\ edge' \subseteq Fds
      /\ ended' \subseteq 1..MaxRegs
      /\ KernelOK'
      /\ \A g \in Fds \ {f} : reg'[g] = reg[g]
      /\ admin.op = "add" => reg'[f] = n
      /\ admin.op \in {"enable", "disable"} => reg'[f] = reg[f]
      /\ Holding => /\ ended \subseteq ended'
                    /\ reg[f] \in ended' \cup {0, reg'[f]}
  <2>1. TypeOK /\ KernelOK /\ sock' = sock
    BY <1>1 DEF NetInv, socketVars
  <2> QED
    BY <1>1, <1>2, <2>1, ApplyKernel
<1>4. TypeOK'
  <2>1. Types
    BY TypeParts DEF NetInv
  <2>2. KernelTypes' /\ AdminTypes'
    BY <1>1, <1>3, NetAssumption DEF KernelTypes, AdminTypes, NoChange
  <2>3. SocketTypes' /\ TableTypes' /\ CallTypes'
    BY <1>1, <2>1 DEF Types, SocketTypes, TableTypes, CallTypes, socketVars
  <2> QED
    BY <2>2, <2>3, TypeParts DEF Types
<1>5. admin'.op = "none" /\ admin'.fd = None
  BY <1>1 DEF NoChange
<1>6. ASSUME NEW s \in 1..Slots PROVE Tabled(s)'
  <2>1. Tabled(s) /\ watched[s].fd \in Fds \cup {None}
    BY Typed DEF NetInv, Entries
  <2>2. CASE watched[s].fd = f
    BY <1>1, <1>2, <1>3, <1>5, <2>1, <2>2, NetAssumption
    DEF Tabled, Current, Coming, Fds, Ops, socketVars
  <2>3. CASE watched[s].fd # f
    BY <1>1, <1>2, <1>3, <1>5, <2>1, <2>3, NetAssumption
    DEF Tabled, Current, Coming, Fds, socketVars
  <2> QED
    BY <2>2, <2>3
<1>7. AdminOK'
  BY <1>1 DEF AdminOK, NoChange
<1>8. ASSUME NEW w \in wait.todo \cup wait.out PROVE w.udata # 0 /\ Alive(w.fd, w.udata)'
  <2>1. Holding /\ w.udata # 0 /\ Alive(w.fd, w.udata) /\ w.fd \in Fds
    BY Typed DEF NetInv, WaitOK, Holding, Events
  <2>2. CASE w.fd = f
    BY <1>1, <1>2, <1>3, <2>1, <2>2 DEF Alive, Coming
  <2>3. CASE w.fd # f
    BY <1>1, <1>2, <1>3, <2>1, <2>3 DEF Alive, Coming
  <2> QED
    BY <2>2, <2>3
<1>9. WaitOK'
  BY <1>1, <1>8 DEF NetInv, WaitOK
<1> QED
  BY <1>3, <1>4, <1>6, <1>7, <1>9 DEF NetInv
------------------------------------------------------------------------------

\* The waiting thread's call, with an add of its own or without.
LEMMA KeventInv ==
    ASSUME NetInv, NEW f \in Fds \cup {None}, Kevent(f) PROVE NetInv'
<1> DEFINE n == regs + 1
<1>1. /\ wait.at = "idle"
      /\ wait' = [NoWait EXCEPT !.at = "entered", !.change = f,
                          !.number = IF f = None THEN 0 ELSE n]
      /\ IF f = None
         THEN UNCHANGED <<watched, regs>>
         ELSE /\ sock[f] # "closed" /\ regs < MaxRegs /\ admin = NoChange
              /\ regs' = n /\ watched' \in Recorded("add", f, n)
      /\ UNCHANGED <<socketVars, kernelVars, admin, ended, orphans>>
  BY DEF Kevent
<1>2. regs \in 0..MaxRegs /\ MaxRegs \in Nat /\ wait.change = None
  BY <1>1, NetAssumption DEF NetInv, TypeOK, WaitOK
<1>3. wait' = [at |-> "entered", change |-> f, number |-> IF f = None THEN 0 ELSE n,
               todo |-> {}, out |-> {}]
  BY <1>1 DEF NoWait
<1>4. /\ wait'.at = "entered" /\ wait'.change = f /\ wait'.todo = {} /\ wait'.out = {}
      /\ wait'.number = IF f = None THEN 0 ELSE n
      /\ wait' \in Waits
  <2> DEFINE number == IF f = None THEN 0 ELSE n
  <2>1. number \in 0..MaxRegs
    BY <1>1, <1>2
  <2> HIDE DEF number
  <2>2. wait' = [at |-> "entered", change |-> f, number |-> number, todo |-> {}, out |-> {}]
    BY <1>3 DEF number
  <2>3. /\ wait'.at = "entered" /\ wait'.change = f /\ wait'.todo = {} /\ wait'.out = {}
        /\ wait'.number = number /\ wait' \in Waits
    BY <2>1, <2>2 DEF Waits, Steps
  <2> QED
    BY <2>3 DEF number
<1>5. /\ watched' \in [1..Slots -> Entries] /\ regs' \in 0..MaxRegs
      /\ \A s \in 1..Slots : watched'[s].fd # None =>
            \/ /\ f # None /\ sock[f] = "udp"
               /\ watched'[s].fd = f /\ watched'[s].udata = n
            \/ /\ watched'[s].fd = watched[s].fd /\ watched'[s].udata = watched[s].udata
               /\ watched'[s].fd = f => ~(sock[f] = "udp")
      /\ \A s, t \in 1..Slots :
            s # t /\ watched'[s].fd # None => watched'[t].fd # watched'[s].fd
  <2>1. CASE f = None
    BY <1>1, <2>1, Typed, NetAssumption DEF NetInv, TypeOK, Tabled
  <2>2. CASE f # None
    <3>1. TypeOK /\ (\A s \in 1..Slots : Tabled(s)) /\ n \in 1..MaxRegs /\ f \in Fds
          /\ "add" \in Ops /\ watched' \in Recorded("add", f, n)
      BY <1>1, <1>2, <2>2 DEF NetInv, Ops
    <3> HIDE DEF n
    <3>2. /\ watched' \in [1..Slots -> Entries]
          /\ \A s \in 1..Slots : watched'[s].fd # None =>
                \/ /\ "add" = "add" /\ sock[f] = "udp"
                   /\ watched'[s].fd = f /\ watched'[s].udata = n
                \/ /\ watched'[s].fd = watched[s].fd /\ watched'[s].udata = watched[s].udata
                   /\ watched'[s].fd = f => "add" # "delete" /\ ~("add" = "add" /\ sock[f] = "udp")
          /\ \A s, t \in 1..Slots :
                s # t /\ watched'[s].fd # None => watched'[t].fd # watched'[s].fd
      BY <3>1, RecordedTable
    <3> QED
      BY <1>1, <2>2, <3>1, <3>2
  <2> QED
    BY <2>1, <2>2
<1>6. TypeOK'
  <2>1. Types
    BY TypeParts DEF NetInv
  <2>2. Cardinality(wait'.out) <= Capacity
    BY <1>4, FS_EmptySet, NetAssumption
  <2>3. TableTypes' /\ CallTypes'
    BY <1>1, <1>4, <1>5, <2>1, <2>2 DEF Types, TableTypes, CallTypes
  <2>4. SocketTypes' /\ KernelTypes' /\ AdminTypes'
    BY <1>1, <2>1 DEF Types, SocketTypes, KernelTypes, AdminTypes, socketVars, kernelVars
  <2> QED
    BY <2>3, <2>4, TypeParts DEF Types
<1>7. ASSUME NEW s \in 1..Slots PROVE Tabled(s)'
  <2> SUFFICES ASSUME watched'[s].fd # None
               PROVE  watched'[s].udata # 0 /\ Current(watched[s].fd, watched[s].udata)'
    BY <1>5 DEF Tabled
  <2>1. CASE f # None /\ sock[f] = "udp" /\ watched'[s].fd = f /\ watched'[s].udata = n
    BY <1>1, <1>2, <1>4, <2>1 DEF Current, Coming, socketVars
  <2>2. CASE /\ watched'[s].fd = watched[s].fd /\ watched'[s].udata = watched[s].udata
             /\ watched'[s].fd = f => ~(sock[f] = "udp")
    <3>1. watched[s].udata # 0 /\ Current(watched[s].fd, watched[s].udata)
      BY <2>2 DEF NetInv, Tabled
    <3> QED
      BY <1>1, <1>2, <1>4, <2>2, <3>1 DEF Current, Coming, socketVars, kernelVars
  <2> QED
    BY <1>5, <2>1, <2>2
<1>8. AdminOK'
  <2>1. CASE admin = NoChange
    BY <1>1, <2>1 DEF AdminOK, NoChange
  <2>2. CASE admin # NoChange
    BY <1>1, <1>4, <2>2, NetAssumption DEF NetInv, AdminOK, Fds, socketVars, kernelVars
  <2> QED
    BY <2>1, <2>2
<1>9. WaitOK'
  BY <1>2, <1>4 DEF WaitOK
<1>10. KernelOK'
  BY <1>1 DEF NetInv, KernelOK, socketVars, kernelVars
<1> QED
  BY <1>6, <1>7, <1>8, <1>9, <1>10 DEF NetInv

\* Steps of the call that keep table, kernel and change: what matters is what it holds.
LEMMA CallInv ==
    ASSUME NetInv, UNCHANGED <<socketVars, reg, on, watched, admin, regs, orphans>>,
           edge' \subseteq edge, ended' \subseteq 1..MaxRegs,
           wait' \in Waits, wait'.change = wait.change, wait'.number = wait.number,
           Cardinality(wait'.out) <= Capacity,
           wait'.change # None => wait'.at \in {"entered", "plain", "look", "peek", "slice", "add"},
           wait'.todo # {} => wait'.at = "peek",
           wait'.out # {} => wait'.at \in {"peek", "add", "handle"},
           \A w \in wait'.todo \cup wait'.out : w.udata # 0 /\ Alive(w.fd, w.udata)'
    PROVE  NetInv'
<1>1. TypeOK'
  <2>1. Types
    BY TypeParts DEF NetInv
  <2>2. Types'
    BY <2>1 DEF Types, SocketTypes, KernelTypes, TableTypes, CallTypes, AdminTypes, socketVars
  <2> QED
    BY <2>2, TypeParts
<1>2. (\A s \in 1..Slots : Tabled(s)') /\ AdminOK'
  BY TableKept DEF socketVars
<1>3. WaitOK'
  BY DEF NetInv, WaitOK
<1>4. KernelOK'
  BY DEF NetInv, KernelOK, socketVars
<1> QED
  BY <1>1, <1>2, <1>3, <1>4 DEF NetInv

\* Steps that only move the call on, and hold no more than before.
LEMMA EnterInv == ASSUME NetInv, Enter \/ SliceEnds \/ LimitEnds PROVE NetInv'
<1>1. PICK at \in {"look", "plain", "idle"} :
          /\ wait' = [wait EXCEPT !.at = at]
          /\ wait.at \in {"entered", "slice", "plain"}
          /\ wait.at # "entered" => wait.change = None
          /\ at = "idle" => wait.change = None
          /\ UNCHANGED <<socketVars, reg, on, edge, watched, admin, regs, orphans, ended>>
  BY DEF Enter, SliceEnds, LimitEnds, Go, kernelVars, NetUnchanged, socketVars
<1>2. at \in Steps
  BY DEF Steps
<1>3. /\ wait' \in Waits /\ wait'.at = at
      /\ wait'.change = wait.change /\ wait'.number = wait.number
      /\ wait'.todo = wait.todo /\ wait'.out = wait.out
  BY <1>1, <1>2, Moved
<1>4. wait.out = {} /\ wait.todo = {}
  BY <1>1 DEF NetInv, WaitOK
<1>5. Cardinality(wait'.out) <= Capacity /\ ended' \subseteq 1..MaxRegs
  BY <1>1, <1>3 DEF NetInv, TypeOK
<1> QED
  BY <1>1, <1>3, <1>4, <1>5, CallInv

\* The table is read: what it has is alive, or an orphan's.
LEMMA SnapshotInv == ASSUME NetInv, Snapshot PROVE NetInv'
<1>1. /\ wait.at = "look" /\ wait' = [wait EXCEPT !.at = "peek", !.todo = Enabled]
      /\ ended' = {}
      /\ UNCHANGED <<socketVars, reg, on, edge, watched, admin, regs, orphans>>
  BY DEF Snapshot, kernelVars, NetUnchanged, socketVars
<1>2. PICK w : w = [wait EXCEPT !.at = "peek", !.todo = Enabled]
  OBVIOUS
<1>3. w = [at |-> "peek", change |-> wait.change, number |-> wait.number,
           todo |-> Enabled, out |-> wait.out]
  BY <1>2, Typed DEF Waits
<1>4. Enabled \subseteq [fd : Fds, udata : 0..MaxRegs, enabled : BOOLEAN]
  BY Typed DEF Enabled, Entries
<1>5. /\ wait' \in Waits /\ wait'.at = "peek" /\ wait'.todo = Enabled /\ wait'.out = wait.out
      /\ wait'.change = wait.change /\ wait'.number = wait.number
  BY <1>1, <1>2, <1>3, <1>4, Typed DEF Waits, Steps, Events
<1>6. wait.out = {}
  BY <1>1 DEF NetInv, WaitOK
<1>7. ASSUME NEW e \in Enabled PROVE e.udata # 0 /\ Alive(e.fd, e.udata)'
  <2>1. PICK s \in 1..Slots : e = watched[s] /\ watched[s].fd # None
    BY DEF Enabled
  <2>2. e.udata # 0 /\ Current(e.fd, e.udata)
    BY <2>1 DEF NetInv, Tabled
  <2> QED
    BY <1>1, <1>5, <2>2 DEF Current, Alive, Coming
<1>8. Cardinality(wait'.out) <= Capacity /\ ended' \subseteq 1..MaxRegs
  BY <1>1, <1>5, Typed
<1> QED
  BY <1>1, <1>5, <1>6, <1>7, <1>8, CallInv

\* A socket of the copy is looked at; or the look is over.
LEMMA PeekInv == ASSUME NetInv, Peek PROVE NetInv'
<1>1. /\ wait.at = "peek"
      /\ UNCHANGED <<socketVars, reg, on, edge, watched, admin, regs, orphans>>
  BY DEF Peek, kernelVars, NetUnchanged, socketVars
<1>2. \A w \in wait.todo \cup wait.out : w.udata # 0 /\ Alive(w.fd, w.udata)
  BY DEF NetInv, WaitOK
<1>3. CASE wait.todo = {} \/ Cardinality(wait.out) = Capacity
  <2> DEFINE at == IF wait.out = {} THEN "slice" ELSE IF wait.change # None THEN "add" ELSE "handle"
  <2>1. /\ wait' = [wait EXCEPT !.todo = {}, !.at = at]
        /\ ended' = IF wait.out = {} THEN {} ELSE ended
    BY <1>3 DEF Peek
  <2>2. at \in Steps
    BY DEF Steps
  <2> HIDE DEF at
  <2>3. PICK w : w = [wait EXCEPT !.todo = {}, !.at = at]
    OBVIOUS
  <2>4. w = [at |-> at, change |-> wait.change, number |-> wait.number,
             todo |-> {}, out |-> wait.out]
    BY <2>3, Typed DEF Waits
  <2>5. /\ wait' \in Waits /\ wait'.at = at /\ wait'.todo = {} /\ wait'.out = wait.out
        /\ wait'.change = wait.change /\ wait'.number = wait.number
    BY <2>1, <2>2, <2>3, <2>4, Typed DEF Waits, Events
  <2>6. /\ wait'.change # None => wait'.at \in {"slice", "add"}
        /\ wait'.out # {} => wait'.at \in {"add", "handle"}
    BY <2>5 DEF at
  <2>7. Cardinality(wait'.out) <= Capacity /\ ended' \subseteq 1..MaxRegs
    BY <2>1, <2>5, Typed DEF NetInv, TypeOK
  <2>8. \A e \in wait'.out : e.udata # 0 /\ Alive(e.fd, e.udata)'
    BY <1>1, <1>2, <2>1, <2>5 DEF Alive, Coming
  <2> QED
    BY <1>1, <2>5, <2>6, <2>7, <2>8, CallInv
<1>4. CASE ~(wait.todo = {} \/ Cardinality(wait.out) = Capacity)
  <2>1. PICK w \in wait.todo :
          /\ wait' = [wait EXCEPT !.todo = @ \ {w},
                        !.out = IF data[w.fd] > 0
                                THEN @ \cup {[fd |-> w.fd, udata |-> w.udata]} ELSE @]
          /\ UNCHANGED ended
    BY <1>4 DEF Peek
  <2> DEFINE e == [fd |-> w.fd, udata |-> w.udata]
             out == IF data[w.fd] > 0 THEN wait.out \cup {e} ELSE wait.out
             todo == wait.todo \ {w}
  <2>2. e \in Events /\ e.udata = w.udata /\ e.fd = w.fd
    BY Typed DEF Events
  <2>3. Cardinality(wait.out) < Capacity /\ Capacity \in Nat
    BY <1>4, Typed, NetAssumption
  <2>4. IsFiniteSet(wait.out) /\ Cardinality(wait.out) \in Nat
    BY Typed
  <2>5. Cardinality(wait.out \cup {e}) <= Cardinality(wait.out) + 1
    <3> HIDE DEF e
    <3>1. Cardinality(wait.out \cup {e}) =
              IF e \in wait.out THEN Cardinality(wait.out) ELSE Cardinality(wait.out) + 1
      BY <2>4, FS_AddElement
    <3> QED
      BY <2>4, <3>1
  <2>6. out \subseteq Events /\ Cardinality(out) <= Capacity
    <3>1. CASE out = wait.out
      BY <3>1, Typed
    <3>2. CASE out = wait.out \cup {e}
      <4> HIDE DEF e
      <4>1. Cardinality(out) <= Capacity
        <5>1. Cardinality(wait.out \cup {e}) \in Nat
          BY <2>4, FS_AddElement, FS_CardinalityType
        <5>2. PICK n \in Nat : n = Cardinality(wait.out \cup {e})
          BY <5>1
        <5>3. n <= Cardinality(wait.out) + 1
          BY <2>5, <5>2
        <5>4. n <= Capacity
          BY <2>3, <2>4, <5>2, <5>3
        <5> QED
          BY <3>2, <5>2, <5>4
      <4> QED
        BY <2>2, <3>2, <4>1, Typed
    <3> QED
      BY <3>1, <3>2
  <2>7. \A x \in todo \cup out : x \in wait.todo \cup wait.out \/ x = e
    OBVIOUS
  <2>8. wait' = [wait EXCEPT !.todo = todo, !.out = out]
    BY <2>1
  <2> HIDE DEF out, todo, e
  <2>9. PICK r : r = [wait EXCEPT !.todo = todo, !.out = out]
    OBVIOUS
  <2>10. r = [at |-> wait.at, change |-> wait.change, number |-> wait.number,
              todo |-> todo, out |-> out]
    BY <2>9, Typed DEF Waits
  <2>11. todo \subseteq wait.todo
    BY DEF todo
  <2>12. /\ wait' \in Waits /\ wait'.at = "peek" /\ wait'.todo = todo /\ wait'.out = out
         /\ wait'.change = wait.change /\ wait'.number = wait.number
    BY <1>1, <2>6, <2>8, <2>9, <2>10, <2>11, Typed DEF Waits, Events, Steps
  <2>13. \A x \in wait'.todo \cup wait'.out : x.udata # 0 /\ Alive(x.fd, x.udata)'
    BY <1>1, <1>2, <2>1, <2>2, <2>7, <2>12 DEF Alive, Coming
  <2>14. ended' \subseteq 1..MaxRegs
    BY <2>1 DEF NetInv, TypeOK
  <2> QED
    BY <1>1, <2>6, <2>12, <2>13, <2>14, CallInv
<1> QED
  BY <1>3, <1>4

\* The call's own add reaches the kernel, or finds its descriptor closed.
LEMMA ApplyOwnInv == ASSUME NetInv, ApplyOwn PROVE NetInv'
<1> DEFINE f == wait.change
           n == wait.number
           at == IF sock[f] = "closed" THEN "handle" ELSE wait.at
<1>1. /\ wait.at \in {"plain", "slice", "add"} /\ f # None
      /\ wait' = [wait EXCEPT !.change = None, !.number = 0, !.at = at]
      /\ IF sock[f] = "closed"
         THEN /\ Ends({n}) /\ orphans' = orphans \cup {n}
              /\ UNCHANGED kernelVars
         ELSE Apply("add", f, n) /\ UNCHANGED orphans
      /\ UNCHANGED <<socketVars, watched, admin, regs>>
  BY DEF ApplyOwn
<1>2. f \in Fds /\ n \in 1..MaxRegs /\ MaxRegs \in Nat
  BY <1>1, Typed, NetAssumption DEF NetInv, WaitOK
<1>3. /\ wait' \in Waits /\ wait'.at = at /\ wait'.change = None /\ wait'.number = 0
      /\ wait'.todo = wait.todo /\ wait'.out = wait.out
  <2>1. at \in Steps
    BY <1>1 DEF Steps
  <2> HIDE DEF at
  <2>2. PICK w : w = [wait EXCEPT !.change = None, !.number = 0, !.at = at]
    OBVIOUS
  <2>3. w = [at |-> at, change |-> None, number |-> 0, todo |-> wait.todo, out |-> wait.out]
    BY <2>2, Typed DEF Waits
  <2> QED
    BY <1>1, <1>2, <2>1, <2>2, <2>3, Typed DEF Waits, Events
<1>4. /\ reg' \in [Fds -> 0..MaxRegs] /\ on' \in [Fds -> BOOLEAN] /\ edge' \subseteq Fds
      /\ ended' \subseteq 1..MaxRegs /\ orphans' \subseteq 1..MaxRegs
      /\ orphans \subseteq orphans' /\ KernelOK'
      /\ \A g \in Fds \ {f} : reg'[g] = reg[g]
      /\ n \in orphans' \cup {reg'[f]}
      /\ Holding => ended \subseteq ended' /\ reg[f] \in ended' \cup {0, reg'[f]}
  <2>1. CASE sock[f] = "closed"
    <3>1. Ends({n}) /\ {n} \in SUBSET (0..MaxRegs) /\ TypeOK
      BY <1>1, <1>2, <2>1 DEF NetInv
    <3>2. ended' \subseteq 1..MaxRegs /\ (Holding => ended \subseteq ended')
      BY <3>1, EndsKept
    <3> QED
      BY <1>1, <1>2, <2>1, <3>2 DEF NetInv, TypeOK, KernelOK, socketVars, kernelVars
  <2>2. CASE sock[f] # "closed"
    <3>1. /\ Apply("add", f, n) /\ TypeOK /\ KernelOK /\ sock' = sock
          /\ "add" \in Ops /\ n \in 0..MaxRegs /\ n # 0
      BY <1>1, <1>2, <2>2 DEF NetInv, Ops, socketVars
    <3>2. IF "add" = "add" THEN n # 0 ELSE reg[f] # 0
      BY <3>1
    <3> HIDE DEF n, f
    <3>3. /\ reg' \in [Fds -> 0..MaxRegs] /\ on' \in [Fds -> BOOLEAN] /\ edge' \subseteq Fds
          /\ ended' \subseteq 1..MaxRegs
          /\ KernelOK'
          /\ \A g \in Fds \ {f} : reg'[g] = reg[g]
          /\ "add" = "add" => reg'[f] = n
          /\ Holding => /\ ended \subseteq ended'
                        /\ reg[f] \in ended' \cup {0, reg'[f]}
      BY <1>2, <2>2, <3>1, <3>2, ApplyKernel
    <3>4. orphans' = orphans /\ orphans \subseteq 1..MaxRegs
      BY <1>1, <2>2 DEF NetInv, TypeOK
    <3> QED
      BY <3>3, <3>4
  <2> QED
    BY <2>1, <2>2
<1>5. TypeOK'
  <2>1. Types
    BY TypeParts DEF NetInv
  <2>2. CallTypes'
    BY <1>3, <2>1 DEF Types, CallTypes
  <2>3. SocketTypes' /\ KernelTypes' /\ TableTypes' /\ AdminTypes'
    BY <1>1, <1>4, <2>1 DEF Types, SocketTypes, KernelTypes, TableTypes, AdminTypes, socketVars
  <2> QED
    BY <2>2, <2>3, TypeParts DEF Types
<1>6. admin.fd # f
  BY <1>2, NetAssumption DEF NetInv, AdminOK, NoChange, Fds
<1>7. ASSUME NEW s \in 1..Slots PROVE Tabled(s)'
  <2>1. Tabled(s) /\ watched[s].fd \in Fds \cup {None}
    BY Typed DEF NetInv, Entries
  <2>2. CASE watched[s].fd = f
    BY <1>1, <1>2, <1>3, <1>4, <1>6, <2>1, <2>2, NetAssumption
    DEF Tabled, Current, Coming, Fds, socketVars
  <2>3. CASE watched[s].fd # f
    BY <1>1, <1>2, <1>3, <1>4, <2>1, <2>3, NetAssumption
    DEF Tabled, Current, Coming, Fds, socketVars
  <2> QED
    BY <2>2, <2>3
<1>8. AdminOK'
  BY <1>1, <1>2, <1>3, <1>4, <1>6, NetAssumption DEF NetInv, AdminOK, Fds, socketVars
<1>9. ASSUME NEW w \in wait.todo \cup wait.out PROVE w.udata # 0 /\ Alive(w.fd, w.udata)'
  <2>1. Holding /\ w.udata # 0 /\ Alive(w.fd, w.udata) /\ w.fd \in Fds
    BY Typed DEF NetInv, WaitOK, Holding, Events
  <2>2. CASE w.fd = f
    BY <1>1, <1>2, <1>3, <1>4, <2>1, <2>2 DEF Alive, Coming
  <2>3. CASE w.fd # f
    BY <1>1, <1>2, <1>3, <1>4, <2>1, <2>3 DEF Alive, Coming
  <2> QED
    BY <2>2, <2>3
<1>10. WaitOK'
  <2>1. wait.todo = {} /\ (wait.out # {} => wait.at = "add")
    BY <1>1 DEF NetInv, WaitOK
  <2> QED
    BY <1>3, <1>9, <2>1 DEF WaitOK
<1> QED
  BY <1>4, <1>5, <1>7, <1>8, <1>10 DEF NetInv

\* An event of the kernel is of what is registered; there is room for it.
LEMMA ReturnsInv ==
    ASSUME NetInv, NEW fds \in SUBSET edge, KernelReturns(fds) PROVE NetInv'
<1> DEFINE new == {[fd |-> f, udata |-> reg[f]] : f \in fds}
           event == [f \in fds |-> [fd |-> f, udata |-> reg[f]]]
           out == wait.out \cup new
<1>1. /\ wait.change = None /\ Cardinality(fds) + Cardinality(wait.out) <= Capacity
      /\ wait.at \in {"plain", "slice", "add"}
      /\ edge' = edge \ fds
      /\ wait' = [wait EXCEPT !.at = "handle", !.out = @ \cup new]
      /\ UNCHANGED <<socketVars, reg, on, watched, admin, regs, orphans, ended>>
  BY DEF KernelReturns, Report, NetUnchanged, socketVars
<1>2. /\ reg \in [Fds -> 0..MaxRegs] /\ fds \subseteq Fds
      /\ \A f \in fds : reg[f] # 0
  BY DEF NetInv, TypeOK, KernelOK
<1>3. new \subseteq Events /\ \A e \in new : e.udata # 0 /\ e.udata = reg[e.fd]
  BY <1>2 DEF Events
<1>4. IsFiniteSet(fds) /\ Cardinality(fds) \in Nat
  BY <1>2, NetAssumption, FS_Subset, FS_CardinalityType DEF Fds
<1>5. IsFiniteSet(new) /\ Cardinality(new) <= Cardinality(fds) /\ Cardinality(new) \in Nat
  <2>1. event \in Surjection(fds, new)
    BY DEF Surjection
  <2>2. IsFiniteSet(new) /\ Cardinality(new) <= Cardinality(fds)
    <3> HIDE DEF new, event
    <3> QED
      BY <1>4, <2>1, FS_Surjection
  <2> QED
    BY <2>2, FS_CardinalityType
<1>6. out \subseteq Events /\ Cardinality(out) <= Capacity
  <2>1. IsFiniteSet(wait.out) /\ Cardinality(wait.out) \in Nat /\ wait.out \subseteq Events
    BY Typed
  <2> HIDE DEF new
  <2>2. Cardinality(out) =
            Cardinality(wait.out) + Cardinality(new) - Cardinality(wait.out \cap new)
    BY <1>5, <2>1, FS_Union
  <2>3. Cardinality(wait.out \cap new) \in Nat
    BY <2>1, FS_Intersection, FS_CardinalityType
  <2>4. Cardinality(out) <= Cardinality(wait.out) + Cardinality(new)
    BY <1>5, <2>1, <2>2, <2>3
  <2>5. Cardinality(out) \in Nat
    BY <1>5, <2>1, <2>2, <2>3, FS_Union, FS_CardinalityType
  <2>6. Cardinality(out) <= Capacity
    <3> HIDE DEF out
    <3> QED
      BY <1>1, <1>4, <1>5, <2>1, <2>4, <2>5, NetAssumption
  <2> QED
    BY <1>3, <2>1, <2>6
<1>7. \A e \in out : e \in wait.out \/ e \in new
  OBVIOUS
<1>8. wait' = [wait EXCEPT !.at = "handle", !.out = out]
  BY <1>1
<1> HIDE DEF out, new
<1>9. PICK w : w = [wait EXCEPT !.at = "handle", !.out = out]
  OBVIOUS
<1>10. w = [at |-> "handle", change |-> wait.change, number |-> wait.number,
            todo |-> wait.todo, out |-> out]
  BY <1>9, Typed DEF Waits
<1>11. /\ wait' \in Waits /\ wait'.at = "handle" /\ wait'.todo = wait.todo /\ wait'.out = out
       /\ wait'.change = wait.change /\ wait'.number = wait.number
  BY <1>6, <1>8, <1>9, <1>10, Typed DEF Waits, Events, Steps
<1>12. wait.todo = {} /\ \A e \in wait.out : e.udata # 0 /\ Alive(e.fd, e.udata)
  BY <1>1 DEF NetInv, WaitOK
<1>13. \A e \in wait'.todo \cup wait'.out : e.udata # 0 /\ Alive(e.fd, e.udata)'
  BY <1>1, <1>3, <1>7, <1>11, <1>12 DEF Alive, Coming
<1>14. ended' \subseteq 1..MaxRegs
  BY <1>1 DEF NetInv, TypeOK
<1> QED
  BY <1>1, <1>6, <1>11, <1>12, <1>13, <1>14, CallInv

\* The thread reads an event's socket, or is done with the event, or with all.
LEMMA HandleInv == ASSUME NetInv, Handle PROVE NetInv'
<1>1. /\ wait.at = "handle"
      /\ UNCHANGED <<sock, arrivals, kernelVars, watched, admin, regs, orphans>>
  BY DEF Handle
<1>2. /\ wait.change = None /\ wait.todo = {}
      /\ \A e \in wait.out : e.udata # 0 /\ Alive(e.fd, e.udata)
  BY <1>1 DEF NetInv, WaitOK
<1>3. CASE wait.out = {}
  <2>1. wait' = [wait EXCEPT !.at = "idle"] /\ ended' = {} /\ data' = data /\ "idle" \in Steps
    BY <1>3 DEF Handle, Go, Steps
  <2>2. /\ wait' \in Waits /\ wait'.at = "idle"
        /\ wait'.change = wait.change /\ wait'.number = wait.number
        /\ wait'.todo = wait.todo /\ wait'.out = wait.out
    BY <2>1, Moved
  <2>3. Cardinality(wait'.out) <= Capacity
    BY <2>2, Typed
  <2> QED
    BY <1>1, <1>2, <1>3, <2>1, <2>2, <2>3, CallInv DEF socketVars, kernelVars
<1>4. CASE wait.out # {}
  <2>1. PICK e \in wait.out :
          IF data[e.fd] > 0 /\ e.udata = reg[e.fd]
          THEN data' = [data EXCEPT ![e.fd] = @ - 1] /\ UNCHANGED wait
          ELSE wait' = [wait EXCEPT !.out = @ \ {e}] /\ UNCHANGED data
    BY <1>4 DEF Handle
  <2>2. ended' = ended
    BY <1>4 DEF Handle
  <2>3. CASE data[e.fd] > 0 /\ data' = [data EXCEPT ![e.fd] = @ - 1] /\ UNCHANGED wait
    <3>1. TypeOK'
      <4>1. Types
        BY TypeParts DEF NetInv
      <4>2. e.fd \in Fds /\ Buffer \in Nat
        BY Typed, NetAssumption DEF Events
      <4>3. SocketTypes'
        BY <1>1, <2>3, <4>1, <4>2 DEF Types, SocketTypes
      <4>4. KernelTypes' /\ TableTypes' /\ CallTypes' /\ AdminTypes'
        BY <1>1, <2>2, <2>3, <4>1
        DEF Types, KernelTypes, TableTypes, CallTypes, AdminTypes, kernelVars
      <4> QED
        BY <4>3, <4>4, TypeParts DEF Types
    <3>2. (\A s \in 1..Slots : Tabled(s)') /\ AdminOK'
      BY <1>1, <2>3, TableKept DEF kernelVars
    <3>3. WaitOK' /\ KernelOK'
      BY <1>1, <2>2, <2>3 DEF NetInv, WaitOK, Alive, Coming, KernelOK, kernelVars
    <3> QED
      BY <3>1, <3>2, <3>3 DEF NetInv
  <2>4. CASE wait' = [wait EXCEPT !.out = @ \ {e}] /\ UNCHANGED data
    <3>1. /\ wait' \in Waits /\ wait'.at = wait.at
          /\ wait'.change = wait.change /\ wait'.number = wait.number
          /\ wait'.todo = wait.todo /\ wait'.out = wait.out \ {e}
      BY <2>4, Typed DEF Waits, Events
    <3>2. Cardinality(wait.out \ {e}) <= Capacity
      <4>1. /\ Cardinality(wait.out \ {e}) <= Cardinality(wait.out)
            /\ Cardinality(wait.out \ {e}) \in Nat
        BY Typed, FS_Subset, FS_CardinalityType
      <4> QED
        BY <4>1, Typed, NetAssumption
    <3>3. \A w \in wait'.todo \cup wait'.out : w.udata # 0 /\ Alive(w.fd, w.udata)'
      BY <1>1, <1>2, <2>2, <3>1 DEF Alive, Coming, kernelVars
    <3>4. ended' \subseteq 1..MaxRegs
      BY <2>2 DEF NetInv, TypeOK
    <3> QED
      BY <1>1, <1>2, <2>4, <3>1, <3>2, <3>3, <3>4, CallInv DEF socketVars, kernelVars
  <2> QED
    BY <2>1, <2>3, <2>4
<1> QED
  BY <1>3, <1>4
------------------------------------------------------------------------------

\* Every step keeps the invariant.
LEMMA StepInv == NetInv /\ [Next]_vars => NetInv'
<1> SUFFICES ASSUME NetInv, [Next]_vars PROVE NetInv'
  OBVIOUS
<1>1. CASE Waiter
  <2>1. CASE Enter \/ SliceEnds
    BY <2>1, EnterInv
  <2>2. CASE \E fds \in SUBSET edge : KernelReturns(fds)
    BY <2>2, ReturnsInv
  <2> QED
    BY <1>1, <2>1, <2>2, SnapshotInv, PeekInv, ApplyOwnInv, HandleInv DEF Waiter
<1>2. CASE Call
  BY <1>2, KeventInv DEF Call
<1>3. CASE Others
  <2>1. CASE \E f \in Fds : Arrive(f) \/ Close(f)
    BY <2>1, ArriveInv, CloseInv
  <2>2. CASE \E f \in Fds : \/ f \in UdpFds /\ Open(f, "udp")
                            \/ f \in OtherFds /\ Open(f, "other")
    BY <2>2, OpenInv
  <2>3. CASE \E f \in Fds : \E op \in {"add", "delete", "enable", "disable"} : RecordChange(op, f)
    BY <2>3, RecordInv DEF Ops
  <2>4. CASE LimitEnds
    BY <2>4, EnterInv
  <2> QED
    BY <1>3, <2>1, <2>2, <2>3, <2>4, ApplyInv DEF Others
<1>4. CASE UNCHANGED vars
  BY <1>4 DEF vars, socketVars, kernelVars, NetInv, TypeOK, Tabled, Current, Coming, AdminOK,
              WaitOK, Alive, KernelOK
<1> QED
  BY <1>1, <1>2, <1>3, <1>4 DEF Next, NetThread

\* The table and the kernel differ only by the change under way and by closed sockets.
THEOREM NetInvariant == Spec => []NetInv
  BY InitInv, StepInv, PTL DEF Spec

\* The state keeps its types, and a call never returns more events than it has room for.
THEOREM TypeCorrect == Spec => []TypeOK
<1>1. NetInv => TypeOK
  BY DEF NetInv
<1> QED
  BY <1>1, NetInvariant, PTL

\* A socket deleted from the kqueue yields no event after that.
THEOREM NoEventOfTheDead == Spec => []DeletedIsSilent
<1>1. NetInv => DeletedIsSilent
  BY DEF NetInv, WaitOK, Alive, Coming, DeletedIsSilent
<1> QED
  BY <1>1, NetInvariant, PTL
=============================================================================
