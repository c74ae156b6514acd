------------------------------- MODULE Monitors -------------------------------
(***************************************************************************)
(* The main thread's sendEvent: with the game's event monitors, composed   *)
(* with the event queue.  The table of monitors is changed and copied      *)
(* under a spin lock with no call inside, so each is one step; the         *)
(* handlers are called from the copy, after the lock was released, and may *)
(* themselves add and remove monitors, as other threads may.               *)
(*                                                                         *)
(* A monitor is the address of its copied block; a removed one's may be    *)
(* given to the next.  Every handler is a block of its own, never one      *)
(* registered twice.                                                       *)
(***************************************************************************)
EXTENDS EventQueue

CONSTANTS
    Blocks,     \* addresses of blocks
    Places,     \* the table's length (32)
    Traffic     \* bounds that go together: events, other threads' calls, monitors added

ASSUME MonitorsAssumption ==
    /\ None \notin Blocks /\ Places \in Nat
    /\ Traffic \subseteq [posts : 0..MaxPosts, calls : 0..MaxCalls, adds : Nat]

VARIABLES
    bounds,      \* the bounds
    monitors,    \* macoblox_monitors; a registration's number is an observation
    dispatch,    \* the main thread's sendEvent: its locals, what ran, and what was
                 \* registered when it began or removed since
    added        \* registrations asked for

monitorVars == <<bounds, monitors, dispatch, added>>
inputVars == <<vars, monitorVars>>

NoMonitor == [block |-> None, mask |-> {}, n |-> 0]
Beginning(at, type, since) ==
    [at |-> at, type |-> type, handlers |-> <<>>, heard |-> {}, since |-> since, removed |-> FALSE]
NoDispatch == Beginning("out", "none", 0)

InputInit ==
    /\ Init /\ bounds \in Traffic
    /\ monitors = [i \in 1..Places |-> NoMonitor]
    /\ dispatch = NoDispatch /\ added = 0

\* A thread may call: the main thread between its calls and in a handler.
MayCall(t) == pc[t] = "idle" /\ (t = Main => dispatch.at \in {"out", "handler"})

\* event_add_local_monitor: the block is copied and goes to the first free
\* place; with a full table it is released and the game gets no monitor.
AddMonitor(t, mask) ==
    /\ MayCall(t) /\ added < bounds.adds
    /\ added' = added + 1
    /\ LET free == {i \in 1..Places : monitors[i].block = None}
       IN  \/ free = {} /\ UNCHANGED monitors
           \/ \E b \in Blocks \ {monitors[i].block : i \in 1..Places} :
                  /\ free # {}
                  /\ monitors' = [monitors EXCEPT ![Min(free)] =
                         [block |-> b, mask |-> mask, n |-> added']]
    /\ UNCHANGED <<vars, bounds, dispatch>>

\* event_remove_monitor, which also releases the block.
RemoveMonitor(t) ==
    /\ MayCall(t)
    /\ \E i \in 1..Places :
           monitors[i].block # None /\ monitors' = [monitors EXCEPT ![i] = NoMonitor]
    /\ dispatch' = [dispatch EXCEPT !.removed = dispatch.at # "out"]
    /\ UNCHANGED <<vars, bounds, added>>

\* The queue's steps.  An event the main thread sends goes on to the monitors,
\* unless it is a motion the mouse lock's filter keeps.
Queue(t, step) ==
    /\ step /\ posted' <= bounds.posts /\ calls' <= bounds.calls
    /\ t = Main => dispatch.at = "out"
    /\ \/ /\ t = Main /\ pc[t] = "send"
          /\ dispatch' = Beginning("snapshot", call[t].event.type, added)
       \/ (t = Main /\ pc[t] = "send" => call[t].event.type = "mouse") /\ UNCHANGED dispatch
    /\ UNCHANGED <<bounds, monitors, added>>

QueueStep(t) == Queue(t, Step(t))

Asked(m) == m.block # None /\ dispatch.type \in m.mask

\* The blocks that are asked for this event in the table's first n places, in their order.
CopyOf(n) ==
    LET copy[i \in 0..Places] ==
            IF i = 0 THEN <<>>
            ELSE IF Asked(monitors[i]) THEN Append(copy[i - 1], monitors[i].block)
            ELSE copy[i - 1]
    IN  copy[n]

Copied(handlers) ==
    /\ dispatch.at = "snapshot"
    /\ dispatch' = [dispatch EXCEPT !.at = "call", !.handlers = handlers]
    /\ UNCHANGED <<vars, bounds, monitors, added>>

\* Mutant: the copy ends at the first free place.
SnapshotToHole ==
    LET free == {i \in 1..Places : monitors[i].block = None} \cup {Places + 1}
    IN  Copied(CopyOf(Min(free) - 1))

\* hooked_app_send_event copies the handlers of the event's type.
Snapshot == Copied(CopyOf(Places))

\* The next handler of the copy is called; what runs is what is at its address.
CallHandler ==
    /\ dispatch.at = "call" /\ dispatch.handlers # <<>>
    /\ dispatch' = [dispatch EXCEPT !.at = "handler", !.handlers = Tail(@),
           !.heard = @ \cup {monitors[i].n : i \in
               {j \in 1..Places : monitors[j].block = Head(dispatch.handlers)}}]
    /\ UNCHANGED <<vars, bounds, monitors, added>>

\* It gives the event back, or nil: then nobody else gets it.
HandlerReturns ==
    /\ dispatch.at = "handler"
    /\ dispatch' \in {[dispatch EXCEPT !.at = "call"], NoDispatch}
    /\ UNCHANGED <<vars, bounds, monitors, added>>

\* After the last handler the event goes to AppKit's sendEvent:.
Forward ==
    /\ dispatch.at = "call" /\ dispatch.handlers = <<>>
    /\ dispatch' = NoDispatch
    /\ UNCHANGED <<vars, bounds, monitors, added>>

Dispatch == Snapshot \/ CallHandler \/ HandlerReturns \/ Forward

InputNext ==
    \/ Queue(Main, Devices)
    \/ \E t \in Threads :
           \/ QueueStep(t) \/ Queue(t, Call(t))
           \/ RemoveMonitor(t) \/ \E mask \in Masks : AddMonitor(t, mask)
    \/ Dispatch

InputSpec == InputInit /\ [][InputNext]_inputVars

\* A thread gets on with its call, the main thread's loop asks for every type of
\* event again and again, and handlers return.
InputFairSpec ==
    /\ InputSpec
    /\ \A t \in Threads : WF_inputVars(QueueStep(t))
    /\ SF_inputVars(Queue(Main, NextEvent(Main, Types, TRUE)))
    /\ WF_inputVars(Dispatch)
-------------------------------------------------------------------------------
\* The state has its types, the queue's with it: no scan looks beyond the end.
InputTypeOK ==
    /\ TypeOK /\ bounds \in Traffic
    /\ monitors \in [1..Places -> [block : Blocks \cup {None}, mask : SUBSET Types, n : 0..added]]
    /\ dispatch \in [at : {"out", "snapshot", "call", "handler"}, type : Types \cup {"none"},
                     handlers : Seq(Blocks), heard : SUBSET (1..added), since : 0..added,
                     removed : BOOLEAN]
    /\ added \in 0..bounds.adds

\* An event that no handler keeps reaches every monitor of its type that was
\* there when it was sent and still is, whatever other monitors come and go
\* meanwhile; and a block is called after its release only when a monitor was
\* removed while the handlers ran (3009-3017 copy bare pointers).
MonitorsHear ==
    /\ dispatch.at = "call" =>
         \A i \in 1..Places :
             LET m == monitors[i]
             IN  m.block # None /\ m.n <= dispatch.since /\ dispatch.type \in m.mask
                     => m.n \in dispatch.heard \/ m.block \in Range(dispatch.handlers)
    /\ ~dispatch.removed =>
         \A k \in DOMAIN dispatch.handlers : \E i \in 1..Places :
             monitors[i].block = dispatch.handlers[k] /\ dispatch.type \in monitors[i].mask
===============================================================================
