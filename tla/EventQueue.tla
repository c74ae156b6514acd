------------------------------ MODULE EventQueue ------------------------------
(***************************************************************************)
(* Darling's event queue as libMacOBloxShims.m replaces it: threads ask    *)
(* for the next event of some types, post events and discard events, each  *)
(* call scanning one NSMutableArray under a spin lock; and what the main   *)
(* thread's sendEvent: does with key events, the keyboard state Roblox     *)
(* polls.  The keyboard and the mouse produce their events while the main  *)
(* thread's run loop runs inside nextEvent.  Events are numbered as they   *)
(* are posted, and each remembers which posts had ended when its own       *)
(* began: what the code cannot see and the properties speak of.            *)
(***************************************************************************)
EXTENDS Naturals, Sequences, SequencesExt

CONSTANTS
    Main,        \* the main thread
    Others,      \* threads that share its display (the rendering thread)
    Keys,        \* keys of the keyboard
    Paired,      \* the two keys of one modifier, as both shift keys
    Masks,       \* the event types that may be asked for or discarded at once
    Limit,       \* events kept at most (4096)
    MaxPosts,    \* bound on the events posted
    MaxCalls,    \* bound on the calls of other threads
    None         \* no thread, no key

Threads == {Main} \cup Others
Types == {"key", "mouse"}

ASSUME QueueAssumption ==
    /\ Main \notin Others /\ None \notin Threads \cup Keys
    /\ Paired \subseteq Keys /\ \A k, l, m \in Paired : k = l \/ l = m \/ k = m
    /\ Masks \subseteq SUBSET Types
    /\ Limit \in Nat /\ MaxPosts \in Nat /\ MaxCalls \in Nat

VARIABLES
    queue,       \* NSDisplay's _eventQueue
    lock,        \* macoblox_event_queue_lock: the thread that has it
    pc,          \* where each thread is in its call
    call,        \* the call's arguments and locals
    key_down,    \* macoblox_key_down
    held,        \* the keys held down
    posted,      \* events posted so far
    calls,       \* calls of other threads so far
    given,       \* events removed for a caller that asked
    gone,        \* events dropped by the limit or discarded
    upset        \* what may make the keyboard state wrong

vars == <<queue, lock, pc, call, key_down, held, posted, calls, given, gone, upset>>

NoEvent == [n |-> 0, type |-> "none", key |-> None, on |-> FALSE, front |-> FALSE,
            after |-> {}]
NewCall(mask, dequeue, before) ==
    [mask |-> mask, dequeue |-> dequeue, before |-> before, event |-> NoEvent, index |-> 0]
NoCall == NewCall({}, FALSE, 0)

Numbers(events) == {events[i].n : i \in DOMAIN events}

Init ==
    /\ queue = <<>> /\ lock = None
    /\ pc = [t \in Threads |-> "idle"]
    /\ call = [t \in Threads |-> NoCall]
    /\ key_down = [k \in Keys |-> FALSE] /\ held = {}
    /\ posted = 0 /\ calls = 0
    /\ given = {} /\ gone = {} /\ upset = {}

\* Mutant: the lock is taken whoever has it.
AcquireAnyway(t, from, to) ==
    /\ pc[t] = from
    /\ lock' = t
    /\ pc' = [pc EXCEPT ![t] = to]

\* macoblox_lock_event_queue: spins until the lock is free.
Acquire(t, from, to) ==
    /\ pc[t] = from
    /\ lock = None
    /\ lock' = t
    /\ pc' = [pc EXCEPT ![t] = to]

\* macoblox_unlock_event_queue, at the end of a call.
ReleaseTo(t, to) ==
    /\ lock' = None
    /\ pc' = [pc EXCEPT ![t] = to]

\* Another thread's calls are bounded; the main thread's are not.
CountCall(t) == /\ t = Main \/ calls < MaxCalls
                /\ calls' = IF t = Main THEN calls ELSE calls + 1

-----------------------------------------------------------------------------
(* hooked_display_post_event.                                              *)

\* What macoblox_track_key_event stores for a key: for the keys of a modifier whether
\* the modifier's flag is set, whichever of them the event is about.
Shown(key, down) == IF key \in Paired THEN (down \cap Paired) # {} ELSE key \in down

\* The events whose insertion is to come.
Arriving == {call[t].event.n : t \in {u \in Threads : pc[u] \in
               {"post", "inserting", "loop post", "loop inserting"}}}

NewEvent(type, key, on, front) ==
    [n |-> posted + 1, type |-> type, key |-> key, on |-> on, front |-> front,
     after |-> (1..posted) \ Arriving]

\* A thread posts `event` on the way from `from`; the insertion is to come.
Posting(t, from, event) ==
    /\ pc[t] = from /\ posted < MaxPosts
    /\ posted' = posted + 1
    /\ call' = [call EXCEPT ![t].event = event]
    /\ pc' = [pc EXCEPT ![t] = IF from = "loop" THEN "loop post" ELSE "post"]
    /\ UNCHANGED <<queue, lock, key_down, given, gone>>

\* The main thread's run loop brings a movement of the mouse ...
MouseMoves ==
    /\ Posting(Main, "loop", NewEvent("mouse", None, FALSE, FALSE))
    /\ UNCHANGED <<held, calls, upset>>

\* ... or a key that goes down or up.
KeyChanges(key) ==
    LET down == IF key \in held THEN held \ {key} ELSE held \cup {key} IN
    /\ Posting(Main, "loop", NewEvent("key", key, Shown(key, down), FALSE))
    /\ held' = down
    /\ upset' = IF Paired # {} /\ Paired \subseteq down THEN upset \cup {"both"} ELSE upset
    /\ UNCHANGED calls

\* A thread posts an event of its own, perhaps at the start of the queue.
PostEvent(t, at_start) ==
    /\ Posting(t, "idle", NewEvent("mouse", None, FALSE, at_start))
    /\ CountCall(t)
    /\ UNCHANGED <<held, upset>>

\* Mutant: at the start or not, the event goes to the start.
InsertionFirst(event) == <<event>> \o queue

Insertion(event) == IF event.front THEN <<event>> \o queue ELSE Append(queue, event)

Insert(t) ==
    /\ \/ /\ Acquire(t, "post", "inserting") \/ Acquire(t, "loop post", "loop inserting")
          /\ UNCHANGED <<queue, call>>
       \/ /\ pc[t] \in {"inserting", "loop inserting"}
          /\ queue' = Insertion(call[t].event)
          /\ call' = [call EXCEPT ![t].event = NoEvent]
          /\ ReleaseTo(t, IF pc[t] = "inserting" THEN "idle" ELSE "loop")
    /\ UNCHANGED <<key_down, held, posted, calls, given, gone, upset>>

-----------------------------------------------------------------------------
(* hooked_display_next_event.                                              *)

\* A thread asks for the next event of some types; first its run loop runs.
NextEvent(t, mask, dequeue) ==
    /\ pc[t] = "idle"
    /\ CountCall(t)
    /\ call' = [call EXCEPT ![t] = NewCall(mask, dequeue, 0)]
    /\ pc' = [pc EXCEPT ![t] = "loop"]
    /\ UNCHANGED <<queue, lock, key_down, held, posted, given, gone, upset>>

\* Mutant: as Darling did, the events in front of the result are removed on the way.
LookRemoving(t) ==
    /\ Acquire(t, "loop", "look")
    /\ LET wanted == {i \in DOMAIN queue : queue[i].type \in call[t].mask}
           first == IF wanted = {} THEN Len(queue) + 1 ELSE Min(wanted)
       IN /\ queue' = SubSeq(queue, first, Len(queue))
          /\ call' = [call EXCEPT ![t].index = IF wanted = {} THEN 0 ELSE 1,
                                  ![t].event = IF wanted = {} THEN NoEvent ELSE queue[first]]
    /\ UNCHANGED <<key_down, held, posted, calls, given, gone, upset>>

\* The lock is taken, and the first event of the types asked for is the result.
Look(t) ==
    /\ Acquire(t, "loop", "look")
    /\ LET wanted == {i \in DOMAIN queue : queue[i].type \in call[t].mask} IN
       call' = IF wanted = {} THEN call
               ELSE [call EXCEPT ![t].index = Min(wanted), ![t].event = queue[Min(wanted)]]
    /\ UNCHANGED <<queue, key_down, held, posted, calls, given, gone, upset>>

\* An index beyond the array's end raises an exception.
Raise(t) == pc' = [pc EXCEPT ![t] = "raised"]

\* Mutant: the result is handed out but stays queued.
TakeResultKept(t) ==
    /\ pc[t] = "look"
    /\ pc' = [pc EXCEPT ![t] = "trim"]
    /\ UNCHANGED <<queue, lock, call, key_down, held, posted, calls, given, gone, upset>>

\* The result leaves the queue, if it is to be dequeued.
TakeResult(t) ==
    /\ pc[t] = "look"
    /\ LET c == call[t] IN
       IF c.index = 0 \/ ~c.dequeue
       THEN pc' = [pc EXCEPT ![t] = "trim"] /\ UNCHANGED <<queue, given, upset>>
       ELSE IF c.index > Len(queue)
       THEN Raise(t) /\ UNCHANGED <<queue, given, upset>>
       ELSE /\ queue' = RemoveAt(queue, c.index)
            /\ given' = given \cup {c.event.n}
            /\ upset' = IF t # Main /\ c.event.type = "key" THEN upset \cup {"elsewhere"} ELSE upset
            /\ pc' = [pc EXCEPT ![t] = "trim"]
    /\ UNCHANGED <<lock, call, key_down, held, posted, calls, gone>>

\* Losing a key event.
Losing(event) == upset' = IF event.type = "key" THEN upset \cup {"lost"} ELSE upset

Overfull == Len(queue) > Limit

\* Beyond the limit the oldest events go; then the call is over.
Trim(t) ==
    /\ pc[t] = "trim"
    /\ IF Overfull
       THEN /\ queue' = Tail(queue)
            /\ gone' = gone \cup {Head(queue).n}
            /\ Losing(Head(queue))
            /\ UNCHANGED <<lock, pc, call>>
       ELSE /\ UNCHANGED <<queue, gone, upset>>
            /\ IF t = Main /\ call[t].dequeue /\ call[t].event # NoEvent
               THEN ReleaseTo(t, "send") /\ call' = [call EXCEPT ![t] = [NoCall EXCEPT !.event = call[t].event]]
               ELSE ReleaseTo(t, "idle") /\ call' = [call EXCEPT ![t] = NoCall]
    /\ UNCHANGED <<key_down, held, posted, calls, given>>

\* Mutant: a release is not stored.
SendEventSticky ==
    /\ pc[Main] = "send"
    /\ LET event == call[Main].event IN
       key_down' = IF event.on THEN [key_down EXCEPT ![event.key] = TRUE] ELSE key_down
    /\ pc' = [pc EXCEPT ![Main] = "idle"]
    /\ call' = [call EXCEPT ![Main] = NoCall]
    /\ UNCHANGED <<queue, lock, held, posted, calls, given, gone, upset>>

\* sendEvent: of the main thread: macoblox_track_key_event.
SendEvent ==
    /\ pc[Main] = "send"
    /\ LET event == call[Main].event IN
       key_down' = IF event.type = "key" THEN [key_down EXCEPT ![event.key] = event.on] ELSE key_down
    /\ pc' = [pc EXCEPT ![Main] = "idle"]
    /\ call' = [call EXCEPT ![Main] = NoCall]
    /\ UNCHANGED <<queue, lock, held, posted, calls, given, gone, upset>>

-----------------------------------------------------------------------------
(* hooked_display_discard_events.                                          *)

DiscardEvents(t, mask, before) ==
    /\ pc[t] = "idle"
    /\ CountCall(t)
    /\ call' = [call EXCEPT ![t] = NewCall(mask, FALSE, before)]
    /\ pc' = [pc EXCEPT ![t] = "discard"]
    /\ UNCHANGED <<queue, lock, key_down, held, posted, given, gone, upset>>

\* Mutant: the reference event itself is among the discarded.
StopAfter(before) ==
    IF before \in Numbers(queue) THEN CHOOSE i \in DOMAIN queue : queue[i].n = before ELSE Len(queue)

\* The last event to look at: the one in front of the reference event, or the last of
\* all when the reference is not in the queue.
StopBefore(before) ==
    IF before \in Numbers(queue)
    THEN (CHOOSE i \in DOMAIN queue : queue[i].n = before) - 1
    ELSE Len(queue)

FindStop(t) ==
    /\ Acquire(t, "discard", "sweep")
    /\ call' = [call EXCEPT ![t].index = StopBefore(call[t].before)]
    /\ UNCHANGED <<queue, key_down, held, posted, calls, given, gone, upset>>

\* One round of the sweep, from the stop down to the first event.
Sweep(t) ==
    /\ pc[t] = "sweep"
    /\ LET c == call[t] IN
       CASE c.index = 0 -> ReleaseTo(t, "idle") /\ call' = [call EXCEPT ![t] = NoCall]
                           /\ UNCHANGED <<queue, gone, upset>>
         [] c.index > Len(queue) -> Raise(t) /\ UNCHANGED <<queue, lock, call, gone, upset>>
         [] OTHER ->
              /\ IF queue[c.index].type \in c.mask
                 THEN /\ queue' = RemoveAt(queue, c.index)
                      /\ gone' = gone \cup {queue[c.index].n}
                      /\ Losing(queue[c.index])
                 ELSE UNCHANGED <<queue, gone, upset>>
              /\ call' = [call EXCEPT ![t].index = c.index - 1]
              /\ UNCHANGED <<lock, pc>>
    /\ UNCHANGED <<key_down, held, posted, calls, given>>

-----------------------------------------------------------------------------
\* What a thread does to get on with its call.
Step(t) ==
    \/ Insert(t) \/ Look(t) \/ TakeResult(t) \/ Trim(t)
    \/ FindStop(t) \/ Sweep(t)
    \/ t = Main /\ SendEvent

Call(t) ==
    \/ \E mask \in Masks, dequeue \in BOOLEAN : NextEvent(t, mask, dequeue)
    \/ \E at_start \in BOOLEAN : PostEvent(t, at_start)
    \/ \E mask \in Masks, before \in Numbers(queue) \cup {0} : DiscardEvents(t, mask, before)

Devices == MouseMoves \/ \E key \in Keys : KeyChanges(key)

Next == Devices \/ \E t \in Threads : Step(t) \/ Call(t)

Spec == Init /\ [][Next]_vars

-----------------------------------------------------------------------------
EventType == [n : 0..MaxPosts, type : Types \cup {"none"}, key : Keys \cup {None},
              on : BOOLEAN, front : BOOLEAN, after : SUBSET (1..MaxPosts)]

\* The state has its types: above all, no scan looks at an index beyond the array's end
\* (objectAtIndex: and removeObjectAtIndex:, 3402-3461, would raise).
TypeOK ==
    /\ queue \in Seq(EventType)
    /\ lock \in Threads \cup {None}
    /\ pc \in [Threads -> {"idle", "loop", "loop post", "loop inserting", "post", "inserting",
                           "look", "trim", "send", "discard", "sweep"}]
    /\ call \in [Threads -> [mask : SUBSET Types, dequeue : BOOLEAN, before : 0..MaxPosts,
                             event : EventType, index : Nat]]
    /\ key_down \in [Keys -> BOOLEAN] /\ held \subseteq Keys
    /\ posted \in 0..MaxPosts /\ calls \in 0..MaxCalls
    /\ given \subseteq 1..MaxPosts /\ gone \subseteq 1..MaxPosts
    /\ upset \subseteq {"both", "elsewhere", "lost"}

\* An event is in one place only: still to be inserted, queued, given to the caller
\* that asked for its type, or gone by the limit or a discard.  A scan takes nothing
\* that was not asked for (3359-3363), and two threads never get the same event.
EventsKept ==
    /\ Arriving \cup Numbers(queue) \cup given \cup gone = 1..posted
    /\ Len(queue) + Cardinality(Arriving) + Cardinality(given) + Cardinality(gone) = posted

\* Of two events whose posts did not overlap the earlier is to be handled first, unless
\* the later was posted at the start: then that one is.
Before(a, b) == (a.n \in b.after /\ ~b.front) \/ (b.n \in a.after /\ a.front)

\* Events wait in that order, whichever threads post them and whatever is taken or
\* discarded in between, and a caller gets the first of the types it asked for: a
\* release never comes before its press, and an event posted at the start comes before
\* all that wait (3359-3366).
InOrder ==
    /\ \A i, j \in DOMAIN queue : i < j => ~Before(queue[j], queue[i])
    /\ \A t \in Threads : pc[t] = "trim" /\ call[t].dequeue /\ call[t].event # NoEvent =>
         \A i \in DOMAIN queue :
             queue[i].type \in call[t].mask => ~Before(queue[i], call[t].event)

\* A discard before a queued event leaves that event and everything after it alone.
DiscardSpares ==
    [][\A t \in Threads :
         pc[t] = "sweep" /\ call[t].before \in Numbers(queue) =>
             \A i, j \in DOMAIN queue :
                 queue[i].n = call[t].before /\ i <= j => queue[j].n \in Numbers(queue')]_vars

\* Once the main thread has handled every key event, the state Roblox polls is the
\* keyboard's, unless both keys of a modifier were held, another thread took a key
\* event or one was dropped (2959-2989).
KeysTrue ==
    (upset = {} /\ pc[Main] = "idle" /\ \A i \in DOMAIN queue : queue[i].type # "key")
        => \A key \in Keys : key_down[key] = (key \in held)

\* Once no more events are posted every one that waits is given out or dropped in the
\* end, whatever other threads ask for or discard meanwhile.
QueueDrains == (posted = MaxPosts) ~> (queue = <<>>)
=============================================================================
