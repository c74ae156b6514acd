------------------------------ MODULE NetThreads ------------------------------
(***************************************************************************)
(* The network side of Roblox's client over darling_fixes.c and            *)
(* net_trace.c: the receive thread reads datagrams and passes them on      *)
(* under the mutex, the update thread waits for them with a deadline, and  *)
(* the watchdog nudges a receive thread that left data in the socket.      *)
(* The two threads are what the code's comments report of the client.      *)
(***************************************************************************)
EXTENDS Waits, Receive

CONSTANTS Reader, Updater,   \* the two threads
          Passed,            \* the condition variable of the inbox
          Uses               \* how a client may use the calls

ASSUME NetThreadsAssumption ==
    /\ Reader # Updater /\ Threads = {Reader, Updater}
    /\ Passed \in Conds
    /\ Uses \subseteq [receive : {"emulated", "now", "recv"}, timeout : Timeouts,
                       deadline : Nat, conds : SUBSET Conds, keys : BOOLEAN]

VARIABLES
    use,       \* which receive, SO_RCVTIMEO, deadline and conditions; whether it got its keys
    doing,     \* where each thread is in its own code
    inbox,     \* something passed on and not yet taken
    due,       \* ticks to the update thread's deadline
    awaited,   \* the condition variable it waits for
    missed     \* observation: ticks it has slept since what it waits for happened

vars == <<waitVars, receiveVars, use, doing, inbox, due, awaited, missed>>

Init ==
    /\ WaitsInit /\ ReceiveInit /\ use \in Uses /\ keysReady = use.keys
    /\ doing = [t \in Threads |-> "start"]
    /\ inbox = FALSE /\ due = 0 /\ awaited = None /\ missed = 0

Goes(t, from, to) == doing[t] = from /\ doing' = [doing EXCEPT ![t] = to]
Stays == UNCHANGED <<use, doing, inbox, due, awaited>>
Asleep == At(Updater, "cond") /\ awaited = Passed /\ inbox
Missed == missed' = IF Asleep' THEN missed ELSE 0
------------------------------------------------------------------------------
(* The receive thread: receive, lock, pass on, signal, unlock *)

ReaderCalls ==
    /\ Goes(Reader, "start", "receiving")
    /\ \/ use.receive = "emulated" /\ CallEmulated(use.timeout)
       \/ use.receive = "now" /\ ReceiveNow
       \/ use.receive = "recv" /\ (CallRecv \/ (data > 0 /\ ReceiveNow))
    /\ UNCHANGED <<waitVars, use, inbox, due, awaited, missed>>

ReaderReceives == ReceiveStep /\ Stays /\ UNCHANGED <<waitVars, missed>>

ReaderReceived ==
    /\ recv.at = "out" /\ At(Reader, "out")
    /\ IF recv.result = "data"
       THEN Goes(Reader, "receiving", "locking") /\ Lock(Reader)
       ELSE Goes(Reader, "receiving", "start") /\ UNCHANGED waitVars
    /\ UNCHANGED <<receiveVars, use, inbox, due, awaited, missed>>

PassOn ==
    /\ owner = Reader /\ At(Reader, "out")
    /\ Goes(Reader, "locking", "unlocking")
    /\ inbox' = TRUE
    /\ Signal(Passed)
    /\ UNCHANGED <<owner, queue, condKey, sliceKey, keysReady, receiveVars, use, due, awaited>>
    /\ Missed

ReaderUnlocks ==
    /\ Goes(Reader, "unlocking", "start") /\ Unlock(Reader)
    /\ UNCHANGED <<receiveVars, use, inbox, due, awaited, missed>>
------------------------------------------------------------------------------
(* The update thread: lock, wait until what it waits for or the deadline,   *)
(* take, unlock.  It looks again after every wakeup, as POSIX asks.         *)

UpdaterStarts ==
    /\ Goes(Updater, "start", "holding") /\ Lock(Updater)
    /\ due' = use.deadline /\ awaited' \in use.conds
    /\ UNCHANGED <<receiveVars, use, inbox, missed>>

Holding == doing[Updater] = "holding" /\ owner = Updater /\ At(Updater, "out")
Content == (inbox /\ awaited = Passed) \/ call[Updater].result = "timedout"

UpdaterWaits ==
    /\ Holding /\ ~Content
    /\ TimedWait(Updater, awaited, due)
    /\ Stays /\ UNCHANGED receiveVars
    /\ Missed

UpdaterTakes ==
    /\ Holding /\ Content
    /\ Goes(Updater, "holding", "start")
    /\ inbox' = FALSE /\ due' = 0 /\ awaited' = None
    /\ Unlock(Updater) /\ UNCHANGED <<receiveVars, use, missed>>

WaitSteps(t) == WaitStep(t) /\ Stays /\ UNCHANGED receiveVars /\ Missed
------------------------------------------------------------------------------
Network == Arrive /\ Stays /\ UNCHANGED <<waitVars, missed>>

Watchdog ==
    /\ \/ Look /\ UNCHANGED waitVars
       \/ /\ MarkAndSignal
          /\ Interrupt(Reader)
          /\ UNCHANGED <<owner, condKey, sliceKey, keysReady, losses>>
    /\ Stays /\ UNCHANGED missed

Tick ==
    /\ WaitsPass /\ ReceivePasses
    /\ due' = IF due > 0 THEN due - 1 ELSE 0
    /\ missed' = IF Asleep THEN missed + 1 ELSE 0
    /\ UNCHANGED <<use, doing, inbox, awaited>>

ReaderSteps == ReaderCalls \/ ReaderReceives \/ ReaderReceived \/ PassOn \/ ReaderUnlocks
UpdaterSteps == UpdaterStarts \/ UpdaterWaits \/ UpdaterTakes

Next ==
    \/ ReaderSteps \/ UpdaterSteps
    \/ \E t \in Threads : WaitSteps(t)
    \/ Network \/ Watchdog \/ Tick

\* Threads that can run do, the watchdog's thread too, and time passes however
\* busy they are.  Nothing is assumed of the network, nor of a lost wakeup.
Fairness ==
    /\ WF_vars(ReaderSteps) /\ WF_vars(UpdaterSteps)
    /\ \A t \in Threads : WF_vars(WaitSteps(t))
    /\ WF_vars(Watchdog) /\ SF_vars(Tick)

Spec == Init /\ [][Next]_vars
FairSpec == Spec /\ Fairness
------------------------------------------------------------------------------
TypeOK ==
    /\ owner \in Threads \cup {None} /\ queue \in Seq(Threads) /\ losses \in 0..MaxLost
    /\ call \in [Threads -> [at : {"out", "try", "real", "psynch", "lost", "won", "cond"},
                             tries : 0..Tries, cond : Conds \cup {None}, left : Nat,
                             sliced : BOOLEAN, ended : BOOLEAN, result : {"ok", "timedout"}]]
    /\ condKey \in [Threads -> Conds \cup {None}] /\ sliceKey \in [Threads -> Nat]
    /\ keysReady \in BOOLEAN
    /\ data \in 0..Buffer /\ reader \in BOOLEAN /\ age \in 0..Never /\ dumped \in BOOLEAN
    /\ recv \in [at : {"out", "try", "poll", "asleep"}, timeout : Timeouts \cup {0}, waited : Nat,
                 left : Nat, heard : BOOLEAN, result : {"none", "data", "again", "interrupted"}]
    /\ watch \in {"asleep", "look", "signal"}
    /\ use \in Uses /\ doing \in [Threads -> {"start", "receiving", "locking", "unlocking", "holding"}]
    /\ inbox \in BOOLEAN /\ due \in Nat /\ awaited \in Conds \cup {None} /\ missed \in Nat

\* A signal that Darling lost delays the waiting thread by one slice at most,
\* and a slice never reaches twice COND_SLICE_MAX_NS (next_slice).
NewsSeenInASlice == missed < 2 * SliceMax

\* A timed wait reports a timeout only when the caller's own deadline has
\* come, however often it was sliced, and never sleeps beyond that deadline.
DeadlineKept ==
    [][/\ ~At(Updater, "out") /\ call'[Updater].result = "timedout" => due = 0
       /\ Tick /\ At(Updater, "cond") => due > 0]_vars

\* An emulated receive gives up only on an empty socket whose SO_RCVTIMEO has
\* run out, and at most a tick after that.
RcvTimeoutKept ==
    [][recv.at = "try" /\ recv'.result = "again" =>
         /\ data = 0 /\ recv.timeout > 0
         /\ recv.waited \in recv.timeout..recv.timeout + 1]_vars

\* The receive thread sleeps in Darling although nothing keeps it there.
Stuck == At(Reader, "lost") \/ (recv.at = "asleep" /\ ~recv.heard)
Stalled == Stuck /\ data > 0 /\ reader /\ age < Old

\* The watchdog ends a stall, be it a lost wakeup of the mutex or a blocking
\* receive that missed its data, unless it has marked this stall already.
StallEnds == Stalled /\ ~dumped ~> ~Stuck

\* The same of every stall, as the comment on start_reporter has it.
EveryStallEnds == Stalled ~> ~Stuck
==============================================================================
