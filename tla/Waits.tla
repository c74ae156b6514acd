-------------------------------- MODULE Waits --------------------------------
(***************************************************************************)
(* darling_fixes.c: the mutex and the timed waits of Roblox's threads over *)
(* Darling's psynch calls, which may lose a wakeup.  A lock is tried many  *)
(* times before the thread trusts the real wait; a timed wait is cut into  *)
(* slices that end as spurious wakeups.                                    *)
(*                                                                         *)
(* One mutex; a tick is the unit of time.  The kernel hands a released     *)
(* mutex to the thread that waited longest, or loses that wakeup: the      *)
(* mutex is free then and the thread sleeps on.  MACOBLOX_NATIVE_MUTEX and *)
(* MACOBLOX_NATIVE_COND are unset, as the launcher leaves them.            *)
(***************************************************************************)
EXTENDS Naturals, Sequences, SequencesExt

CONSTANTS
    Threads, Conds,
    None,          \* no thread, no condition variable
    Tries,         \* trylocks before the real wait (1 + 64 + 4000)
    Slice,         \* COND_SLICE_NS, in ticks
    SliceMax,      \* COND_SLICE_MAX_NS
    MaxLost        \* bound on the lost wakeups

ASSUME WaitsAssumption ==
    /\ None \notin Threads \cup Conds
    /\ Tries \in Nat \ {0} /\ Slice \in Nat \ {0} /\ SliceMax \in Nat /\ Slice <= SliceMax
    /\ MaxLost \in Nat

VARIABLES
    owner,      \* the thread that holds the mutex
    queue,      \* the kernel's waiters for it, longest first
    call,       \* each thread's call into darling_fixes.c
    condKey,    \* the thread-specific cond_key and slice_key
    sliceKey,
    keysReady,  \* whether the keys could be created
    losses      \* wakeups lost so far

waitVars == <<owner, queue, call, condKey, sliceKey, keysReady, losses>>

NoCall == [at |-> "out", tries |-> 0, cond |-> None, left |-> 0, sliced |-> FALSE,
           ended |-> FALSE, result |-> "ok"]

WaitsInit ==
    /\ owner = None /\ queue = <<>> /\ losses = 0
    /\ call = [t \in Threads |-> NoCall]
    /\ condKey = [t \in Threads |-> None] /\ sliceKey = [t \in Threads |-> 0]
    /\ keysReady \in BOOLEAN

At(t, step) == call[t].at = step
------------------------------------------------------------------------------
(* macoblox_pthread_mutex_lock *)

Lock(t) ==
    /\ At(t, "out")
    /\ call' = [call EXCEPT ![t] = [NoCall EXCEPT !.at = "try"]]
    /\ UNCHANGED <<owner, queue, condKey, sliceKey, keysReady, losses>>

\* Mutant: one try too many.
TryLockOnceMore(t) ==
    /\ At(t, "try")
    /\ IF owner = None
       THEN owner' = t /\ call' = [call EXCEPT ![t] = NoCall]
       ELSE /\ call' = [call EXCEPT ![t].tries = @ + 1,
                                    ![t].at = IF call[t].tries + 1 <= Tries THEN @ ELSE "real"]
            /\ UNCHANGED owner
    /\ UNCHANGED <<queue, condKey, sliceKey, keysReady, losses>>

\* One pthread_mutex_trylock of the yields and naps; the last one that fails
\* goes on to the real lock.
TryLock(t) ==
    /\ At(t, "try")
    /\ IF owner = None
       THEN owner' = t /\ call' = [call EXCEPT ![t] = NoCall]
       ELSE /\ call' = [call EXCEPT ![t].tries = @ + 1,
                                    ![t].at = IF call[t].tries + 1 < Tries THEN @ ELSE "real"]
            /\ UNCHANGED owner
    /\ UNCHANGED <<queue, condKey, sliceKey, keysReady, losses>>

\* wait_finished: forgets the slice unless the wait ended on it.
WaitFinished(key, slicedOut) == IF slicedOut \/ ~keysReady THEN key ELSE 0

\* Mutant: every timeout is the caller's.
ResultRaw(c) == IF c.ended THEN "timedout" ELSE "ok"

\* A timeout on the slice looks like a spurious wakeup.
Result(c) == IF c.ended /\ ~c.sliced THEN "timedout" ELSE "ok"

\* The call of t returns, with the mutex.
Returned(t) ==
    /\ call' = [call EXCEPT ![t] = [NoCall EXCEPT !.result = Result(call[t])]]
    /\ sliceKey' = IF call[t].sliced
                   THEN [sliceKey EXCEPT ![t] = WaitFinished(@, call[t].ended)] ELSE sliceKey
    /\ UNCHANGED <<condKey, keysReady, losses>>

\* pthread_mutex_lock itself, called by the lock and by the end of a wait.
RealLock(t) ==
    \/ /\ At(t, "real") /\ owner = None
       /\ owner' = t
       /\ Returned(t) /\ UNCHANGED queue
    \/ /\ At(t, "real") /\ owner # None
       /\ call' = [call EXCEPT ![t].at = "psynch"] /\ queue' = Append(queue, t)
       /\ UNCHANGED <<owner, condKey, sliceKey, keysReady, losses>>
    \/ /\ At(t, "won")
       /\ Returned(t) /\ UNCHANGED <<owner, queue>>

\* The kernel's release of the mutex, `calls` being the calls without it.
Release(calls) ==
    \/ /\ queue = <<>>
       /\ owner' = None /\ call' = calls
       /\ UNCHANGED <<queue, losses>>
    \/ /\ queue # <<>>
       /\ queue' = Tail(queue)
       /\ \/ /\ owner' = Head(queue)
             /\ call' = [calls EXCEPT ![Head(queue)].at = "won"]
             /\ UNCHANGED losses
          \/ /\ losses < MaxLost
             /\ losses' = losses + 1
             /\ owner' = None
             /\ call' = [calls EXCEPT ![Head(queue)].at = "lost"]

Unlock(t) ==
    /\ owner = t /\ At(t, "out")
    /\ Release(call)
    /\ UNCHANGED <<condKey, sliceKey, keysReady>>

\* A signal ends a wait for the mutex: the thread looks at the lock again.
Interrupt(t) ==
    IF At(t, "lost") \/ At(t, "psynch")
    THEN /\ call' = [call EXCEPT ![t].at = "real"]
         /\ \/ At(t, "lost") /\ UNCHANGED queue
            \/ \E i \in DOMAIN queue : queue[i] = t /\ queue' = RemoveAt(queue, i)
    ELSE UNCHANGED <<call, queue>>
------------------------------------------------------------------------------
(* macoblox_pthread_cond_timedwait and its relative form *)

\* next_slice: doubled while the thread keeps waiting for one condition.
NextSlice(t, c) ==
    IF ~keysReady \/ condKey[t] # c \/ sliceKey[t] = 0 THEN Slice
    ELSE IF sliceKey[t] < SliceMax THEN 2 * sliceKey[t] ELSE sliceKey[t]

\* Mutant: the later of the two ends the wait.
TimedWaitLater(t, c, due) ==
    LET length == NextSlice(t, c)
        first  == due > length
    IN  /\ owner = t /\ At(t, "out")
        /\ Release([call EXCEPT ![t] = [NoCall EXCEPT !.at = "cond", !.cond = c, !.sliced = ~first,
                                                      !.left = IF first THEN due ELSE length]])
        /\ condKey' = IF keysReady THEN [condKey EXCEPT ![t] = c] ELSE condKey
        /\ sliceKey' = IF keysReady
                       THEN [sliceKey EXCEPT ![t] = WaitFinished(length, ~first)] ELSE sliceKey
        /\ UNCHANGED keysReady

\* The caller's own deadline is `due` ticks away; the earlier of the two ends
\* the wait, and with both at once it is the caller's.
TimedWait(t, c, due) ==
    LET length == NextSlice(t, c)
        first  == due <= length
    IN  /\ owner = t /\ At(t, "out")
        /\ Release([call EXCEPT ![t] = [NoCall EXCEPT !.at = "cond", !.cond = c, !.sliced = ~first,
                                                      !.left = IF first THEN due ELSE length]])
        /\ condKey' = IF keysReady THEN [condKey EXCEPT ![t] = c] ELSE condKey
        /\ sliceKey' = IF keysReady
                       THEN [sliceKey EXCEPT ![t] = WaitFinished(length, ~first)] ELSE sliceKey
        /\ UNCHANGED keysReady

\* pthread_cond_signal: the kernel wakes a waiter of c, or loses that too.
Signal(c) ==
    LET waiters == {t \in Threads : At(t, "cond") /\ call[t].cond = c}
    IN  \/ /\ waiters = {}
           /\ UNCHANGED <<call, losses>>
        \/ /\ \E t \in waiters : call' = [call EXCEPT ![t].at = "real"]
           /\ UNCHANGED losses
        \/ /\ waiters # {} /\ losses < MaxLost
           /\ losses' = losses + 1
           /\ UNCHANGED call

\* The kernel's timeout; the thread takes the mutex before it returns.
TimeOut(t) ==
    /\ At(t, "cond") /\ call[t].left = 0
    /\ call' = [call EXCEPT ![t].at = "real", ![t].ended = TRUE]
    /\ UNCHANGED <<owner, queue, condKey, sliceKey, keysReady, losses>>

WaitStep(t) == TryLock(t) \/ RealLock(t) \/ TimeOut(t)

\* A tick: the kernel's timers are never late.
WaitsPass ==
    /\ \A t \in Threads : At(t, "cond") => call[t].left > 0
    /\ call' = [t \in Threads |-> IF At(t, "cond") THEN [call[t] EXCEPT !.left = @ - 1] ELSE call[t]]
    /\ UNCHANGED <<owner, queue, condKey, sliceKey, keysReady, losses>>
==============================================================================
