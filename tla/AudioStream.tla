----------------------------- MODULE AudioStream -----------------------------
(***************************************************************************)
(* What the shim's output unit promises FMOD and the listener about the    *)
(* sound: samples are numbered in the order FMOD rendered them; at most    *)
(* Capacity of them are kept; the device is given them in that order, each *)
(* exactly once; and only a restart of the output drops any.  Nothing is   *)
(* said of threads, rings or counters.                                     *)
(***************************************************************************)
EXTENDS Naturals

CONSTANT Capacity    \* samples the unit may hold between FMOD and the device

VARIABLES
    promised,    \* number of the next sample the device has not been offered
    owed,        \* number of the next sample the device has not been given
    heard        \* the samples of the last delivery, oldest first

streamVars == <<promised, owed, heard>>

StreamInit ==
    /\ promised = 0
    /\ owed = 0
    /\ heard = <<>>

\* n freshly rendered samples are offered to the device.
Offer(n) ==
    /\ (promised + n) - owed <= Capacity
    /\ promised' = promised + n
    /\ UNCHANGED <<owed, heard>>

\* The device is given the n oldest samples it is owed.
Deliver(n) ==
    /\ n <= promised - owed
    /\ heard' = [i \in 1..n |-> owed + i - 1]
    /\ owed' = owed + n
    /\ UNCHANGED promised

\* The output starts over: what was not played before is dropped.
Restart ==
    /\ owed' = promised
    /\ UNCHANGED <<promised, heard>>

StreamNext ==
    \/ \E n \in 0..Capacity : Offer(n) \/ Deliver(n)
    \/ Restart

StreamSpec == StreamInit /\ [][StreamNext]_streamVars
=============================================================================
