----------------------------- MODULE MCNetThreads -----------------------------
(***************************************************************************)
(* Bounds for NetThreads.  A socket is read in one way, with one           *)
(* SO_RCVTIMEO, and each use is paired with the update thread's waits it   *)
(* is interesting with: long sliced ones, or ones that only keep the mutex *)
(* busy.                                                                   *)
(***************************************************************************)
EXTENDS NetThreads

CONSTANTS passed, other

Client(receive, timeout, deadline, conds, keys) ==
    [receive |-> receive, timeout |-> timeout, deadline |-> deadline, conds |-> conds, keys |-> keys]

MCUses == {Client("emulated", 4, 1, {passed}, TRUE), Client("emulated", 0, 2, {passed}, FALSE),
           Client("recv", 0, 2, {passed, other}, TRUE), Client("now", 0, 8, {passed}, TRUE)}

\* One whose receive does not wait, for the watchdog's part alone.
MCPollingUse == {Client("now", 0, 1, {passed}, TRUE)}
===============================================================================
