---------------------------- MODULE MCEventQueue ----------------------------
(* Monitors with two threads and two keys, both of one modifier: three     *)
(* events are enough for a press, its release and one event in between or  *)
(* in front, and one more than the two the queue may keep.  Three monitors *)
(* are one more than the table has places for, and leave a hole in it.     *)
EXTENDS Monitors

MCMasks == {{"mouse"}, {"key", "mouse"}}

Bounds(posts, others, adds) == [posts |-> posts, calls |-> others, adds |-> adds]

MCTraffic == {Bounds(3, 1, 0), Bounds(3, 0, 1), Bounds(1, 0, 3)}
=============================================================================
