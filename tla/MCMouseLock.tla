----------------------------- MODULE MCMouseLock -----------------------------
(* MouseLock with the code's own 100 and 48 pixels in a window of 300: a    *)
(* lock may begin in its middle or at its edge (where the anchor moves in), *)
(* two steps of 51 pixels or three of 34 take the pointer out of reach, and *)
(* only the steps of 34 are ever merged.  Three calls allow a warp inside a *)
(* lock and a second lock.                                                  *)
EXTENDS MouseLock

MCStarts == {10, 150}
MCSteps == {-34, 51}
MCTargets == {130}
=============================================================================
