----------------------------- MODULE MCAudioRing -----------------------------
(* AudioRing on a small ring.  Four slots and blocks of two make the ring  *)
(* wrap, fill and empty; requests of one and three frames split blocks and *)
(* run dry; six samples are three blocks, over as many restarts as wished. *)
EXTENDS AudioRing

MCRequests == {1, 3}
=============================================================================
