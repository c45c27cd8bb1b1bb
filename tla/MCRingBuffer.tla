---------------------------- MODULE MCRingBuffer ----------------------------
(* A ring of three slots, polled until it has wrapped twice, in a small    *)
(* word.                                                                   *)
EXTENDS RingBuffer

MCSteps == 0 .. 3
=============================================================================
