---------------------------- MODULE MCRingBuffer -----------------------------
(* RingBuffer on a small array, for TLC. *)
EXTENDS RingBuffer
==============================================================================
