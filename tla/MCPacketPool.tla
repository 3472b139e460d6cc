----------------------------- MODULE MCPacketPool -----------------------------
(* PacketPool on a small instance, for TLC. *)
EXTENDS PacketPool, TLC

\* Threads, and chunks, are interchangeable.
PoolSymmetry == Permutations(Thread) \cup Permutations(Chunk)
===============================================================================
