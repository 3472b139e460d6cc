-------------------------- MODULE MCObjectPoolLockFree --------------------------
(* ObjectPoolLockFree on small instances, for TLC. *)
EXTENDS ObjectPoolLockFree, TLC

\* Threads, and blocks, are interchangeable (used for safety only).
ThreadBlockSymmetry == Permutations(Thread) \cup Permutations(Block)
================================================================================
