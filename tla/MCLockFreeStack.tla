---------------------------- MODULE MCLockFreeStack ----------------------------
(* LockFreeStack on small instances, for TLC. *)
EXTENDS LockFreeStack, TLC

\* Threads, and nodes, are interchangeable (used for safety only).
ThreadNodeSymmetry == Permutations(Thread) \cup Permutations(Node)
==============================================================================
