---------------------------- MODULE MCLockFreeQueue ----------------------------
(* LockFreeQueue on a small instance, for TLC. *)
EXTENDS LockFreeQueue, TLC
================================================================================
