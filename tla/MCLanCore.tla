------------------------------ MODULE MCLanCore ------------------------------
(* Instances of LanCore for TLC. *)
EXTENDS LanCore, TLC
==============================================================================
