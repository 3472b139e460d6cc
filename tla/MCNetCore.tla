------------------------------ MODULE MCNetCore ------------------------------
(***************************************************************************)
(* NetCore on small instances, for TLC.  One slot is enough for the        *)
(* session life cycle: threads meet on a slot, and the slots share nothing *)
(* but the pool and the connection counter.                                *)
(***************************************************************************)
EXTENDS NetCoreEvents, TLC

\* Callers are interchangeable, and so are IO threads (for safety only).
ThreadSymmetry == Permutations(Caller) \cup Permutations(IOThread)

\* The state without the registers that are dead: did outside
\* TryReleaseSession, and a caller's arguments once they were used.  They are
\* assigned again before they are read, by an action or by a property.
LiveState ==
  <<managerVars, sessionVars, sendVars, kernelVars, appVars, pc, cur, again,
    [t \in Thread |-> IF pc[t] \in ReleaseLabel THEN did[t] ELSE 0],
    [t \in Thread |-> IF pc[t] \in {"find", "inc", "check_id", "check_released", "enqueue"}
                      THEN <<want[t], arg[t]>> ELSE <<>>]>>
==============================================================================
