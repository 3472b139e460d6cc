------------------------------ MODULE ValueStack ------------------------------
(***************************************************************************)
(* What LockFreeStack promises: a stack of values.  A value is on the      *)
(* stack or outside it; Push and Pop move it atomically, last in, first    *)
(* out.  A call that returns false changes nothing.                        *)
(***************************************************************************)
EXTENDS Sequences

CONSTANT Value

VARIABLES
  stack,         \* the values on the stack, the top first
  outside        \* the values the callers have

vars == <<stack, outside>>

Init == stack = <<>> /\ outside = Value

Push(v) ==
  /\ v \in outside
  /\ stack' = <<v>> \o stack
  /\ outside' = outside \ {v}

Pop ==
  /\ stack # <<>>
  /\ outside' = outside \cup {Head(stack)}
  /\ stack' = Tail(stack)

Next == Pop \/ \E v \in Value : Push(v)

Spec == Init /\ [][Next]_vars
==============================================================================
