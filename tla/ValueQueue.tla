------------------------------ MODULE ValueQueue ------------------------------
(***************************************************************************)
(* What LockFreeQueue promises: a queue of values.  A value is in the      *)
(* queue or outside it.  Values enter at the end, one or several at a time *)
(* (a value linked behind a node that is not linked itself yet becomes     *)
(* visible together with it), and leave at the front, one at a time.  A    *)
(* call that returns false changes nothing.                                *)
(***************************************************************************)
EXTENDS Naturals, Sequences, FiniteSets

CONSTANT Value

VARIABLES
  queue,         \* the values in the queue, the oldest first
  outside        \* the values the callers have

Init == queue = <<>> /\ outside = Value

Enqueue(batch) ==
  LET values == {batch[i] : i \in DOMAIN batch} IN
  /\ \A i, j \in DOMAIN batch : batch[i] = batch[j] => i = j
  /\ values \subseteq outside
  /\ queue' = queue \o batch
  /\ outside' = outside \ values

Dequeue ==
  /\ queue # <<>>
  /\ outside' = outside \cup {Head(queue)}
  /\ queue' = Tail(queue)

Next ==
  \/ Dequeue
  \/ \E k \in 1..Cardinality(Value) : \E batch \in [1..k -> Value] : Enqueue(batch)

vars == <<queue, outside>>

Spec == Init /\ [][Next]_vars
==============================================================================
