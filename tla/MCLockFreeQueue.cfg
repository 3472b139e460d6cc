SPECIFICATION LiveSpec
CONSTANTS
  Producer = {p1, p2}
  Consumer = {k1}
  Value = {v1, v2}
  Node = {n1, n2, n3, n4}
  Null = null
  MaxOps = 4
INVARIANTS QueueIsConsistent
PROPERTIES ImplementsQueue CallsReturn
CHECK_DEADLOCK FALSE
