SPECIFICATION Spec
CONSTANTS
  Thread = {t1, t2}
  Value = {v1, v2, v3}
  Node = {n1, n2, n3}
  Null = null
  MaxCapacity = 3
  MaxOps = 7
SYMMETRY ThreadNodeSymmetry
INVARIANTS ReservationsAreBacked
PROPERTIES ImplementsStack
CHECK_DEADLOCK FALSE
