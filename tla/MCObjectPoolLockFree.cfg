SPECIFICATION Spec
CONSTANTS
  Thread = {t1, t2}
  Block = {b1, b2, b3, b4, b5}
  Null = null
  MaxRented = 3
  MaxOps = 10
SYMMETRY ThreadBlockSymmetry
INVARIANTS BlockHasOneOwner ReservationsAreBacked CapacityIsBounded
CHECK_DEADLOCK FALSE
