SPECIFICATION Spec
CONSTANTS
  Slot = {s1}
  Acceptor = acceptor
  IOThread = {io1}
  Caller = {c1, c2}
  MaxPerSend = 2
  MaxUid = 2
  MaxCalls = 2
VIEW LiveState
SYMMETRY ThreadSymmetry
INVARIANTS NoStrandedPacket
CHECK_DEADLOCK FALSE
