SPECIFICATION Spec
CONSTANTS
  Slot = {s1}
  Acceptor = acceptor
  IOThread = {io1}
  Caller = {c1}
  MaxPerSend = 1
  MaxUid = 2
  MaxCalls = 1
VIEW LiveState
INVARIANTS CountNeverNegative
CHECK_DEADLOCK FALSE
