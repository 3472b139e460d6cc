SPECIFICATION LiveSpec
CONSTANTS
  Slot = {s1}
  Acceptor = acceptor
  IOThread = {io1, io2}
  Caller = {c1}
  MaxPerSend = 1
  MaxUid = 2
  MaxCalls = 1
VIEW LiveState
PROPERTIES GoneClientsAreReleased
CHECK_DEADLOCK FALSE
