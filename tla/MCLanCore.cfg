SPECIFICATION LiveSpec
CONSTANTS
  Slot = {s1}
  Acceptor = acceptor
  IOThread = {io1, io2}
  MaxPerSend = 2
  MaxUid = 2
  MaxCalls = 3
INVARIANTS CountIsExact SlotHasOneOwner OneSendAtATime
PROPERTIES ImplementsEvents GoneClientsAreReleased
CHECK_DEADLOCK FALSE
