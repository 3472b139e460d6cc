SPECIFICATION Spec
CONSTANTS
  Slot = {s1}
  Acceptor = acceptor
  IOThread = {io1, io2}
  Caller = {c1, c2}
  MaxPerSend = 1
  MaxUid = 2
  MaxCalls = 2
VIEW LiveState
SYMMETRY ThreadSymmetry
INVARIANTS TypeOK CountCoversRefs ThrowsForCause SlotHasOneOwner CleanWhenReused UsersKeepItAlive OneSendPerOverlapped
PROPERTIES ReleasedForCause ImplementsEvents
CHECK_DEADLOCK FALSE
