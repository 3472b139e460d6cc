SPECIFICATION MCSpec
CONSTANTS
  Session = {s1, s2}
  Account = {a1, a2}
  User = {u1, u2}
  Packet = {p1, p2}
  Receiver = {r1, r2}
  None = None
  Side = 3
  Request <- Requests
  MaxCallbacks = 5
  FewCallbacks = 2
  MaxTicks = 1
  MaxLate = 1
INVARIANTS UsersAreConsistent PacketsAreShared OnlyLateRequestsLeaveGhosts MessagesReachNeighbours
PROPERTIES LeftUsersAreRemoved QuitTerminates
CHECK_DEADLOCK FALSE
