SPECIFICATION LiveSpec
CONSTANTS
  ByteCount = 4
  BitXor <- MCBitXor
  BodyCapacity = 7
  Cap = 11
  PacketCode = 1
  PacketEncodeKey = 2
  Option <- MCOption
  Message <- MCMessage
  MaxSent = 3
INVARIANTS GoodSendersStayConnected
PROPERTIES ImplementsChannel Arrives
CHECK_DEADLOCK FALSE
