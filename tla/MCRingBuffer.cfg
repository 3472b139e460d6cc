SPECIFICATION Spec
CONSTANTS
  Cap = 4
  Byte = {0, 1}
  MaxChunk = 5
INVARIANTS
  IndicesAgree
  DirectRunsAreFree
PROPERTIES
  ImplementsByteQueue
