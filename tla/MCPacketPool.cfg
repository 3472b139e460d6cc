SPECIFICATION Spec
CONSTANTS
  Thread = {t1, t2}
  Chunk = {k1, k2, k3, k4}
  Blocks = 2
  Null = null
SYMMETRY PoolSymmetry
INVARIANTS PacketHasItsOwners ChunkIsInOnePlace
CHECK_DEADLOCK FALSE
