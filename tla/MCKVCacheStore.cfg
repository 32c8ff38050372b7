SPECIFICATION Spec
CONSTANTS
  Actor = {a1, a2}
  Key = {k1, k2}
  Block = {b1, b2}
  Capacity = 1
  MaxBatch = 2
  Foreign = Foreign
  None = None
SYMMETRY Symmetry
INVARIANTS
  BlockOwnership
  HostBytesIntact
