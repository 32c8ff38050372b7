SPECIFICATION Spec
CONSTANTS
  Unit = {u1, u2}
  Uuid = {g1}
  Attempt = {a1, a2}
  None = None
  Ttl = 4
  RpcMax = 1
  TransferMax = 1
  MaxRestarts = 1
SYMMETRY Symmetry
CONSTRAINT SomeCovered
INVARIANTS SourceBlocksHeld
