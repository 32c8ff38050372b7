SPECIFICATION PushSpec
CONSTANTS
  Uuid = {r1, r2}
  NumLayers = 1
  Stream = {s1, s2}
  SendSlot = {p}
  RecvSlot = {q}
  SlotBlocks <- MCSlotBlocks
  MaxBlocks = 3
  Offered = {4, 5, 6, 7}
  Wanted <- MCWanted
  None = None
SYMMETRY Symmetry
INVARIANTS
  DoneIntact
  PollSeesEveryUpload
  NoReadForgotten
CHECK_DEADLOCK FALSE
