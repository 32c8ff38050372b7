CONSTANTS
  Op = {o1}
  Key = {k1}
  Batch <- MCBatch
  Poller = {p1, p2}
  RpcDeadline = 2
  Hold = 4
  Margin = 1
  Cap = 3
  RecordMargin = 1
  LastOffer = 1
  MaxTime = 7
  None = None
SPECIFICATION FairSpec
INVARIANTS
  CommittedBytesIntact
  HoldCoversDeadline
PROPERTIES
  SavesSettle
CHECK_DEADLOCK FALSE
