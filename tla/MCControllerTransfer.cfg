SPECIFICATION CtlSpec
CONSTANTS
  c1 = c1
  c2 = c2
  Calls <- MCCalls
  Clients <- MCClients
  Scenarios <- MCScenarios
  NumBlocks = 4
  MaxAccess = 20
CHECK_DEADLOCK FALSE
INVARIANTS
  LockOwnership
  ShardsNeverMix
  StagingOutlivesCopies
PROPERTIES
  OkMeansCopied
  CallsSettle
