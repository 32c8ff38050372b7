SPECIFICATION Spec
CONSTANTS
  Scenario <- Requests
  Plans <- MCPlans
  MaxAttempts = 2
  MaxFaults = 1
  Old = Old
  Blank = Blank
INVARIANTS
  DoneIntact
  NothingMisplaced
  SentMeansReceived
  ReportedOnce
  CleanTransfersComplete
PROPERTIES
  TransfersSettle
CHECK_DEADLOCK FALSE
