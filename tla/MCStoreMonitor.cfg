SPECIFICATION MonitorFairSpec
CONSTANTS
  Block = {b1, b2}
  Period = 2
  SweepPeriod = 2
  TtlBeats = 3
  StepMax = 1
  Low = 1
  High = 2
  MaxEvict = 2
  MaxTargets = 2
  MaxAllocs = 3
INVARIANTS
  LapseNeedsMisses
  SweepPinsReturned
PROPERTIES
  StoreComesBack
CHECK_DEADLOCK FALSE
