CONSTANTS
  Key = {k1, k2, k3}
  Value = {v1, v2}
  NoValue = NoValue
  Capacity = 2
  MaxPins = 2
  MaxCalls = 6
SPECIFICATION Spec
INVARIANTS
  ReclaimOrder
PROPERTIES
  RefinesPromise
CHECK_DEADLOCK FALSE
