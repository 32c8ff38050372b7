SPECIFICATION Spec
CONSTANTS
  TileShape <- Tile
  IovMax = 2
  Deployments <- MCDeployments
  Plans <- MCPlans
INVARIANTS
  CompletedMeansLanded
  DeviceNeverTorn
  CountsDrain
PROPERTIES
  DeviceCatchesUp
  RequestsSettle
CHECK_DEADLOCK FALSE
