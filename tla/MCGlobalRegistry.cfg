SPECIFICATION RegistrySpec
CONSTANTS
  Store = {s1, s2}
  Hash = {h1, h2}
  BatchSize = 1
  MaxBatch = 2
  None = None
  Proc <- MCProc
  Id <- MCId
  Deployments <- MCDeployments
  MaxTargets = 1
  MaxBusy = 1
  MaxFaults = 1
  Nil = Nil
CHECK_DEADLOCK FALSE
SYMMETRY Symmetry
INVARIANTS
  IndexDerived
  PullComplete
  ListedServes
  NothingOutlivesItsStore
  GroupAgrees
