SPECIFICATION Spec
CONSTANTS
  j1 = j1
  j2 = j2
  j3 = j3
  d1 = d1
  none = none
  NoDeployment = none
  MaxConcurrency = 2
  Jobs = {j1, j2, j3}
  Deployments = {d1}
  DeploymentOf <- TwoAndFleet
  Workers = {w1, w2}
  CancelTargets = {j1}
  DiscardTargets = {}
  ClearTargets = {"cancelled"}
  MaxCrashes = 0
  MaxFaults = 0
INVARIANTS LifecycleExclusion HeldExactlyWhileOwned SlotsAccountedFor
SYMMETRY WorkerSymmetry
CHECK_DEADLOCK FALSE
