SPECIFICATION FairSpec
CONSTANTS
  j1 = j1
  j2 = j2
  j3 = j3
  d1 = d1
  none = none
  Jobs = {j1, j2}
  Deployments = {d1}
  NoDeployment = none
  DeploymentOf <- TwoTogether
  Workers = {w1, w2}
  MaxConcurrency = 2
  CancelTargets = {}
  DiscardTargets = {d1}
  ClearTargets = {}
  MaxCrashes = 1
  MaxFaults = 0
PROPERTIES ImplementsLock NobodyStarves
CHECK_DEADLOCK FALSE
