SPECIFICATION Spec
CONSTANTS
  j1 = j1
  j2 = j2
  j3 = j3
  d1 = d1
  none = none
  NoDeployment = none
  MaxConcurrency = 2
  Jobs = {j1, j2, j3}
  Deployments = {d1}
  DeploymentOf <- TwoAndFleet
  Workers = {w1}
  CancelTargets = {}
  DiscardTargets = {d1}
  ClearTargets = {}
  MaxCrashes = 1
  MaxFaults = 1
PROPERTIES EachJobDrivenOnce OutcomeIsFinal
CHECK_DEADLOCK FALSE
