\* One client, a restart and a write that throws, each at any point.
CONSTANTS
  Calls = {c1, c2, c3}
  Original = original
  NoRelease = NoRelease
  Installed = FALSE
  Requests <- EveryRequest
  MaxUnderWay = 1
  MaxCrashes = 1
  MaxFaults = 1
SYMMETRY CallSymmetry
SPECIFICATION Spec
PROPERTIES
  RestartLosesNothing
  RollbackRestores
CHECK_DEADLOCK FALSE
