\* One client, and a restart: the job service is cold while the client promotes.
CONSTANTS
  Calls = {c1, c2}
  Original = original
  NoRelease = NoRelease
  Installed = TRUE
  Requests <- EveryRequest
  MaxUnderWay = 1
  MaxCrashes = 1
  MaxFaults = 0
SYMMETRY CallSymmetry
SPECIFICATION Spec
PROPERTIES
  JobBringsUpItsTarget
CHECK_DEADLOCK FALSE
