\* Two calls under way at once, three in all: what the lifecycle lock keeps apart.
CONSTANTS
  Calls = {c1, c2, c3}
  Original = original
  NoRelease = NoRelease
  Installed = TRUE
  Requests <- Contended
  MaxUnderWay = 2
  MaxCrashes = 0
  MaxFaults = 0
SYMMETRY CallSymmetry
SPECIFICATION Spec
PROPERTIES
  DataTouchedOnlyWhileDown
CHECK_DEADLOCK FALSE
