\* One client: each call is answered before the next is made; jobs queue up.
CONSTANTS
  Calls = {c1, c2, c3, c4}
  Original = original
  NoRelease = NoRelease
  Installed = FALSE
  Requests <- EveryRequest
  MaxUnderWay = 1
  MaxCrashes = 0
  MaxFaults = 0
SYMMETRY CallSymmetry
SPECIFICATION Spec
INVARIANTS
  TruthfulStatus
  NoTombstone
PROPERTIES
  PromotionConsistent
  JobBringsUpItsTarget
CHECK_DEADLOCK FALSE
