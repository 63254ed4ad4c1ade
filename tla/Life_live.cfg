\* Two calls that may overlap and a restart.
CONSTANTS
  Calls = {c1, c2}
  Original = original
  NoRelease = NoRelease
  Installed = TRUE
  Requests <- Waiting
  MaxUnderWay = 2
  MaxCrashes = 1
  MaxFaults = 0
SPECIFICATION FairSpec
PROPERTIES
  SharesLock
  EverythingEnds
CHECK_DEADLOCK FALSE
