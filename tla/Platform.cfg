\* Components that stand by themselves, and what they promise eventually.
CONSTANT Providers = {p1, p2}
SPECIFICATION FairSpec
INVARIANT TypesOK
PROPERTIES
  DumpsReleased
  IndexHeals
  SourceReleased
  ViewsConverge
CHECK_DEADLOCK FALSE
