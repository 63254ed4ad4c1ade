\* Two requests, two claims, one report, one restart, failed access or withdrawal of consent.
SPECIFICATION FairSpec
CONSTANTS
  Requests = {r1, r2}
  Claims = {k1, k2}
  Reports = {e1}
  NoRequest = NoRequest
  MaxMishaps = 1
INVARIANTS
  ExactlyOnceClaim
  WaiterKeepsRecord
PROPERTIES
  OutcomeStands
  EveryWaitEnds
CHECK_DEADLOCK FALSE
