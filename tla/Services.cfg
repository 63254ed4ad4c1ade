\* What comes before and around a deployment, on its small instance.
CONSTANTS
  Calls = {c1, c2}
  Naming = {c2}
  Entries = {e1, e2}
  Bundles = {b1, b2}
  Dir <- Sanitized
  Mutable = {b1}
  Deployments = {d1, d2}
  Apps = {d1, d2, d3}
  Dual = {d1}
  Hosts = {h1, h2}
  LastVersion = 3
  Prerelease = {3}
  Floor <- NoFloor
  Waypoints <- ByTheSecond
  Captured = {1, 3, 4}
  Target = 3
  MaxValue = 1
  MaxDigest = 2
  MaxJobs = 3
  MaxSwaps = 3
  MaxMeddling = 1
  MaxChanges = 1
  MaxEntries = 4
  MaxFileSize = 2
  MaxPublished = 2
  MaxCommands = 3
  MaxUploads = 1
  MaxStates = 3
  MaxDrafts = 2
  MaxEdits = 1
  MaxUpdates = 2
  MaxTroubles = 1
  MaxFailures = 2
SPECIFICATION Spec
INVARIANTS
  TypesOK
  DraftsKept
  RestoresAsAgreed
  NothingForgotten
  WizardTrue
  BundlesWhole
  ClaimsHold
  LogKept
  PushKeepsWord
PROPERTIES
  UpgradesRight
  
  NothingLost
  StartsRestored
  ShowsNothingOlder
  HostStaysWhole
CHECK_DEADLOCK FALSE
