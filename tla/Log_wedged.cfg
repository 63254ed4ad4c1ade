\* Three entries and no failures; a file is full after two entries.
CONSTANTS
  MaxEntries = 3
  MaxFileSize = 2
  MaxTroubles = 0
SPECIFICATION FairSpec
PROPERTY LogCallsReturn
CHECK_DEADLOCK FALSE
