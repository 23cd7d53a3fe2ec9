SPECIFICATION LiveSpec
CONSTANTS
  Words = 3
  Attempts = 2
  CrashInside = FALSE
  MaxPackets = 4
INVARIANT
    ConsistentView
PROPERTIES
    IsMailbox
    Fresh
