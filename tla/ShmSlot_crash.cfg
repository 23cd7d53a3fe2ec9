SPECIFICATION Spec
CONSTANTS
  Words = 3
  Attempts = 2
  CrashInside = TRUE
  MaxPackets = 4
INVARIANT ConsistentView
