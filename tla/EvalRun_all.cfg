\* A run ends.
CHECK_DEADLOCK FALSE
SPECIFICATION Spec
CONSTANTS
  Episodes = 2
  MaxSteps = 3
  Horizon = 2
  MaxRestarts = 1
INVARIANTS
    ReportedIsStopped
    ChunkOfThisEpisode
    CalmIsServed
PROPERTY
    Ends
