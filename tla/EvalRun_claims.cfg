\* What a document or a comment says and the code does not do.  TLC stops at the
\* first: leave one.
\* A run ends.
CHECK_DEADLOCK FALSE
SPECIFICATION Spec
CONSTANTS
  Episodes = 2
  MaxSteps = 3
  Horizon = 2
  MaxRestarts = 1
INVARIANTS
    TornDown
    DeadPolicyFailsRun
    SimLogKept
    AlwaysReported
    BlowUpFails
    EveryEpisodeHasARow
