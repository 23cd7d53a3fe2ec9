\* What a document or a comment says and the code does not do.  TLC stops at the
\* first: leave one.
\* The bounds end a behaviour: the system itself goes on.
CHECK_DEADLOCK FALSE
SPECIFICATION Spec
CONSTANTS
  Setups <- AllSetups
  StaleTicks = 2
  AbsentTicks = 2
  MaxTicks = 6
  MaxRuns = 2
  MaxPushes = 2
PROPERTIES
    StaleReplyHarmless
    DampLatches
