\* The bounds end a behaviour: the system itself goes on.
CHECK_DEADLOCK FALSE
SPECIFICATION Spec
CONSTANTS
  Setups <- AllSetups
  StaleTicks = 2
  AbsentTicks = 2
  MaxTicks = 6
  MaxRuns = 2
  MaxPushes = 2
INVARIANTS
    CommandOfThisRun
    PlanIsAligned
    PromptPlannerServes
    SilenceStops
