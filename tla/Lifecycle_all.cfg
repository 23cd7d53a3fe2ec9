SPECIFICATION LiveSpec
CONSTANTS
  AutoAcks <- EitherHoist
  EndStates <- EveryEnd
CHECK_DEADLOCK FALSE
INVARIANTS
    OwningHasGate
    FaultNeedsPrecheck
PROPERTIES
    HandsOver
    RunningEnds
