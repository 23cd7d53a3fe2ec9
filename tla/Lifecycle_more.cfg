SPECIFICATION LiveSpec
CONSTANTS
  AutoAcks <- EitherHoist
  EndStates <- EveryEnd
CHECK_DEADLOCK FALSE
INVARIANTS
    TypeOK
    HandedBackSilent
    PolicyRunsInTheRun
    HoldJoined
    IndInv
