\* What a document or a comment says and the code does not do.  TLC stops at the
\* first: leave one.
SPECIFICATION Spec
CONSTANTS
  AutoAcks <- OperatorHoist
  EndStates <- StandAtEnd
CHECK_DEADLOCK FALSE
INVARIANTS
    ConfirmedIsReleased
    PrecheckForgetsFaults
    RetakeAnswers
    PrimedRests
    NextEpisodeCanStart
    GateOnlyWhereOwned
PROPERTIES
    FaultIsThisRamp
    HandsBackTaut
    SteppingIsNoFault
