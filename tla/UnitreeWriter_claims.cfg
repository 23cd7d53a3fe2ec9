\* What a document or a comment says and the code does not do.  TLC stops at the
\* first: leave one.
SPECIFICATION Spec
CONSTANT Poses <- TwoPoses
CHECK_DEADLOCK FALSE
INVARIANTS
    WaitsWhereRampEnded
    DrivesAlone
PROPERTY
    HeldRobotStays
