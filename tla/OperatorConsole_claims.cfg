\* What a document or a comment says and the code does not do.  TLC stops at the
\* first: leave one.
CONSTANTS
    MaxKeys = 4
    MaxInterrupts = 2
    NONE = NONE
SPECIFICATION ConsoleSpec
CHECK_DEADLOCK FALSE
INVARIANTS
    DampNeverWaits
    ClosedMeansDamped
    ExitDamps
PROPERTY
    QuitWaits
