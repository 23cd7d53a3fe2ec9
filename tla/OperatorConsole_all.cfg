CONSTANTS
    MaxKeys = 4
    MaxInterrupts = 2
    NONE = NONE
SPECIFICATION ConsoleSpec
INVARIANTS
    LeavesLimp
    ZeroIsSuccess
PROPERTIES
    DampIsAnswered
    RunsEnd
CHECK_DEADLOCK FALSE
