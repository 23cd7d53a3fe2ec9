CONSTANTS
    MaxKeys = 4
    MaxInterrupts = 2
    NONE = NONE
SPECIFICATION ConsoleSpec
INVARIANTS
    ConsoleTypeOK
    ConsoleInv
CHECK_DEADLOCK FALSE
