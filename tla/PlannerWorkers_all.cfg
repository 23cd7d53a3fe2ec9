\* The worker is closed, or the bounds are reached.
CHECK_DEADLOCK FALSE
SPECIFICATION WorkersSpec
CONSTANTS
    Frames = 2
    Stride = 2
    Hold = 3
    Lead = 2
    Length = 3
    MaxAsks = 3
    MaxRuns = 2
    NONE = NONE
INVARIANTS
    AnswersItsRequest
    BlockCovers
PROPERTY
    NewestAnswered
