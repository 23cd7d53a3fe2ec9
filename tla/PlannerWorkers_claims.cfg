\* What a document or a comment says and the code does not do.  TLC stops at the
\* first: leave one.
\* The worker is closed, or the bounds are reached.
CHECK_DEADLOCK FALSE
SPECIFICATION WorkersSpec
CONSTANTS
    Frames = 2
    Stride = 2
    Hold = 3
    Lead = 2
    Length = 3
    MaxAsks = 3
    MaxRuns = 2
    NONE = NONE
INVARIANTS
    SeedOfThisRun
    PairedResponse
    ShortestCovers
PROPERTY
    RestartedAnswered
