\* What a document or a comment says and the code does not do.  TLC stops at the
\* first: leave one.  Smaller sizes are enough and faster: MaxStarts = 2 for
\* ExactBundleRehearsed; OneMode, PlantAndTwin and OneExport for NewestIsJudged.
CONSTANTS
    c1 = c1
    c2 = c2
    d1 = d1
    d2 = d2
    m1 = m1
    m2 = m2
    oracle = oracle
    vla = vla
    Consoles <- Two
    Motions <- TwoMotions
    JobMotion = m1
    Jobs <- ThreeJobs
    Modes <- TwoModes
    Checkpoint <- OneCheckpoint
    Dirs <- TwoDirs
    Exports <- TwoExports
    MaxAge = 0
    MaxStarts = 3
    MaxEvents = 1
    NONE = NONE
SPECIFICATION Spec
CHECK_DEADLOCK FALSE
INVARIANT
    PinnedBytesRun
    ExactBundleRehearsed
    ModeRehearsed
PROPERTIES
    FaultedDoesNotVouch
    NewestIsJudged
