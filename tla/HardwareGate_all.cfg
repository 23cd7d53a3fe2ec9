CONSTANTS
    c1 = c1
    c2 = c2
    d1 = d1
    d2 = d2
    m1 = m1
    m2 = m2
    oracle = oracle
    vla = vla
    Consoles <- Two
    Motions <- TwoMotions
    JobMotion = m1
    Jobs <- ThreeJobs
    Modes <- OneMode
    Checkpoint <- OwnCheckpoints
    Dirs <- TwoDirs
    Exports <- TwoExports
    MaxAge = 0
    MaxStarts = 2
    MaxEvents = 1
    NONE = NONE
SPECIFICATION Spec
INVARIANTS
    RehearsedFirst
    PinnedBytesLoad
SYMMETRY Symmetric
CHECK_DEADLOCK FALSE
