\* The run ends.
CHECK_DEADLOCK FALSE
SPECIFICATION LoopSpec
CONSTANTS
    Episodes = 2
    MaxSteps = 7
    AbsentTicks = 2
    Frames = 4
    Window = 2
    HoldSteps = 2
    Slots = 2
    Past = 2
    Stride = 2
    MaxPublished = 3
    Switches = {2}
    NONE = NONE
INVARIANTS
    PlayedOnTime
    AskedInThisEpisode
    RecentHistory
    UnfedStops
PROPERTIES
    PlaysNewest
    Ends
