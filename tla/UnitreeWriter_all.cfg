SPECIFICATION LiveSpec
CONSTANT Poses <- OnePose
CHECK_DEADLOCK FALSE
INVARIANTS
    DriveNeedsRelease
    OpenGateSpeaks
    EmergencySticks
PROPERTY
    FaultDamps
