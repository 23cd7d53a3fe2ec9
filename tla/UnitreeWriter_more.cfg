SPECIFICATION LiveSpec
CONSTANT Poses <- OnePose
CHECK_DEADLOCK FALSE
INVARIANT
    TypeOK
    EmergencyInv
PROPERTY
    StaleCommandLeavesControl
