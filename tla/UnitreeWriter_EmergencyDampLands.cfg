SPECIFICATION Spec
CONSTANT Poses <- OnePose
INVARIANT EmergencyDampLands
CHECK_DEADLOCK FALSE
