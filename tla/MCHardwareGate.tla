---------------------------- MODULE MCHardwareGate ----------------------------
EXTENDS HardwareGate, TLC

CONSTANTS c1, c2, d1, d2, m1, m2, oracle, vla
Two == {c1, c2}
TwoDirs == {d1, d2}
TwoMotions == {m1, m2}
Symmetric == Permutations(Two) \cup Permutations(TwoDirs)
OneMode == {oracle}
TwoModes == {oracle, vla}
\* A job for the plant and its hardware twin, and another for the hardware.
PlantAndTwin == {[net |-> "lo", source |-> oracle], [net |-> "robot", source |-> oracle]}
ThreeJobs == PlantAndTwin \cup {[net |-> "robot", source |-> vla]}
OneExport == {"e1"}
TwoExports == {"e1", "e2"}
\* Each of its own checkpoint, or both of one.
OwnCheckpoints == [e \in TwoExports |-> e]
OneCheckpoint == [e \in TwoExports |-> "sha"]
===============================================================================
