-------------------------- MODULE MCUnitreeWriter --------------------------
(* UnitreeWriter with one pose (the mode races) or two (the ramp targets). *)
EXTENDS UnitreeWriter

OnePose  == {"stance"}
TwoPoses == {"stance", "frame 0"}

=============================================================================
