---------------------------- MODULE MCLifecycle ----------------------------
(* Lifecycle in every configuration, or in the one of a hardware run.      *)
EXTENDS Lifecycle

EitherHoist   == BOOLEAN
OperatorHoist == {FALSE}
EveryEnd      == {"vendor_stand", "vendor_damp", "damp"}
StandAtEnd    == {"vendor_stand"}

=============================================================================
