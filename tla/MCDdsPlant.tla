----------------------------- MODULE MCDdsPlant -----------------------------
(* DdsPlant with the vendor and the gantry, with either, and bare.          *)
EXTENDS DdsPlant

AllConfigs == {c \in Config : c.freeze <=> c.vendor = c.hoist}
Rehearsal  == {[vendor |-> TRUE, hoist |-> TRUE, freeze |-> FALSE]}
GantryOnly == {[vendor |-> FALSE, hoist |-> TRUE, freeze |-> FALSE]}
=============================================================================
