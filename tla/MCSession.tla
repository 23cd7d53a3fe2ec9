----------------------------- MODULE MCSession -----------------------------
(* Session with one selection of either kind, on a robot and in simulation. *)
EXTENDS Session, TLC

CONSTANTS oracle, vla, a1, a2

Both    == {oracle, vla}
Oracle  == {oracle}
Two     == {a1, a2}
Places  == Permutations(Two)
=============================================================================
