------------------------------ MODULE Mailbox ------------------------------
(***************************************************************************)
(* What a mailbox of shm_command_slot.hpp promises its users: one cell     *)
(* that holds the newest packet.  Packets are numbered in the order they   *)
(* are published; a read that returns a packet returns the one that is     *)
(* held at that moment, whole.                                             *)
(***************************************************************************)
EXTENDS Naturals

VARIABLES held,   \* the newest published packet, 0 before the first
          seen    \* the packet the reader got last, 0 before the first

vars == <<held, seen>>

Init == held = 0 /\ seen = 0

Publish == held' = held + 1 /\ UNCHANGED seen
Read    == held > 0 /\ seen' = held /\ UNCHANGED held

Next == Publish \/ Read

Spec == Init /\ [][Next]_vars
=============================================================================
