------------------------------ MODULE Handover ------------------------------
(***************************************************************************)
(* What the lifecycle promises about the joints: who may write rt/lowcmd.  *)
(*                                                                         *)
(* The vendor's motion service and our writer are the two controllers.     *)
(* The service is let go only while our damp frames are on the wire, our   *)
(* writer moves a joint only while the service is gone, and the service    *)
(* comes back only after our writer has gone silent.                       *)
(*                                                                         *)
(* One thing it does not promise: a motion switcher that does not answer   *)
(* is taken for one without a service, which is then there unheard.        *)
(***************************************************************************)
VARIABLES
  vendor,   \* the motion service holds the joints
  unheard,  \* it does, and was taken to be gone because nothing answered
  ours      \* what our writer sends: "nothing", "damp" frames, or it "drives"

vars == <<vendor, unheard, ours>>

TypeOK ==
  /\ vendor \in BOOLEAN /\ unheard \in BOOLEAN
  /\ ours \in {"nothing", "damp", "drives"}

Init == vendor = TRUE /\ unheard = FALSE /\ ours = "nothing"

OpenGate == ours = "nothing" /\ ours' = "damp" /\ UNCHANGED <<vendor, unheard>>

Release ==
  /\ ours = "damp" /\ UNCHANGED ours
  /\ \/ vendor' = FALSE /\ unheard' = FALSE
     \/ vendor /\ vendor' /\ unheard' = TRUE

\* The service is heard of: what was taken for granted no longer is.
Hear == vendor /\ ours # "drives" /\ unheard' = FALSE /\ UNCHANGED <<vendor, ours>>

Drive ==
  /\ ~vendor \/ unheard
  /\ ours = "damp" /\ ours' = "drives" /\ UNCHANGED <<vendor, unheard>>

Damp == ours = "drives" /\ ours' = "damp" /\ UNCHANGED <<vendor, unheard>>

Silence == ours = "damp" /\ ours' = "nothing" /\ UNCHANGED <<vendor, unheard>>

Restore ==
  ours = "nothing" /\ vendor' = TRUE /\ unheard' = FALSE /\ UNCHANGED ours

Next == OpenGate \/ Release \/ Hear \/ Drive \/ Damp \/ Silence \/ Restore

Spec == Init /\ [][Next]_vars

\* Two controllers never fight for a joint, as far as the switcher answers.
OneController == ours = "drives" => ~vendor \/ unheard

=============================================================================
