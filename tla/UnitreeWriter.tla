--------------------------- MODULE UnitreeWriter ---------------------------
(***************************************************************************)
(* The native rt/lowcmd writer (unitree_backend.cpp): the one mode word    *)
(* that five threads load and store without a lock.                        *)
(*                                                                         *)
(*   operator   the lifecycle, one call at a time (op, arg)                *)
(*   emergency  the UI thread's lock-free force_damp                       *)
(*   handler    the DDS callback for rt/lowstate (h)                       *)
(*   writer     the 500 Hz loop that publishes rt/lowcmd (w, wMode, wPose) *)
(*   control    the control thread: write_target and damp (c)              *)
(*                                                                         *)
(* Each atomic load-then-store pair of the code is two steps here, so a    *)
(* store of another thread may fall between them.  The consecutive loads   *)
(* of one thread, and stores nobody else reads, are one step.  Time is     *)
(* abstract: a stream is "none" (nothing received), "fresh" or "stale".    *)
(***************************************************************************)
EXTENDS Naturals, FiniteSets

CONSTANT Poses          \* the poses a ramp can be sent to

ASSUME PosesAssumption == Poses # {}

Modes   == {"DISABLED", "INITIALIZE", "WAIT", "CONTROL", "DAMP", "HOLD"}
Driving == {"INITIALIZE", "WAIT", "CONTROL", "HOLD"}
Ages    == {"none", "fresh", "stale"}
NoPose  == "no pose"

Calls == {"open_damp_gate", "release_vendor", "hold", "close_gate",
          "restore_vendor", "begin_initialization", "engage_control"}

OpPoints == {"idle"} \cup
            {"odg.mode", "odg.gate", "rv.rpc", "rv.flag", "hold.mode",
             "cg.gate", "cg.mode", "cg.sleep", "rs.rpc", "rs.confirm",
             "bi.rpc", "bi.target", "bi.mode", "bi.check", "bi.gate",
             "ec.mode"}

VARIABLES
  mode,             \* mode_
  gateOpen,         \* write_gate_open_
  vendorReleased,   \* vendor_released_
  service,          \* is a vendor motion service active on the robot
  latched,          \* hardware_fault_latched_ (and state_slot_->faulted)
  link,             \* age of the last rt/lowstate frame
  command,          \* age of the last write_target
  initTarget,       \* init_target_position_
  settledAt,        \* history: the pose the last completed ramp ended at
  op, arg,          \* operator: next step, and the ramp target it carries
  h, c,             \* handler and control thread: "idle" or "store"
  w, wMode, wPose,  \* writer: next step, its copy of the mode, its target
  emergency         \* history: "none", "clean" or "raced" (see ForceDamp)

flags   == <<gateOpen, vendorReleased, service>>
streams == <<latched, link, command>>
poses   == <<initTarget, settledAt>>
opVars  == <<op, arg>>
wVars   == <<w, wMode, wPose>>
vars    == <<mode, flags, streams, poses, opVars, h, c, wVars, emergency>>

Init ==
  /\ mode = "DISABLED"
  /\ gateOpen = FALSE
  /\ vendorReleased = FALSE
  /\ service = TRUE
  /\ latched = FALSE
  /\ link = "none"
  /\ command = "none"
  /\ initTarget \in Poses
  /\ settledAt = NoPose
  /\ op = "idle" /\ arg \in Poses
  /\ h = "idle" /\ c = "idle"
  /\ w = "wake" /\ wMode = "DISABLED" /\ wPose = NoPose
  /\ emergency = "none"

Healthy == link = "fresh" /\ ~latched

-----------------------------------------------------------------------------
(* The operator's calls.  A call whose checks fail throws and changes       *)
(* nothing; a throw later in the call keeps what it has stored so far.      *)

\* Taking up a new call is the operator overriding an earlier emergency.
Enter(point) ==
  /\ op = "idle"
  /\ op' = point
  /\ emergency' = "none"

OpenDampGate ==
  /\ Healthy /\ mode \in {"DISABLED", "DAMP"}
  /\ Enter("odg.mode")
  /\ UNCHANGED <<mode, flags, streams, poses, arg, h, c, wVars>>

OpenDampGateMode ==
  /\ op = "odg.mode" /\ op' = "odg.gate"
  /\ mode' = "DAMP"
  /\ UNCHANGED <<flags, streams, poses, arg, h, c, wVars, emergency>>

OpenDampGateGate ==
  /\ op = "odg.gate" /\ op' = "idle"
  /\ gateOpen' = TRUE
  /\ UNCHANGED <<mode, vendorReleased, service, streams, poses, arg, h, c,
                 wVars, emergency>>

ReleaseVendor ==
  /\ gateOpen /\ mode = "DAMP"
  /\ Enter("rv.rpc")
  /\ UNCHANGED <<mode, flags, streams, poses, arg, h, c, wVars>>

\* release_motion_service: ReleaseMode may be refused, or reported to fail when
\* it has worked, and throws.  A CheckMode that fails leaves the name empty, as
\* it is without a service: the vendor counts as released with it active.
ReleaseMotionService(at, next) ==
  /\ op = at
  /\ service' \in {service, FALSE}
  /\ op' = next \/ (service /\ op' = "idle")
  /\ UNCHANGED <<mode, gateOpen, vendorReleased, streams, poses, arg, h, c,
                 wVars, emergency>>

ReleaseVendorRpc == ReleaseMotionService("rv.rpc", "rv.flag")

ReleaseVendorFlag ==
  /\ op = "rv.flag" /\ op' = "idle"
  /\ vendorReleased' = TRUE
  /\ UNCHANGED <<mode, gateOpen, service, streams, poses, arg, h, c, wVars,
                 emergency>>

Hold ==
  /\ mode \in {"CONTROL", "WAIT"}
  /\ Enter("hold.mode")
  /\ UNCHANGED <<mode, flags, streams, poses, arg, h, c, wVars>>

\* Bug: an unknown mode is stored.
HoldModeUnknown ==
  /\ op = "hold.mode" /\ op' = "idle"
  /\ mode' = "HELD"
  /\ UNCHANGED <<flags, streams, poses, arg, h, c, wVars, emergency>>

HoldMode ==
  /\ op = "hold.mode" /\ op' = "idle"
  /\ mode' = "HOLD"
  /\ UNCHANGED <<flags, streams, poses, arg, h, c, wVars, emergency>>

CloseGate ==
  /\ mode \in {"DAMP", "DISABLED"}
  /\ Enter("cg.gate")
  /\ UNCHANGED <<mode, flags, streams, poses, arg, h, c, wVars>>

\* Bug: the mode is stored before the gate closes.
CloseGateGateLate ==
  /\ op = "cg.gate" /\ op' = "cg.mode"
  /\ mode' = "DISABLED"
  /\ UNCHANGED <<flags, streams, poses, arg, h, c, wVars, emergency>>

CloseGateGate ==
  /\ op = "cg.gate" /\ op' = "cg.mode"
  /\ gateOpen' = FALSE
  /\ UNCHANGED <<mode, vendorReleased, service, streams, poses, arg, h, c,
                 wVars, emergency>>

CloseGateMode ==
  /\ op = "cg.mode" /\ op' = "cg.sleep"
  /\ mode' = "DISABLED"
  /\ UNCHANGED <<flags, streams, poses, arg, h, c, wVars, emergency>>

\* Its only caller sleeps 200 ms before it looks at the writer again: a
\* hundred writer periods, so the tick that was in flight has ended.
CloseGateSleep ==
  /\ op = "cg.sleep" /\ op' = "idle"
  /\ w = "wake"
  /\ UNCHANGED <<mode, flags, streams, poses, arg, h, c, wVars, emergency>>

RestoreVendor ==
  /\ ~gateOpen /\ mode = "DISABLED"
  /\ Enter("rs.rpc")
  /\ UNCHANGED <<mode, flags, streams, poses, arg, h, c, wVars>>

\* SelectMode fails and throws, or brings the service back.
RestoreVendorRpc ==
  /\ op = "rs.rpc"
  /\ \/ service' = TRUE /\ op' = "rs.confirm"
     \/ UNCHANGED service /\ op' = "idle"
  /\ UNCHANGED <<mode, gateOpen, vendorReleased, streams, poses, arg, h, c,
                 wVars, emergency>>

\* The CheckMode polls sleep 100 ms each, again longer than any tick.  Thirty
\* polls without the name throw.
RestoreVendorConfirm ==
  /\ op = "rs.confirm" /\ op' = "idle"
  /\ w = "wake"
  /\ \/ vendorReleased' = FALSE
     \/ UNCHANGED vendorReleased
  /\ UNCHANGED <<mode, gateOpen, service, streams, poses, arg, h, c, wVars,
                 emergency>>

\* Bug: an open gate is taken for a released vendor.
BeginInitializationTrusting(pose) ==
  /\ Healthy
  /\ \/ /\ mode = "DISABLED" /\ ~gateOpen
        /\ Enter("bi.rpc")
     \/ /\ gateOpen /\ mode \in {"DAMP", "HOLD", "WAIT"}
        /\ Enter("bi.target")
  /\ arg' = pose
  /\ UNCHANGED <<mode, flags, streams, poses, h, c, wVars>>

\* skip_motion_switcher is only passed by callers that released before.
BeginInitialization(pose) ==
  /\ Healthy
  /\ \/ /\ mode = "DISABLED" /\ ~gateOpen
        /\ Enter("bi.rpc")
     \/ /\ gateOpen /\ mode \in {"DAMP", "HOLD", "WAIT"} /\ vendorReleased
        /\ Enter("bi.target")
  /\ arg' = pose
  /\ UNCHANGED <<mode, flags, streams, poses, h, c, wVars>>

BeginInitRpc ==
  /\ op = "bi.rpc"
  /\ service' \in {service, FALSE}
  /\ \/ vendorReleased' = TRUE /\ op' = "bi.target"
     \/ service /\ UNCHANGED vendorReleased /\ op' = "idle"
  /\ UNCHANGED <<mode, gateOpen, streams, poses, arg, h, c, wVars, emergency>>

\* The targets are plain arrays, stored while the writer may still read them.
BeginInitTarget ==
  /\ op = "bi.target"
  /\ IF latched THEN op' = "idle" /\ UNCHANGED initTarget
                ELSE op' = "bi.mode" /\ initTarget' = arg
  /\ UNCHANGED <<mode, flags, streams, settledAt, arg, h, c, wVars, emergency>>

BeginInitMode ==
  /\ op = "bi.mode" /\ op' = "bi.check"
  /\ mode' = "INITIALIZE"
  /\ UNCHANGED <<flags, streams, poses, arg, h, c, wVars, emergency>>

BeginInitCheck ==
  /\ op = "bi.check"
  /\ IF latched THEN op' = "idle" /\ mode' = "DAMP"
                ELSE op' = "bi.gate" /\ UNCHANGED mode
  /\ UNCHANGED <<flags, streams, poses, arg, h, c, wVars, emergency>>

BeginInitGate ==
  /\ op = "bi.gate" /\ op' = "idle"
  /\ gateOpen' = TRUE
  /\ UNCHANGED <<mode, vendorReleased, service, streams, poses, arg, h, c,
                 wVars, emergency>>

EngageControl ==
  /\ mode = "WAIT" /\ Healthy /\ command = "fresh"
  /\ Enter("ec.mode")
  /\ UNCHANGED <<mode, flags, streams, poses, arg, h, c, wVars>>

EngageControlMode ==
  /\ op = "ec.mode" /\ op' = "idle"
  /\ mode' = "CONTROL"
  /\ UNCHANGED <<flags, streams, poses, arg, h, c, wVars, emergency>>

ClearLatchedFault ==
  /\ op = "idle" /\ latched
  /\ latched' = FALSE
  /\ UNCHANGED <<mode, flags, link, command, poses, opVars, h, c, wVars,
                 emergency>>

-----------------------------------------------------------------------------
(* The emergency key.                                                       *)

\* A load-then-store of the mode is in flight: the operator has checked and
\* not stored, or the writer has loaded INITIALIZE and may yet store WAIT.
StoreInFlight ==
  \/ op \in {"hold.mode", "bi.rpc", "bi.target", "bi.mode", "ec.mode"}
  \/ w = "ramp"

ForceDamp ==
  /\ mode' = "DAMP"
  /\ emergency' = IF StoreInFlight \/ emergency = "raced"
                  THEN "raced" ELSE "clean"
  /\ UNCHANGED <<flags, streams, poses, opVars, h, c, wVars>>

-----------------------------------------------------------------------------
(* The DDS state handler, and time.                                         *)

\* "limit" is a joint outside its soft limit, "hard" any other state guard.
\* A latched fault stays in the slot until it is cleared.
Frame(kind) ==
  LET faulted == \/ latched
                 \/ kind = "hard"
                 \/ kind = "limit" /\ mode \in {"WAIT", "CONTROL", "HOLD"}
  IN  /\ h = "idle"
      /\ link' = "fresh"
      /\ latched' = faulted
      /\ h' = IF faulted /\ mode # "DISABLED" THEN "store" ELSE "idle"
      /\ UNCHANGED <<mode, flags, command, poses, opVars, c, wVars, emergency>>

HandlerStore ==
  /\ h = "store" /\ h' = "idle"
  /\ mode' = "DAMP"
  /\ UNCHANGED <<flags, streams, poses, opVars, c, wVars, emergency>>

StateGoesQuiet ==
  /\ link = "fresh" /\ link' = "stale"
  /\ UNCHANGED <<mode, flags, latched, command, poses, opVars, h, c, wVars,
                 emergency>>

CommandAges ==
  /\ command = "fresh" /\ command' = "stale"
  /\ UNCHANGED <<mode, flags, latched, link, poses, opVars, h, c, wVars,
                 emergency>>

-----------------------------------------------------------------------------
(* The control thread.                                                      *)

WriteTarget ==
  /\ c = "idle" /\ command # "fresh"
  /\ command' = "fresh"
  /\ UNCHANGED <<mode, flags, latched, link, poses, opVars, h, c, wVars,
                 emergency>>

ControlDamp ==
  /\ c = "idle" /\ mode \in {"WAIT", "CONTROL"}
  /\ c' = "store"
  /\ UNCHANGED <<mode, flags, streams, poses, opVars, h, wVars, emergency>>

ControlDampStore ==
  /\ c = "store" /\ c' = "idle"
  /\ mode' = "DAMP"
  /\ UNCHANGED <<flags, streams, poses, opVars, h, wVars, emergency>>

-----------------------------------------------------------------------------
(* One tick of the writer.                                                  *)

\* Bug: the tick trusts the handler's own store and skips the latch.
MustDampNoLatch ==
  \/ mode \in Driving /\ link = "stale"
  \/ mode = "CONTROL" /\ command # "fresh"

\* Bug: the tick does not look at the age of the command.
MustDampNoCommand == mode \in Driving /\ (latched \/ link = "stale")

\* A driving mode the watchdogs do not allow to continue.
MustDamp ==
  \/ mode \in Driving /\ (latched \/ link = "stale")
  \/ mode = "CONTROL" /\ command # "fresh"

WriterWake ==
  /\ w = "wake" /\ link # "none"
  /\ wMode' = mode
  /\ wPose' = IF mode = "WAIT" THEN initTarget ELSE NoPose
  /\ w' = IF MustDamp THEN "guard"
          ELSE IF mode = "INITIALIZE" THEN "ramp" ELSE "gate"
  /\ UNCHANGED <<mode, flags, streams, poses, opVars, h, c, emergency>>

WriterGuard ==
  /\ w = "guard" /\ w' = "gate"
  /\ mode' = "DAMP" /\ wMode' = "DAMP" /\ wPose' = NoPose
  /\ UNCHANGED <<flags, streams, poses, opVars, h, c, emergency>>

\* ratio < 1, and the joints follow the ramp.
RampContinues ==
  /\ w = "ramp" /\ w' = "gate"
  /\ UNCHANGED <<mode, flags, streams, poses, opVars, h, c, wMode, wPose,
                 emergency>>

\* A joint lagged the ramp for too many ticks in a row.
RampBlocked ==
  /\ w = "ramp" /\ w' = "gate"
  /\ mode' = "DAMP" /\ wMode' = "DAMP"
  /\ UNCHANGED <<flags, streams, poses, opVars, h, c, wPose, emergency>>

RampReached ==
  /\ w = "ramp" /\ w' = "gate"
  /\ mode' = "WAIT" /\ wMode' = "WAIT"
  /\ settledAt' = initTarget /\ wPose' = initTarget
  /\ UNCHANGED <<flags, streams, initTarget, opVars, h, c, emergency>>

WriterGate ==
  /\ w = "gate"
  /\ w' = IF wMode = "DISABLED" \/ ~gateOpen THEN "wake" ELSE "send"
  /\ UNCHANGED <<mode, flags, streams, poses, opVars, h, c, wMode, wPose,
                 emergency>>

\* Bug: the tick stores its copy of the mode back when it ends.
WriterSendBack ==
  /\ w = "send" /\ w' \in {"wake", "failed"}
  /\ mode' = wMode
  /\ UNCHANGED <<flags, streams, poses, opVars, h, c, wMode, wPose, emergency>>

WriterSend ==
  /\ w = "send" /\ w' \in {"wake", "failed"}
  /\ UNCHANGED <<mode, flags, streams, poses, opVars, h, c, wMode, wPose,
                 emergency>>

WriterSendFailed ==
  /\ w = "failed" /\ w' = "wake"
  /\ mode' = "DAMP"
  /\ UNCHANGED <<flags, streams, poses, opVars, h, c, wMode, wPose, emergency>>

-----------------------------------------------------------------------------
Operator ==
  \/ OpenDampGate \/ OpenDampGateMode \/ OpenDampGateGate
  \/ ReleaseVendor \/ ReleaseVendorRpc \/ ReleaseVendorFlag
  \/ Hold \/ HoldMode
  \/ CloseGate \/ CloseGateGate \/ CloseGateMode \/ CloseGateSleep
  \/ RestoreVendor \/ RestoreVendorRpc \/ RestoreVendorConfirm
  \/ \E pose \in Poses : BeginInitialization(pose)
  \/ BeginInitRpc \/ BeginInitTarget \/ BeginInitMode \/ BeginInitCheck
  \/ BeginInitGate
  \/ EngageControl \/ EngageControlMode
  \/ ClearLatchedFault

Handler == (\E kind \in {"ok", "limit", "hard"} : Frame(kind)) \/ HandlerStore

Control == WriteTarget \/ ControlDamp \/ ControlDampStore

Writer ==
  \/ WriterWake \/ WriterGuard
  \/ RampContinues \/ RampBlocked \/ RampReached
  \/ WriterGate \/ WriterSend \/ WriterSendFailed

Next == Operator \/ ForceDamp \/ Handler \/ Control \/ Writer
        \/ StateGoesQuiet \/ CommandAges

Spec == Init /\ [][Next]_vars

\* The writer is a SCHED_FIFO thread with its own 2 ms clock; a callback, a
\* control tick or a call that has begun also runs on.
LiveSpec == Spec /\ WF_vars(Writer) /\ WF_vars(HandlerStore)
                 /\ WF_vars(ControlDampStore)

-----------------------------------------------------------------------------
(* Properties.                                                              *)

TypeOK ==
  /\ mode \in Modes
  /\ gateOpen \in BOOLEAN /\ vendorReleased \in BOOLEAN /\ service \in BOOLEAN
  /\ latched \in BOOLEAN /\ link \in Ages /\ command \in Ages
  /\ initTarget \in Poses /\ settledAt \in Poses \cup {NoPose}
  /\ op \in OpPoints /\ arg \in Poses
  /\ h \in {"idle", "store"} /\ c \in {"idle", "store"}
  /\ w \in {"wake", "guard", "ramp", "gate", "send", "failed"}
  /\ wMode \in Modes /\ wPose \in Poses \cup {NoPose}
  /\ emergency \in {"none", "clean", "raced"}

\* The writer is in a driving mode, and a frame that drives the joints leaves,
\* only while the vendor's release is on record, whatever is stored under the
\* writer's tick.
DriveNeedsRelease ==
  /\ mode \in Driving => vendorReleased
  /\ w = "send" /\ wMode \in Driving => vendorReleased

\* An open gate is never silent: the stores of open_damp_gate, close_gate and
\* begin_initialization are ordered so that no thread sees DISABLED behind it.
OpenGateSpeaks ==
  gateOpen => mode # "DISABLED"

\* The inductive form of the two: where each call and each tick stands while
\* the release is off the record or the gate is closed.
ReleaseInv ==
  /\ mode \in Driving => vendorReleased
  /\ w = "ramp" => vendorReleased
  /\ w \in {"gate", "send"} /\ wMode \in Driving => vendorReleased
  /\ op \in {"hold.mode", "ec.mode", "bi.target", "bi.mode", "bi.check",
            "bi.gate"} => vendorReleased
  /\ op \in {"rs.rpc", "rs.confirm"} =>
       /\ mode \in {"DISABLED", "DAMP"}
       /\ w # "ramp"
       /\ w \in {"gate", "send"} => wMode \notin Driving
  /\ mode = "DISABLED" /\ op # "cg.sleep" =>
       w = "wake" \/ (w = "gate" /\ wMode = "DISABLED")

GateInv ==
  /\ gateOpen => mode # "DISABLED"
  /\ op = "cg.mode" => ~gateOpen
  /\ op \in {"odg.gate", "bi.check", "bi.gate"} => mode # "DISABLED"

\* The emergency damp sticks until the operator's next call, except when it
\* lands inside one of the load-then-store windows of StoreInFlight.
EmergencySticks ==
  emergency = "clean" => mode \in {"DAMP", "DISABLED"}

\* Its inductive form: no store of a driving mode is in flight either.
EmergencyInv ==
  emergency = "clean" => mode \in {"DAMP", "DISABLED"} /\ ~StoreInFlight

\* A latched hardware fault takes the joints out of every driving mode, and
\* so does a state stream that stays quiet.
FaultDamps ==
  (latched \/ link = "stale") ~>
    (mode \in {"DAMP", "DISABLED"} \/ (~latched /\ link = "fresh"))

\* In CONTROL a command stream that stays quiet ends in a mode change.
StaleCommandLeavesControl ==
  (mode = "CONTROL" /\ command = "stale") ~>
    (mode # "CONTROL" \/ command = "fresh")

\* lifecycle.py's emergency_damp: the store is lock-free, so the frame lands.
EmergencyDampLands ==
  emergency # "none" => mode \in {"DAMP", "DISABLED"}

\* damp(): a stale-command fault of the control thread never drops a robot
\* that is held.
HeldRobotStays ==
  [][mode = "HOLD" /\ mode' = "DAMP" => c' = c]_vars

\* begin_initialization ramps to its target: WAIT never publishes a pose the
\* ramp has not reached.
WaitsWhereRampEnded ==
  w = "send" /\ wMode = "WAIT" => wPose = settledAt

\* restore_vendor: two controllers never publish rt/lowcmd at once.
DrivesAlone ==
  w = "send" /\ wMode \in Driving => ~service

=============================================================================
