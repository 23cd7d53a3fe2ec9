----------------------------- MODULE Lifecycle -----------------------------
(***************************************************************************)
(* The lifecycle state machine (robot/lifecycle.py): one process takes the *)
(* joints from the vendor, runs a policy, and gives them back.             *)
(*                                                                         *)
(* Every request (a key, or the watcher's poll) holds the lock, so one     *)
(* program counter pc serves all of them; goals is what the request still  *)
(* has to attempt.  A gate handler (_enter_...) is one step per stretch    *)
(* between two waits, and between those steps the native threads run: the  *)
(* writer damps, ends its ramp, the control thread ends or faults, and     *)
(* emergency_damp, which takes no lock, lands.                             *)
(*                                                                         *)
(* A native call is atomic here; UnitreeWriter looks inside them.  What a  *)
(* gate measures (drift, pose, torque, counters) is a free outcome.        *)
(***************************************************************************)
EXTENDS Naturals, Sequences, SequencesExt

CONSTANTS AutoAcks,   \* the values of auto_ack a configuration may choose
          EndStates   \* the values of end_state

ASSUME AutoAcksAssumption == AutoAcks # {} /\ AutoAcks \subseteq BOOLEAN
ASSUME EndStatesAssumption ==
  EndStates # {} /\ EndStates \subseteq {"vendor_stand", "vendor_damp", "damp"}

Ladder == <<"IDLE", "PRECHECK", "VENDOR_DAMP_CONFIRMED",
            "SAFE_EXTERNAL_COMMAND_PRESENT", "USER_CONTROL_CONFIRMED",
            "START_POSE_RAMP", "POSE_SETTLED", "LOWERED",
            "POSE_MATCH_VERIFIED", "POLICY_COMMAND_FRESH", "PRIMED">>

Rungs   == {Ladder[i] : i \in 1..11}
Restart == {"STANDING", "VENDOR_RESTORED", "RELEASED"}
Recoverable ==
  {"HOLD", "FAULT", "DAMP", "RELEASED", "VENDOR_RESTORED", "VENDOR_STAND"}
Owning  == {Ladder[i] : i \in 4..11} \cup {"BLEND_IN", "RUNNING", "HOLD"}
States  == Rungs \cup Recoverable \cup Owning \cup {"STANDING"}

NextRung(s) == Ladder[1 + CHOOSE i \in 1..10 : Ladder[i] = s]

Driving == {"INITIALIZE", "WAIT", "CONTROL", "HOLD"}
Modes   == Driving \cup {"DISABLED", "DAMP"}

Points == {"idle", "goal", "PRECHECK.check", "SAFE.publish", "USER.settle",
           "RAMP.wait", "FRESH.tick", "BLEND.tick", "BLEND.wait", "HOLD.stop",
           "RELEASED.check", "retake.link"}

VARIABLES
  autoAck, endState,     \* config: a commanded gantry acknowledges by itself
  state, pc, goals,      \* the lifecycle, the lock holder, what it still wants
  auto,                  \* the request is auto(): it climbs to PRIMED
  closed,                \* shutdown was called: no request follows
  hoistedAck, loweredAck,
  strap,                 \* the gantry itself: "taut", "loaded" or "slack"
  wmode, gate, released, \* writer_stats: mode, gate_open, vendor_released
  latched,               \* the latched hardware fault
  hwFaults, rampFaults,  \* hardware_faults # 0, ramp_faults # 0
  service, vmode,        \* the motion service is active; the vendor's mode
  named,                 \* vendor_name is known
  unheard,               \* history: it is active behind a release on record
  thread,                \* the control thread
  rfault,                \* stats()["fault"] # 0
  tripped,               \* history: the guard tripped in the current ramp
  faulted,               \* history: FAULT, and no PRECHECK has passed since
  threw                  \* history: an exception escaped a request

fixed  == <<autoAck, endState, closed>>
lock   == <<state, pc, goals, auto, fixed>>
acks   == <<hoistedAck, loweredAck, strap>>
writer == <<wmode, gate, released>>
faults == <<latched, hwFaults, rampFaults, tripped>>
vendor == <<service, vmode, named, unheard>>
ctl    == <<thread, rfault>>
hist   == <<faulted, threw>>
vars   == <<lock, acks, writer, faults, vendor, ctl, hist>>

Init ==
  /\ state = "IDLE" /\ pc = "idle" /\ goals = <<>> /\ auto = FALSE
  /\ autoAck \in AutoAcks /\ endState \in EndStates /\ closed = FALSE
  /\ hoistedAck = FALSE /\ loweredAck = FALSE
  /\ strap \in {"taut", "loaded"}
  /\ wmode = "DISABLED" /\ gate = FALSE /\ released = FALSE
  /\ latched = FALSE /\ hwFaults = FALSE /\ rampFaults = FALSE
  /\ tripped = FALSE
  /\ service = TRUE /\ vmode \in {"damp", "ready"} /\ named = FALSE
  /\ unheard = FALSE
  /\ thread = "none" /\ rfault = FALSE
  /\ faulted = FALSE /\ threw = FALSE

-----------------------------------------------------------------------------
(* How an attempt ends (_attempt, _fault).                                  *)

\* Bug: the lock is not given back after the last goal.
SucceedKeepsLock(t) ==
  /\ state' = t
  /\ auto' = (auto /\ t # "PRIMED")
  /\ goals' = IF auto' THEN <<NextRung(t)>> ELSE Tail(goals)
  /\ pc' = "goal"
  /\ UNCHANGED fixed

Succeed(t) ==
  /\ state' = t
  /\ auto' = (auto /\ t # "PRIMED")
  /\ goals' = IF auto' THEN <<NextRung(t)>> ELSE Tail(goals)
  /\ pc' = IF goals' = <<>> THEN "idle" ELSE "goal"
  /\ UNCHANGED fixed

\* A failed gate leaves the state alone and ends the request.
Fail ==
  /\ pc' = "idle" /\ goals' = <<>> /\ auto' = FALSE
  /\ UNCHANGED <<state, fixed>>

Then(point) == pc' = point /\ UNCHANGED <<state, goals, auto, fixed>>

\* Bug: the fault relies on the writer having damped by itself.
FaultNoForceDamp ==
  /\ state' = "FAULT"
  /\ pc' = "idle" /\ goals' = <<>> /\ auto' = FALSE /\ UNCHANGED fixed
  /\ UNCHANGED writer
  /\ thread' = IF thread = "running" THEN "stopping" ELSE thread
  /\ UNCHANGED rfault
  /\ faulted' = TRUE /\ UNCHANGED threw

\* force_damp, stop (but no wait), FAULT.
Fault ==
  /\ state' = "FAULT"
  /\ pc' = "idle" /\ goals' = <<>> /\ auto' = FALSE /\ UNCHANGED fixed
  /\ wmode' = "DAMP" /\ UNCHANGED <<gate, released>>
  /\ thread' = IF thread = "running" THEN "stopping" ELSE thread
  /\ UNCHANGED rfault
  /\ faulted' = TRUE /\ UNCHANGED threw

Attempting(t) == pc = "goal" /\ Head(goals) = t

Started == thread \in {"running", "stopping"}
Healthy == ~latched

-----------------------------------------------------------------------------
(* Requests.                                                                *)

Idle == pc = "idle" /\ ~closed

Request(gs) == Idle /\ goals' = gs /\ pc' = "goal"

Climb(all) ==
  LET from == IF state \in Restart THEN "IDLE" ELSE state
  IN  /\ from \in Rungs \ {"PRIMED"}
      /\ Request(<<NextRung(from)>>)
      /\ state' = from
      /\ auto' = all
      /\ UNCHANGED <<fixed, acks, writer, faults, vendor, ctl, hist>>

Advance     == Climb(FALSE)
RequestAuto == Climb(TRUE)

Go ==
  /\ state = "PRIMED"
  /\ Request(<<"BLEND_IN", "RUNNING">>)
  /\ UNCHANGED <<state, auto, fixed, acks, writer, faults, vendor, ctl, hist>>

RequestHold ==
  /\ state \in {"RUNNING", "BLEND_IN"}
  /\ Request(<<"HOLD">>)
  /\ UNCHANGED <<state, auto, fixed, acks, writer, faults, vendor, ctl, hist>>

DampGoals == <<"DAMP", "?hand_back", "RELEASED", "VENDOR_RESTORED">>

RequestDamp ==
  /\ Request(DampGoals)
  /\ UNCHANGED <<state, auto, fixed, acks, writer, faults, vendor, ctl, hist>>

\* Bug: HOLD goes straight to the closing of the gate.
RecoverGoalsNoDamp(s, end) ==
  LET first   == IF s = "HOLD" THEN <<"?hoist", "RELEASED">>
                 ELSE IF s = "FAULT" THEN <<"DAMP", "RELEASED">>
                 ELSE IF s = "DAMP" THEN <<"RELEASED">> ELSE <<>>
      restore == IF s \in {"VENDOR_RESTORED", "VENDOR_STAND"} THEN <<>>
                 ELSE <<"?hoist", "VENDOR_RESTORED">>
  IN  first \o (IF end = "damp" THEN <<>> ELSE restore)

\* recover(end): what is left from state s.
RecoverGoals(s, end) ==
  LET first   == IF s = "HOLD" THEN <<"?hoist", "DAMP", "RELEASED">>
                 ELSE IF s = "FAULT" THEN <<"DAMP", "RELEASED">>
                 ELSE IF s = "DAMP" THEN <<"RELEASED">> ELSE <<>>
      restore == IF s \in {"VENDOR_RESTORED", "VENDOR_STAND"} THEN <<>>
                 ELSE <<"?hoist", "VENDOR_RESTORED">>
      stand   == IF s = "VENDOR_STAND" THEN <<"STANDING">>
                 ELSE <<"VENDOR_STAND", "STANDING">>
  IN  first \o (IF end = "damp" THEN <<>> ELSE restore)
            \o (IF end = "vendor_stand" THEN stand ELSE <<>>)

RequestRecover(end) ==
  /\ state \in Recoverable
  /\ RecoverGoals(state, end) # <<>>
  /\ Request(RecoverGoals(state, end))
  /\ UNCHANGED <<state, auto, fixed, acks, writer, faults, vendor, ctl, hist>>

Abort ==
  /\ state \in Rungs
  /\ state \in Owning
  /\ Request(DampGoals \o <<"?recover">>)
  /\ UNCHANGED <<state, auto, fixed, acks, writer, faults, vendor, ctl, hist>>

\* shutdown: the attempts that the state allows, in order.
Shutdown ==
  /\ LET damp    == IF state \in Owning \cup {"FAULT"}
                    THEN <<"DAMP", "RELEASED">>
                    ELSE IF state = "DAMP" THEN <<"RELEASED">> ELSE <<>>
         restore == IF named /\ (damp # <<>> \/ state = "RELEASED")
                    THEN <<"VENDOR_RESTORED">> ELSE <<>>
     IN  /\ Idle
         /\ goals' = damp \o restore
         /\ pc' = IF goals' = <<>> THEN "idle" ELSE "goal"
  /\ closed' = TRUE /\ UNCHANGED <<autoAck, endState>>
  /\ UNCHANGED <<state, auto, acks, writer, faults, vendor, ctl, hist>>

\* _hoist_ready: with auto_ack the gantry is commanded and acknowledges.
HoistReady == autoAck \/ hoistedAck

TakeHoist ==
  IF autoAck
  THEN hoistedAck' = TRUE /\ loweredAck' = FALSE /\ strap' = "taut"
  ELSE UNCHANGED acks

AckHoisted ==
  /\ Idle
  /\ hoistedAck' = TRUE /\ loweredAck' = FALSE /\ strap' = "taut"
  /\ UNCHANGED <<lock, writer, faults, vendor, ctl, hist>>

AckLowered ==
  /\ Idle
  /\ loweredAck' = TRUE /\ strap' = "loaded"
  /\ UNCHANGED <<lock, hoistedAck, writer, faults, vendor, ctl, hist>>

\* recover's hoist gate.
CheckHoist ==
  /\ Attempting("?hoist")
  /\ IF HoistReady
     THEN TakeHoist /\ goals' = Tail(goals) /\ UNCHANGED <<state, pc, auto, fixed>>
     ELSE Fail /\ UNCHANGED acks
  /\ UNCHANGED <<writer, faults, vendor, ctl, hist>>

\* damp's decision to hand the joints back; abort goes on to recover.
CheckHandBack ==
  /\ Attempting("?hand_back")
  /\ IF endState # "damp" /\ named /\ HoistReady
     THEN TakeHoist /\ goals' = Tail(goals)
     ELSE /\ UNCHANGED acks
          /\ goals' = IF Last(goals) = "?recover" THEN <<"?recover">> ELSE <<>>
  /\ pc' = IF goals' = <<>> THEN "idle" ELSE "goal"
  /\ UNCHANGED <<state, auto, fixed, writer, faults, vendor, ctl, hist>>

CheckRecover ==
  /\ Attempting("?recover")
  /\ goals' = RecoverGoals(state, endState)
  /\ pc' = IF goals' = <<>> THEN "idle" ELSE "goal"
  /\ UNCHANGED <<state, auto, fixed, acks, writer, faults, vendor, ctl, hist>>

\* retake: the link rows of PRECHECK, from HOLD.  They clear the latch, and
\* after a short sleep set the hold gains, which the native writer refuses
\* (it throws, outside _attempt) unless it is DISABLED or in DAMP.
Retake ==
  /\ Idle /\ state = "HOLD" /\ HoistReady
  /\ TakeHoist
  /\ \/ Fail /\ UNCHANGED latched                  \* no fresh rt/lowstate
     \/ Then("retake.link") /\ latched' = FALSE
  /\ UNCHANGED <<writer, hwFaults, rampFaults, tripped, vendor, ctl, hist>>

RetakeLink ==
  /\ pc = "retake.link"
  /\ \/ /\ wmode \notin {"DISABLED", "DAMP"}
        /\ threw' = TRUE
        /\ Fail /\ UNCHANGED loweredAck
     \/ /\ wmode \in {"DISABLED", "DAMP"}
        /\ Fail /\ UNCHANGED <<threw, loweredAck>>   \* CRC errors, faults
     \/ /\ wmode \in {"DISABLED", "DAMP"} /\ ~hwFaults
        /\ loweredAck' = FALSE
        /\ state' = "USER_CONTROL_CONFIRMED"
        /\ goals' = <<"START_POSE_RAMP">> /\ pc' = "goal"
        /\ UNCHANGED <<auto, fixed, threw>>
  /\ UNCHANGED <<hoistedAck, strap, writer, faults, vendor, ctl, faulted>>

\* The watcher, every 10 ms when it gets the lock.
PollFault ==
  /\ Idle
  /\ state \in Owning \ {"HOLD"} /\ wmode = "DAMP"
  /\ Fault
  /\ UNCHANGED <<acks, faults, vendor>>

\* Bug: a thread that ended counts as running until it is joined.
PollHoldJoined ==
  /\ state \in {"RUNNING", "BLEND_IN"} /\ wmode # "DAMP" /\ thread = "none"
  /\ Request(<<"HOLD">>)
  /\ UNCHANGED <<state, auto, fixed, acks, writer, faults, vendor, ctl, hist>>

PollHold ==
  /\ state \in {"RUNNING", "BLEND_IN"} /\ wmode # "DAMP" /\ ~Started
  /\ Request(<<"HOLD">>)
  /\ UNCHANGED <<state, auto, fixed, acks, writer, faults, vendor, ctl, hist>>

-----------------------------------------------------------------------------
(* The gate handlers, up the ladder.                                        *)

EnterPrecheck ==
  /\ Attempting("PRECHECK")
  /\ loweredAck' = FALSE
  /\ \/ Fail /\ UNCHANGED latched                  \* no fresh rt/lowstate
     \/ Then("PRECHECK.check") /\ latched' = FALSE
  /\ UNCHANGED <<hoistedAck, strap, writer, hwFaults, rampFaults, tripped,
                 vendor, ctl, hist>>

PrecheckCheck ==
  /\ pc = "PRECHECK.check"
  /\ \/ Fail /\ UNCHANGED <<acks, named, unheard, faulted>>
     \/ /\ wmode \in {"DISABLED", "DAMP"}          \* set_hold_gain_scale
        /\ ~hwFaults /\ service                    \* vendor_mode answers
        /\ named' = TRUE /\ unheard' = FALSE
        /\ \/ Fail /\ UNCHANGED <<acks, faulted>>   \* mode, rehearsal, hoist
           \/ /\ HoistReady /\ TakeHoist
              /\ Succeed("PRECHECK") /\ faulted' = FALSE
  /\ UNCHANGED <<writer, faults, service, vmode, ctl, threw>>

EnterVendorDampConfirmed ==
  /\ Attempting("VENDOR_DAMP_CONFIRMED")
  /\ \/ Fail /\ vmode' \in {vmode, "damp"}
     \/ service /\ vmode' = "damp" /\ Succeed("VENDOR_DAMP_CONFIRMED")
  /\ UNCHANGED <<acks, writer, faults, service, named, unheard, ctl, hist>>

EnterSafeExternalCommandPresent ==
  /\ Attempting("SAFE_EXTERNAL_COMMAND_PRESENT")
  /\ \/ Fail /\ UNCHANGED writer                   \* open_damp_gate throws
     \/ /\ Healthy /\ wmode \in {"DISABLED", "DAMP"}
        /\ wmode' = "DAMP" /\ gate' = TRUE /\ UNCHANGED released
        /\ Then("SAFE.publish")
  /\ UNCHANGED <<acks, faults, vendor, ctl, hist>>

SafePublish ==
  /\ pc = "SAFE.publish"
  /\ \/ Fail                                       \* too few frames, failures
     \/ wmode = "DAMP" /\ Succeed("SAFE_EXTERNAL_COMMAND_PRESENT")
  /\ UNCHANGED <<acks, writer, faults, vendor, ctl, hist>>

\* Bug: ReleaseMode is sent and its effect is not read back.
EnterUserControlConfirmedUnchecked ==
  /\ Attempting("USER_CONTROL_CONFIRMED")
  /\ gate /\ wmode = "DAMP"
  /\ released' = TRUE /\ service' \in {service, FALSE} /\ unheard' = FALSE
  /\ Then("USER.settle")
  /\ UNCHANGED <<acks, wmode, gate, faults, vmode, named, ctl, hist>>

\* ReleaseMode is refused, or reported to fail when it has worked.  A
\* CheckMode that fails leaves the name empty, as it is without a service.
EnterUserControlConfirmed ==
  /\ Attempting("USER_CONTROL_CONFIRMED")
  /\ \/ Fail /\ UNCHANGED <<released, service, unheard>>
     \/ /\ gate /\ wmode = "DAMP" /\ service' \in {service, FALSE}
        /\ \/ Fail /\ UNCHANGED released /\ unheard' = (unheard /\ service')
           \/ released' = TRUE /\ unheard' = service' /\ Then("USER.settle")
  /\ UNCHANGED <<acks, wmode, gate, faults, vmode, named, ctl, hist>>

UserSettle ==
  /\ pc = "USER.settle"
  /\ Fail \/ Succeed("USER_CONTROL_CONFIRMED")
  /\ UNCHANGED <<acks, writer, faults, vendor, ctl, hist>>

\* begin_initialization with skip_motion_switcher.
EnterStartPoseRamp ==
  /\ Attempting("START_POSE_RAMP")
  /\ \/ Fail /\ UNCHANGED <<writer, tripped>>
     \/ /\ Healthy
        /\ \/ ~gate /\ wmode = "DISABLED"
           \/ gate /\ wmode \in {"DAMP", "HOLD", "WAIT"}
        /\ wmode' = "INITIALIZE" /\ gate' = TRUE /\ UNCHANGED released
        /\ tripped' = FALSE
        /\ Then("RAMP.wait")
  /\ UNCHANGED <<acks, latched, hwFaults, rampFaults, vendor, ctl, hist>>

RampWait ==
  /\ pc = "RAMP.wait"
  /\ IF rampFaults \/ wmode = "DAMP"
     THEN Fault
     ELSE /\ Fail \/ (wmode = "WAIT" /\ Succeed("START_POSE_RAMP"))
          /\ UNCHANGED <<writer, ctl, hist>>
  /\ UNCHANGED <<acks, faults, vendor>>

\* POSE_SETTLED: a quiet window, in which a damped writer fails.
EnterPoseSettled ==
  /\ Attempting("POSE_SETTLED")
  /\ Fail \/ (wmode # "DAMP" /\ Succeed("POSE_SETTLED"))
  /\ UNCHANGED <<acks, writer, faults, vendor, ctl, hist>>

EnterLowered ==
  /\ Attempting("LOWERED")
  /\ IF autoAck /\ ~loweredAck
     THEN loweredAck' = TRUE /\ strap' = "loaded"
     ELSE UNCHANGED <<loweredAck, strap>>
  /\ Fail \/ (loweredAck' /\ wmode # "DAMP" /\ Succeed("LOWERED"))
  /\ UNCHANGED <<hoistedAck, writer, faults, vendor, ctl, hist>>

EnterPoseMatchVerified ==
  /\ Attempting("POSE_MATCH_VERIFIED")
  /\ Fail \/ Succeed("POSE_MATCH_VERIFIED")
  /\ UNCHANGED <<acks, writer, faults, vendor, ctl, hist>>

\* tracker.start throws unless the last control thread has been joined.
Start(at) ==
  \/ thread # "none" /\ Fail /\ UNCHANGED ctl
  \/ thread = "none" /\ thread' = "running" /\ rfault' = FALSE /\ Then(at)

EnterPolicyCommandFresh ==
  /\ Attempting("POLICY_COMMAND_FRESH")
  /\ Start("FRESH.tick")
  /\ UNCHANGED <<acks, writer, faults, vendor, hist>>

\* No tick in time, or a runtime fault: force_damp, stop, wait, FAULT.
NoTick ==
  /\ state' = "FAULT" /\ pc' = "idle" /\ goals' = <<>> /\ auto' = FALSE
  /\ UNCHANGED fixed
  /\ wmode' = "DAMP" /\ UNCHANGED <<gate, released>>
  /\ thread' = "none" /\ UNCHANGED rfault
  /\ faulted' = TRUE /\ UNCHANGED threw

\* Every other end of the probe stops and joins the control thread.
FreshTick ==
  /\ pc = "FRESH.tick"
  /\ \/ NoTick
     \/ /\ ~rfault
        /\ thread' = "none" /\ UNCHANGED rfault
        /\ Fail \/ (wmode = "WAIT" /\ Succeed("POLICY_COMMAND_FRESH"))
        /\ UNCHANGED <<writer, hist>>
  /\ UNCHANGED <<acks, faults, vendor>>

EnterPrimed ==
  /\ Attempting("PRIMED")
  /\ IF wmode = "WAIT" /\ ~rfault THEN Succeed("PRIMED") ELSE Fail
  /\ UNCHANGED <<acks, writer, faults, vendor, ctl, hist>>

-----------------------------------------------------------------------------
(* The run.                                                                 *)

EnterBlendIn ==
  /\ Attempting("BLEND_IN")
  /\ Start("BLEND.tick")
  /\ UNCHANGED <<acks, writer, faults, vendor, hist>>

\* slack, then engage_control, which throws unless it finds WAIT, a healthy
\* state and a fresh command.
BlendTick ==
  /\ pc = "BLEND.tick"
  /\ \/ NoTick /\ UNCHANGED strap
     \/ /\ ~rfault
        /\ strap' = IF autoAck THEN "slack" ELSE strap
        /\ \/ Fail /\ UNCHANGED writer
           \/ /\ wmode = "WAIT" /\ Healthy
              /\ wmode' = "CONTROL" /\ UNCHANGED <<gate, released>>
              /\ Then("BLEND.wait")
        /\ UNCHANGED <<ctl, hist>>
  /\ UNCHANGED <<hoistedAck, loweredAck, faults, vendor>>

\* The blend or the strap wait may time out.
BlendWait ==
  /\ pc = "BLEND.wait"
  /\ \/ wmode # "CONTROL" /\ Fault
     \/ Fail /\ UNCHANGED <<writer, ctl, hist>>
     \/ wmode = "CONTROL" /\ Succeed("BLEND_IN") /\ UNCHANGED <<writer, ctl, hist>>
  /\ UNCHANGED <<acks, faults, vendor>>

EnterRunning ==
  /\ Attempting("RUNNING")
  /\ IF wmode = "CONTROL" THEN Succeed("RUNNING") ELSE Fail
  /\ UNCHANGED <<acks, writer, faults, vendor, ctl, hist>>

\* A damped writer is a fault; hold() throws from any mode but CONTROL, WAIT.
EnterHold ==
  /\ Attempting("HOLD")
  /\ IF wmode = "DAMP" THEN Fault
     ELSE /\ IF wmode \in {"CONTROL", "WAIT"}
             THEN wmode' = "HOLD" /\ Then("HOLD.stop")
             ELSE Fail /\ UNCHANGED wmode
          /\ UNCHANGED <<gate, released, ctl, hist>>
  /\ UNCHANGED <<acks, faults, vendor>>

\* Bug: stop() without wait().
HoldStopNoWait ==
  /\ pc = "HOLD.stop"
  /\ thread' = IF thread = "running" THEN "stopping" ELSE thread
  /\ hoistedAck' = FALSE
  /\ Succeed("HOLD")
  /\ UNCHANGED <<loweredAck, strap, writer, faults, vendor, rfault, hist>>

HoldStop ==
  /\ pc = "HOLD.stop"
  /\ thread' = "none"
  /\ hoistedAck' = FALSE
  /\ Succeed("HOLD")
  /\ UNCHANGED <<loweredAck, strap, writer, faults, vendor, rfault, hist>>

-----------------------------------------------------------------------------
(* The way back.                                                            *)

\* Bug: damp leaves the policy running.
EnterDampNoStop ==
  /\ Attempting("DAMP")
  /\ wmode' = "DAMP"
  /\ hoistedAck' = (hoistedAck /\ state \notin {"RUNNING", "BLEND_IN"})
  /\ Succeed("DAMP")
  /\ UNCHANGED <<loweredAck, strap, gate, released, faults, vendor, ctl, hist>>

\* stop and wait only if the thread is still running.
EnterDamp ==
  /\ Attempting("DAMP")
  /\ wmode' = "DAMP"
  /\ thread' = IF Started THEN "none" ELSE thread
  /\ hoistedAck' = (hoistedAck /\ state \notin {"RUNNING", "BLEND_IN"})
  /\ Succeed("DAMP")
  /\ UNCHANGED <<loweredAck, strap, gate, released, faults, vendor, rfault,
                 hist>>

EnterReleased ==
  /\ Attempting("RELEASED")
  /\ IF wmode \in {"DAMP", "DISABLED"}
     THEN gate' = FALSE /\ wmode' = "DISABLED" /\ Then("RELEASED.check")
     ELSE Fail /\ UNCHANGED <<gate, wmode>>
  /\ UNCHANGED <<acks, released, faults, vendor, ctl, hist>>

\* A frame published between the first reading and close_gate fails too.
ReleasedCheck ==
  /\ pc = "RELEASED.check"
  /\ Fail \/ (wmode = "DISABLED" /\ ~gate /\ Succeed("RELEASED"))
  /\ UNCHANGED <<acks, writer, faults, vendor, ctl, hist>>

\* Bug: a SelectMode that failed is not noticed.
EnterVendorRestoredUnchecked ==
  /\ Attempting("VENDOR_RESTORED")
  /\ named /\ ~gate /\ wmode = "DISABLED"
  /\ service' \in {service, TRUE} /\ vmode' = "damp" /\ released' = FALSE
  /\ unheard' = FALSE
  /\ Succeed("VENDOR_RESTORED")
  /\ UNCHANGED <<acks, wmode, gate, faults, named, ctl, hist>>

\* SelectMode fails; or it works and the confirmation fails; or all is well.
EnterVendorRestored ==
  /\ Attempting("VENDOR_RESTORED")
  /\ \/ Fail /\ UNCHANGED <<service, unheard, vmode, released>>
     \/ /\ named /\ ~gate /\ wmode = "DISABLED"
        /\ service' = TRUE /\ unheard' = FALSE /\ vmode' = "damp"
        /\ \/ Fail /\ released' \in {released, FALSE}
           \/ Succeed("VENDOR_RESTORED") /\ released' = FALSE
  /\ UNCHANGED <<acks, wmode, gate, faults, named, ctl, hist>>

EnterVendorStand ==
  /\ Attempting("VENDOR_STAND")
  /\ \/ Fail /\ vmode' \in {vmode, "ready"} /\ UNCHANGED loweredAck
     \/ /\ service /\ vmode' = "ready" /\ loweredAck' = FALSE
        /\ Succeed("VENDOR_STAND")
  /\ UNCHANGED <<hoistedAck, strap, writer, faults, service, named, unheard,
                 ctl, hist>>

EnterStanding ==
  /\ Attempting("STANDING")
  /\ IF autoAck /\ ~loweredAck
     THEN loweredAck' = TRUE /\ strap' = "loaded"
     ELSE UNCHANGED <<loweredAck, strap>>
  /\ Fail \/ (loweredAck' /\ vmode = "ready" /\ Succeed("STANDING"))
  /\ UNCHANGED <<hoistedAck, writer, faults, vendor, ctl, hist>>

-----------------------------------------------------------------------------
(* What happens under the lock: the native threads and the emergency key.   *)

EmergencyDamp ==
  /\ wmode' = "DAMP"
  /\ UNCHANGED <<lock, acks, gate, released, faults, vendor, ctl, hist>>

\* A bad rt/lowstate frame latches, counts, and damps an enabled writer.
HardwareFault ==
  /\ ~latched
  /\ latched' = TRUE /\ hwFaults' = TRUE
  /\ wmode' = IF wmode = "DISABLED" THEN wmode ELSE "DAMP"
  /\ UNCHANGED <<lock, acks, gate, released, rampFaults, tripped, vendor, ctl,
                 hist>>

\* State absent, a failed publish, or a stale command in CONTROL.
WriterWatchdog ==
  /\ wmode \in Driving
  /\ wmode' = "DAMP"
  /\ UNCHANGED <<lock, acks, gate, released, faults, vendor, ctl, hist>>

RampEnds ==
  /\ wmode = "INITIALIZE"
  /\ \/ wmode' = "WAIT" /\ UNCHANGED <<rampFaults, tripped>>
     \/ wmode' = "DAMP" /\ rampFaults' = TRUE /\ tripped' = TRUE
  /\ UNCHANGED <<lock, acks, gate, released, latched, hwFaults, vendor, ctl,
                 hist>>

\* Budget reached, or the stop of _fault seen.
ThreadEnds ==
  /\ Started
  /\ thread' = "ended"
  /\ UNCHANGED <<lock, acks, writer, faults, vendor, rfault, hist>>

RuntimeFault ==
  /\ thread = "running" /\ ~rfault
  /\ rfault' = TRUE
  /\ wmode' = IF wmode \in {"WAIT", "CONTROL"} THEN "DAMP" ELSE wmode
  /\ UNCHANGED <<lock, acks, gate, released, faults, vendor, thread, hist>>

-----------------------------------------------------------------------------
Keys ==
  \/ Advance \/ RequestAuto \/ Go \/ RequestHold \/ RequestDamp \/ Abort \/ Shutdown
  \/ \E end \in {"vendor_stand", "vendor_damp", "damp"} : RequestRecover(end)
  \/ Retake \/ AckHoisted \/ AckLowered

Handlers ==
  \/ CheckHoist \/ CheckHandBack \/ CheckRecover \/ RetakeLink
  \/ EnterPrecheck \/ PrecheckCheck \/ EnterVendorDampConfirmed
  \/ EnterSafeExternalCommandPresent \/ SafePublish
  \/ EnterUserControlConfirmed \/ UserSettle
  \/ EnterStartPoseRamp \/ RampWait \/ EnterPoseSettled \/ EnterLowered
  \/ EnterPoseMatchVerified \/ EnterPolicyCommandFresh \/ FreshTick
  \/ EnterPrimed \/ EnterBlendIn \/ BlendTick \/ BlendWait \/ EnterRunning
  \/ EnterHold \/ HoldStop \/ EnterDamp \/ EnterReleased \/ ReleasedCheck
  \/ EnterVendorRestored \/ EnterVendorStand \/ EnterStanding

Poll == PollFault \/ PollHold

Native ==
  \/ HardwareFault \/ WriterWatchdog \/ RampEnds \/ ThreadEnds \/ RuntimeFault

Next == Keys \/ Handlers \/ Poll \/ EmergencyDamp \/ Native

Spec == Init /\ [][Next]_vars

\* Every wait of a handler has a timeout, so a request ends; the watcher
\* thread gets the lock of an idle lifecycle.
LiveSpec == Spec /\ WF_vars(Handlers) /\ WF_vars(Poll)

-----------------------------------------------------------------------------
(* Properties.                                                              *)

TypeOK ==
  /\ state \in States
  /\ pc \in Points /\ (pc = "goal" => goals # <<>>)
  /\ autoAck \in AutoAcks /\ endState \in EndStates
  /\ auto \in BOOLEAN /\ closed \in BOOLEAN
  /\ hoistedAck \in BOOLEAN /\ loweredAck \in BOOLEAN
  /\ strap \in {"taut", "loaded", "slack"}
  /\ wmode \in Modes /\ gate \in BOOLEAN /\ released \in BOOLEAN
  /\ latched \in BOOLEAN /\ hwFaults \in BOOLEAN /\ rampFaults \in BOOLEAN
  /\ tripped \in BOOLEAN
  /\ service \in BOOLEAN /\ vmode \in {"damp", "ready"} /\ named \in BOOLEAN
  /\ unheard \in BOOLEAN
  /\ thread \in {"none", "running", "stopping", "ended"}
  /\ rfault \in BOOLEAN /\ faulted \in BOOLEAN /\ threw \in BOOLEAN

\* While the lifecycle says that our writer holds the joints, the gate is
\* open and the writer is enabled: no failing gate, retake or damp by the
\* native threads leaves an owning state over a silent wire.
OwningHasGate == state \in Owning => gate /\ wmode # "DISABLED"

\* A state that says the vendor has the robot back is only ever reached, and
\* kept, with our gate closed and the vendor's service running.
HandedBackSilent ==
  state \in {"VENDOR_RESTORED", "VENDOR_STAND", "STANDING"} => ~gate /\ service

\* After a fault our writer drives no joint again before a PRECHECK passed:
\* neither recover, retake nor a restart of the ladder goes around it.
FaultNeedsPrecheck == faulted => wmode \notin Driving

\* The policy's thread runs, and its targets reach the joints, only within
\* the probe or from PRIMED to the end of RUNNING.
PolicyRunsInTheRun ==
  /\ wmode = "CONTROL" => state \in {"PRIMED", "BLEND_IN", "RUNNING"}
  /\ thread = "running" =>
       \/ state \in {"PRIMED", "BLEND_IN", "RUNNING"}
       \/ pc = "FRESH.tick"

\* HOLD has joined the control thread, so that the next start can succeed.
HoldJoined == state = "HOLD" => thread = "none"

\* Whatever the order of keys, polls, faults and emergencies, the joints are
\* handed from one controller to the other by the protocol of Handover: where
\* both write, the motion switcher did not answer when it was asked.
Joints ==
  INSTANCE Handover
    WITH vendor  <- service,
         unheard <- unheard,
         ours    <- IF ~gate THEN "nothing"
                    ELSE IF wmode \in Driving THEN "drives" ELSE "damp"

HandsOver == Joints!Spec

\* A damped writer or an ended policy ends the run: the watcher sees it.
RunningEnds ==
  state \in {"RUNNING", "BLEND_IN"} /\ (wmode = "DAMP" \/ thread = "ended")
    ~> state \notin {"RUNNING", "BLEND_IN"}

-----------------------------------------------------------------------------
(* The inductive invariant: what the lock, the gate, the service and a fault *)
(* have to do with one another while a request is under way.                 *)

WayBack == {"DAMP", "RELEASED", "VENDOR_RESTORED", "VENDOR_STAND", "STANDING",
            "?hoist", "?hand_back", "?recover"}

\* Goals that close the gate, or lead to it, wait for the damping.
AfterDamp == {"RELEASED", "?hand_back"}

\* gs leads the joints back from state s: it damps before it releases, and asks
\* for the hoist only before something that needs it.
Descends(s, gs) ==
  /\ gs \in Seq(WayBack)
  /\ gs # <<>> => gs[Len(gs)] # "?hoist"
  /\ \A i \in 1..Len(gs) : gs[i] \in AfterDamp =>
       IF i = 1 THEN s = "DAMP" ELSE gs[i-1] \in {"DAMP", "?hand_back"}

\* gs takes state s to the next rung, or into or out of the run.
Climbs(s, gs) ==
  \/ s \in Rungs \ {"PRIMED"} /\ gs = <<NextRung(s)>>
  \/ s = "PRIMED" /\ gs = <<"BLEND_IN", "RUNNING">>
  \/ s = "BLEND_IN" /\ gs = <<"RUNNING">>
  \/ s \in {"BLEND_IN", "RUNNING"} /\ gs = <<"HOLD">>

\* The gate whose handler waits at a point.
GateAt ==
  [p \in Points \ {"idle", "goal", "retake.link"} |->
    CASE p = "PRECHECK.check" -> "PRECHECK"
      [] p = "SAFE.publish"   -> "SAFE_EXTERNAL_COMMAND_PRESENT"
      [] p = "USER.settle"    -> "USER_CONTROL_CONFIRMED"
      [] p = "RAMP.wait"      -> "START_POSE_RAMP"
      [] p = "FRESH.tick"     -> "POLICY_COMMAND_FRESH"
      [] p \in {"BLEND.tick", "BLEND.wait"} -> "BLEND_IN"
      [] p = "HOLD.stop"      -> "HOLD"
      [] p = "RELEASED.check" -> "RELEASED"]

LockInv ==
  /\ Climbs(state, goals) \/ Descends(state, goals)
  /\ pc = "idle" => goals = <<>> /\ ~auto
  /\ auto => state \in Rungs \ {"PRIMED"} /\ goals = <<NextRung(state)>>
  /\ pc \in DOMAIN GateAt => goals # <<>> /\ Head(goals) = GateAt[pc]
  /\ pc = "retake.link" => state = "HOLD" /\ goals = <<>>

GateInv ==
  /\ gate => wmode # "DISABLED"
  /\ wmode \in Driving => gate
  /\ state \in Owning \/ pc = "SAFE.publish" => gate

\* The service is gone, or was taken to be.
Left == ~service \/ unheard

ServiceInv ==
  /\ wmode \in Driving => Left
  /\ state \in Owning \ {"SAFE_EXTERNAL_COMMAND_PRESENT"} => Left
  /\ pc = "USER.settle" => Left

\* Where a fault leaves the lifecycle until a PRECHECK passes.
Grounded == {"FAULT", "DAMP", "RELEASED", "VENDOR_RESTORED", "VENDOR_STAND",
             "STANDING", "IDLE"}

FaultInv == faulted => wmode \notin Driving /\ state \in Grounded

IndInv == TypeOK /\ LockInv /\ GateInv /\ ServiceInv /\ FaultInv

-----------------------------------------------------------------------------
(* What the comments and the documents say, and the code does not do.       *)

\* "A previous episode's latch must not block the next": a PRECHECK that
\* finds the latch clear does not fail for a hardware fault.
PrecheckForgetsFaults == pc = "PRECHECK.check" /\ ~latched => ~hwFaults

\* "ramp guard tripped" is only said of the ramp whose guard tripped.
FaultIsThisRamp ==
  [][pc = "RAMP.wait" /\ state' = "FAULT" => tripped \/ wmode = "DAMP"]_vars

\* USER_CONTROL_CONFIRMED, "vendor released; our damp frames own the joints"
\* (lifecycle.py:1014), is reached without the motion service.
ConfirmedIsReleased == state = "USER_CONTROL_CONFIRMED" => ~service

\* e at HOLD retakes the episode: the request ends in a verdict, never in an
\* exception.
RetakeAnswers == ~threw

\* PRIMED is a resting state: the policy waits for go and drives nothing.
PrimedRests == state = "PRIMED" /\ pc = "idle" => wmode # "CONTROL"

\* A new episode can start the policy: the last control thread was joined.
NextEpisodeCanStart == state = "PRECHECK" => thread = "none"

\* The hand-back needs the hoist: as long as an operator is at the keys,
\* SelectMode is sent to a robot that hangs.
HandsBackTaut == [][~service /\ service' /\ ~closed => strap = "taut"]_vars

\* A state that is neither owning nor recoverable never took the joints or
\* has given them up: our gate is closed.
GateOnlyWhereOwned ==
  pc = "idle" /\ gate => state \in Owning \cup Recoverable

\* The operator may climb rung by rung: the watcher does not fault the two
\* rungs whose gates have just confirmed that the writer is in DAMP.
PolledIntoFault ==
  /\ pc = "idle" /\ state' = "FAULT"
  /\ state \in {"SAFE_EXTERNAL_COMMAND_PRESENT", "USER_CONTROL_CONFIRMED"}

SteppingIsNoFault == [][PolledIntoFault => latched]_vars

=============================================================================
