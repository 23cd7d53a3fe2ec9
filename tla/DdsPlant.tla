------------------------------ MODULE DdsPlant ------------------------------
(***************************************************************************)
(* The simulated robot on the wire: MuJoCo physics behind rt/lowcmd        *)
(* (mujoco_dds_plant.cpp), and the vendor's services with the gantry that  *)
(* say whose frames count (plant_vendor.cpp).                              *)
(*                                                                         *)
(* Four kinds of threads share the atomics: the rt/lowcmd callback, the    *)
(* three RPC servers (sport, motion_switcher, ec_plant), and the physics   *)
(* loop, which loads each of them once per tick, one after the other.      *)
(*                                                                         *)
(* What a frame says is abstract; its age is whether the joints changed    *)
(* hands since it was let in, and whether the physics loop has noticed.    *)
(* Timing is used at one point: a callback, which runs a few microseconds, *)
(* meets at most one wake-up of the loop and one hand-over (Brief).        *)
(***************************************************************************)
EXTENDS Naturals

CONSTANTS Configs,    \* the plants to consider
          PayOut,     \* steps in which the strap is paid out
          MaxHoists,  \* bound: hoist generations
          MaxResets   \* bound: reset generations

Config == [vendor : BOOLEAN, hoist : BOOLEAN, freeze : BOOLEAN]

ASSUME ConfigsAssumption == Configs \subseteq Config
ASSUME BoundsAssumption ==
  /\ PayOut \in Nat \ {0} /\ MaxHoists \in Nat \ {0} /\ MaxResets \in Nat

Fsm    == {"damp", "other"}
Straps == {"hoisted", "lowered", "slack"}
Ages   == {"now", "before", "foreign"}
Points == {"off", "ended", "sleep", "reset", "prev", "mark",
           "owned", "capture", "pull", "drive"}

VARIABLES
  config,                 \* fixed
  owned, fsm,             \* the vendor holds the joints; its state machine
  strap, hoistGen,        \* hoist_mode, hoist_generation
  resetGen, applied,      \* reset_generation, reset_applied_generation
  sport, switcher, plant, \* where each RPC server stands in a call
  callback,               \* low_cmd_handler between its check and its stores
  slot,                   \* the command slot
  pc, stopping,           \* the physics thread, stop_requested_
  own, prevOwned,         \* what this tick and an earlier one loaded of owned
  genSeen, resetSeen,     \* the generations seen
  gain,                   \* hoist_gain_
  holding, fault,         \* holding_, physics_fault_
  wiped,                  \* history: reset_generation at the last reset_data
  due, wasDue             \* history: the strap has to be captured, at wake-up too

rpcs   == <<sport, switcher, plant>>
shared == <<owned, fsm, strap, hoistGen, resetGen, applied>>
frames == <<callback, slot>>
loop   == <<pc, stopping, own, prevOwned, genSeen, resetSeen, gain, holding, fault>>
hist   == <<wiped, due, wasDue>>
vars   == <<config, shared, rpcs, frames, loop, hist>>

NoCallback == [busy |-> FALSE, age |-> "now", woke |-> FALSE]
EmptySlot  == [valid |-> FALSE, age |-> "now"]

Init ==
  /\ config \in Configs
  /\ owned = config.vendor /\ fsm = "damp"
  /\ strap = IF config.hoist THEN "hoisted" ELSE "slack"
  /\ hoistGen = 1 /\ resetGen = 0 /\ applied = 0
  /\ sport = "idle" /\ switcher = "idle" /\ plant = "idle"
  /\ callback = NoCallback /\ slot = EmptySlot
  /\ pc = "off" /\ stopping = FALSE
  /\ own = FALSE /\ prevOwned = owned
  /\ genSeen = 0 /\ resetSeen = 0 /\ gain = 0
  /\ holding = TRUE /\ fault = FALSE
  /\ wiped = 0 /\ due = TRUE /\ wasDue = FALSE

\* The plant runs bare without either.
Served == config.vendor \/ config.hoist

-----------------------------------------------------------------------------
(* Whose the joints are.                                                    *)

Older(frame, there) ==
  IF there /\ frame.age = "now" THEN [frame EXCEPT !.age = "before"] ELSE frame

\* A callback in flight: it meets one wake-up, and one hand-over.
Brief(met) == ~(callback.busy /\ met)

\* owned is stored: every frame let in so far is of the other hand.
Store(value) ==
  /\ value # owned => Brief(callback.age # "now")
  /\ owned' = value
  /\ IF value = owned THEN UNCHANGED frames
     ELSE /\ slot' = Older(slot, slot.valid)
          /\ callback' = Older(callback, callback.busy)

\* The loop notices: those frames are foreign now.
Foreign(frame) ==
  IF frame.age = "before" THEN [frame EXCEPT !.age = "foreign"] ELSE frame

(* The sport service refuses while it does not hold the joints.             *)
SetFsmId ==
  /\ config.vendor /\ sport = "idle" /\ owned
  /\ \E value \in Fsm : sport' = value
  /\ UNCHANGED <<config, shared, switcher, plant, frames, loop, hist>>

SetFsmIdStore ==
  /\ sport # "idle"
  /\ fsm' = sport /\ sport' = "idle"
  /\ UNCHANGED <<config, owned, strap, hoistGen, resetGen, applied, switcher,
                 plant, frames, loop, hist>>

\* NativePlantClient.reset waits until its reset is applied, and so does its
\* caller: for two seconds at most, when no physics thread applies it.
Resetting ==
  \/ plant \notin {"idle", "hoist"}
  \/ resetGen # applied /\ (pc \in {"off", "ended"} => callback.busy)

(* The motion switcher: the service is let go only in damp, and comes back  *)
(* in damp.                                                                 *)
ReleaseMode ==
  /\ config.vendor /\ switcher = "idle" /\ ~Resetting
  /\ owned /\ fsm = "damp"
  /\ switcher' = "release"
  /\ UNCHANGED <<config, shared, sport, plant, frames, loop, hist>>

ReleaseModeStore ==
  /\ switcher = "release"
  /\ Store(FALSE)
  /\ switcher' = "idle"
  /\ UNCHANGED <<config, fsm, strap, hoistGen, resetGen, applied, sport, plant,
                 loop, hist>>

SelectMode ==
  /\ config.vendor /\ switcher = "idle" /\ ~Resetting
  /\ fsm' = "damp" /\ switcher' = "select"
  /\ UNCHANGED <<config, owned, strap, hoistGen, resetGen, applied, sport, plant,
                 frames, loop, hist>>

SelectModeStore ==
  /\ switcher = "select"
  /\ Store(TRUE)
  /\ switcher' = "idle"
  /\ UNCHANGED <<config, fsm, strap, hoistGen, resetGen, applied, sport, plant,
                 loop, hist>>

-----------------------------------------------------------------------------
(* The gantry and the reset (ec_plant).                                     *)

Bump == hoistGen' = hoistGen + 1 /\ due' = TRUE

Hoist ==
  /\ Served /\ plant = "idle" /\ hoistGen < MaxHoists
  /\ Bump /\ plant' = "hoist"
  /\ UNCHANGED <<config, owned, fsm, strap, resetGen, applied, sport, switcher,
                 frames, loop, wiped, wasDue>>

HoistMode ==
  /\ plant = "hoist"
  /\ strap' = "hoisted" /\ plant' = "idle"
  /\ UNCHANGED <<config, owned, fsm, hoistGen, resetGen, applied, sport,
                 switcher, frames, loop, hist>>

Lower ==
  /\ Served /\ plant = "idle"
  /\ strap' = "lowered"
  /\ UNCHANGED <<config, owned, fsm, hoistGen, resetGen, applied, rpcs, frames,
                 loop, hist>>

Slack ==
  /\ Served /\ plant = "idle"
  /\ strap' = "slack"
  /\ UNCHANGED <<config, owned, fsm, hoistGen, resetGen, applied, rpcs, frames,
                 loop, hist>>

Reset ==
  /\ Served /\ plant = "idle" /\ switcher = "idle"
  /\ resetGen < MaxResets /\ hoistGen < MaxHoists
  /\ fsm' = "damp" /\ plant' = "reset"
  /\ UNCHANGED <<config, owned, strap, hoistGen, resetGen, applied, sport,
                 switcher, frames, loop, hist>>

ResetOwned ==
  /\ plant = "reset"
  /\ Store(TRUE)
  /\ plant' = "reset.hoist"
  /\ UNCHANGED <<config, fsm, strap, hoistGen, resetGen, applied, sport,
                 switcher, loop, hist>>

ResetHoist ==
  /\ plant = "reset.hoist"
  /\ Bump /\ plant' = "reset.mode"
  /\ UNCHANGED <<config, owned, fsm, strap, resetGen, applied, sport, switcher,
                 frames, loop, wiped, wasDue>>

ResetMode ==
  /\ plant = "reset.mode"
  /\ strap' = "hoisted" /\ plant' = "reset.generation"
  /\ UNCHANGED <<config, owned, fsm, hoistGen, resetGen, applied, sport,
                 switcher, frames, loop, hist>>

ResetGeneration ==
  /\ plant = "reset.generation"
  /\ resetGen' = resetGen + 1 /\ plant' = "idle"
  /\ UNCHANGED <<config, owned, fsm, strap, hoistGen, applied, sport, switcher,
                 frames, loop, hist>>

-----------------------------------------------------------------------------
(* The rt/lowcmd callback.  A frame that fails the checksum, the machine    *)
(* mode or the finiteness check returns without a store.                    *)

LowCmdHandler ==
  /\ ~callback.busy /\ ~owned
  /\ callback' = [NoCallback EXCEPT !.busy = TRUE]
  /\ UNCHANGED <<config, shared, rpcs, slot, loop, hist>>

LowCmdHandlerStore ==
  /\ callback.busy
  /\ slot' = [valid |-> TRUE, age |-> callback.age]
  /\ callback' = NoCallback
  /\ UNCHANGED <<config, shared, rpcs, loop, hist>>

-----------------------------------------------------------------------------
(* The physics thread and its owner.                                        *)

Start ==
  /\ pc = "off"
  /\ pc' = "sleep" /\ stopping' = FALSE
  /\ UNCHANGED <<config, shared, rpcs, frames, own, prevOwned, genSeen,
                 resetSeen, gain, holding, fault, hist>>

Stop ==
  /\ ~stopping /\ stopping' = TRUE
  /\ UNCHANGED <<config, shared, rpcs, frames, pc, own, prevOwned, genSeen,
                 resetSeen, gain, holding, fault, hist>>

WaitForStop ==
  /\ pc = "ended" /\ pc' = "off"
  /\ UNCHANGED <<config, shared, rpcs, frames, stopping, own, prevOwned,
                 genSeen, resetSeen, gain, holding, fault, hist>>

\* reset_data: the robot is put at its initial pose.
ResetRobot ==
  /\ slot' = EmptySlot
  /\ gain' = 0 /\ genSeen' = 0
  /\ holding' = TRUE /\ fault' = FALSE
  /\ wiped' = resetGen /\ due' = TRUE

\* reset() of a plant that is not running.
ResetStopped ==
  /\ pc \in {"off", "ended"}
  /\ ResetRobot
  /\ pc' = "off" /\ stopping' = FALSE
  /\ UNCHANGED <<config, shared, rpcs, callback, own, prevOwned, resetSeen,
                 wasDue>>

Wake ==
  /\ pc = "sleep" /\ ~stopping /\ Brief(callback.woke)
  /\ callback' = [callback EXCEPT !.woke = callback.busy]
  /\ wasDue' = due
  /\ IF Served /\ resetGen # resetSeen
       THEN pc' = "reset" /\ resetSeen' = resetGen
       ELSE pc' = "owned" /\ UNCHANGED resetSeen
  /\ UNCHANGED <<config, shared, rpcs, slot, stopping, own, prevOwned, genSeen,
                 gain, holding, fault, wiped, due>>

WakeToStop ==
  /\ pc = "sleep" /\ stopping /\ pc' = "ended"
  /\ UNCHANGED <<config, shared, rpcs, frames, stopping, own, prevOwned,
                 genSeen, resetSeen, gain, holding, fault, hist>>

\* Bug: the hoist target of before the reset is kept.
ResetDataKeepsTarget ==
  /\ pc = "reset"
  /\ slot' = EmptySlot
  /\ gain' = 0
  /\ holding' = TRUE /\ fault' = FALSE
  /\ wiped' = resetGen /\ due' = TRUE
  /\ pc' = "prev"
  /\ UNCHANGED <<config, shared, rpcs, callback, stopping, own, prevOwned,
                 genSeen, resetSeen, wasDue>>

ResetData ==
  /\ pc = "reset"
  /\ ResetRobot
  /\ pc' = "prev"
  /\ UNCHANGED <<config, shared, rpcs, callback, stopping, own, prevOwned,
                 resetSeen, wasDue>>

ResetPrevOwned ==
  /\ pc = "prev"
  /\ prevOwned' = owned /\ pc' = "mark"
  /\ slot' = Foreign(slot) /\ callback' = Foreign(callback)
  /\ UNCHANGED <<config, shared, rpcs, stopping, own, genSeen, resetSeen, gain,
                 holding, fault, hist>>

\* Bug: the generation is loaded again when the reset is done.
MarkLatestApplied ==
  /\ pc = "mark"
  /\ applied' = resetGen /\ pc' = "sleep"
  /\ UNCHANGED <<config, owned, fsm, strap, hoistGen, resetGen, rpcs, frames,
                 stopping, own, prevOwned, genSeen, resetSeen, gain, holding,
                 fault, hist>>

MarkResetApplied ==
  /\ pc = "mark"
  /\ applied' = resetSeen /\ pc' = "sleep"
  /\ UNCHANGED <<config, owned, fsm, strap, hoistGen, resetGen, rpcs, frames,
                 stopping, own, prevOwned, genSeen, resetSeen, gain, holding,
                 fault, hist>>

Then(point) == pc' = IF config.hoist THEN point ELSE "drive"

\* Bug: the slot is emptied only when the vendor takes over.
HandOverOneWay ==
  /\ pc = "owned"
  /\ own' = owned /\ prevOwned' = owned
  /\ IF owned = prevOwned
       THEN UNCHANGED frames
       ELSE /\ slot' = IF owned THEN EmptySlot ELSE Foreign(slot)
            /\ callback' = Foreign(callback)
  /\ Then("capture")
  /\ UNCHANGED <<config, shared, rpcs, stopping, genSeen, resetSeen, gain,
                 holding, fault, hist>>

HandOver ==
  /\ pc = "owned"
  /\ own' = owned /\ prevOwned' = owned
  /\ IF owned = prevOwned
       THEN UNCHANGED frames
       ELSE slot' = EmptySlot /\ callback' = Foreign(callback)
  /\ Then("capture")
  /\ UNCHANGED <<config, shared, rpcs, stopping, genSeen, resetSeen, gain,
                 holding, fault, hist>>

\* apply_hoist: the generation is loaded, and the target captured.
Capture ==
  /\ pc = "capture" /\ pc' = "pull"
  /\ IF hoistGen = genSeen
       THEN UNCHANGED <<genSeen, gain, due, wasDue>>
       ELSE genSeen' = hoistGen /\ gain' = PayOut /\ due' = FALSE /\ wasDue' = FALSE
  /\ UNCHANGED <<config, shared, rpcs, frames, stopping, own, prevOwned,
                 resetSeen, holding, fault, wiped>>

\* Bug: the strap goes on paying out when it is slack.
PullPastZero ==
  /\ pc = "pull" /\ pc' = "drive"
  /\ gain' = IF strap = "slack" THEN gain - 1 ELSE PayOut
  /\ UNCHANGED <<config, shared, rpcs, frames, stopping, own, prevOwned,
                 genSeen, resetSeen, holding, fault, hist>>

\* Then the mode is loaded, and the strap pulls at its gain.
Pull ==
  /\ pc = "pull" /\ pc' = "drive"
  /\ gain' = CASE strap # "slack" -> PayOut
               [] strap = "slack" /\ gain > 0 -> gain - 1
               [] OTHER -> 0
  /\ UNCHANGED <<config, shared, rpcs, frames, stopping, own, prevOwned,
                 genSeen, resetSeen, holding, fault, hist>>

FrameDrives == pc = "drive" /\ ~own /\ slot.valid

(* The vendor drives, or our newest frame does, or what was applied stays.  *)
(* Then MuJoCo integrates, unless the robot is frozen; a state that is not  *)
(* finite ends the loop.                                                    *)
Drive ==
  /\ pc = "drive"
  /\ \/ holding' = (holding /\ ~FrameDrives)
     \/ callback.busy /\ UNCHANGED holding        \* snapshot_command gives up
  /\ \/ fault' = fault
     \/ fault' = TRUE
  /\ pc' = IF fault' /\ ~(config.freeze /\ holding') THEN "ended" ELSE "sleep"
  /\ own' = FALSE /\ wasDue' = FALSE
  /\ UNCHANGED <<config, shared, rpcs, frames, stopping, prevOwned, genSeen,
                 resetSeen, gain, wiped, due>>

Servers ==
  \/ SetFsmId \/ SetFsmIdStore
  \/ ReleaseMode \/ ReleaseModeStore \/ SelectMode \/ SelectModeStore
  \/ Hoist \/ HoistMode \/ Lower \/ Slack
  \/ Reset \/ ResetOwned \/ ResetHoist \/ ResetMode \/ ResetGeneration

Physics ==
  \/ Wake \/ WakeToStop
  \/ ResetData \/ ResetPrevOwned \/ MarkResetApplied
  \/ HandOver \/ Capture \/ Pull \/ Drive

Next ==
  \/ Servers \/ LowCmdHandler \/ LowCmdHandlerStore
  \/ Start \/ Stop \/ WaitForStop \/ ResetStopped
  \/ Physics

Spec == Init /\ [][Next]_vars

-----------------------------------------------------------------------------
TypeOK ==
  /\ config \in Configs
  /\ owned \in BOOLEAN /\ fsm \in Fsm /\ strap \in Straps
  /\ hoistGen \in 1..MaxHoists /\ resetGen \in 0..MaxResets /\ applied \in 0..MaxResets
  /\ sport \in Fsm \cup {"idle"} /\ switcher \in {"idle", "release", "select"}
  /\ plant \in {"idle", "hoist", "reset", "reset.hoist", "reset.mode", "reset.generation"}
  /\ callback \in [busy : BOOLEAN, age : Ages, woke : BOOLEAN]
  /\ slot \in [valid : BOOLEAN, age : Ages]
  /\ pc \in Points
  /\ {stopping, own, prevOwned, holding, fault, due, wasDue} \subseteq BOOLEAN
  /\ genSeen \in 0..MaxHoists /\ resetSeen \in 0..MaxResets
  /\ gain \in 0..PayOut
  /\ wiped \in 0..MaxResets

(* The last frame from before a hand-over is nobody's current command       *)
(* (physics_loop, the comment at the clearing of the slot): once the loop   *)
(* has noticed that the joints changed hands, no frame that was let in      *)
(* before moves them, the one of a callback in flight included.             *)
CleanSlot == FrameDrives => slot.age # "foreign"

(* A client takes equal generations in Status for "my reset has been        *)
(* applied" (NativePlantClient.reset): no generation is acknowledged        *)
(* before reset_data has run after its request, however resets overlap.     *)
ResetIsDone == applied <= wiped

(* A strap that pulls in a tick pulls to a place captured since the hoists  *)
(* requested, and the resets applied, before that tick began: the robot is  *)
(* never yanked to where it hung before (apply_hoist).                      *)
HoldsWhereHoisted == pc = "drive" /\ gain > 0 /\ config.hoist => ~wasDue

-----------------------------------------------------------------------------
(* What the comments say and the code does not do.                          *)

(* "ReleaseMode is refused unless the vendor FSM is damp" (plant_vendor.hpp:18). *)
ReleasedInDamp == config.vendor /\ ~owned => fsm = "damp"

(* A plant without the vendor's services keeps the joints ours: nobody is   *)
(* there to hand them over (the constructor stores vendor_enabled).         *)
NobodyTakesOver == ~config.vendor => ~owned

(* "so the plant re-captures the hoist target at the robot's current pose   *)
(* rather than the one it started at" (plant_vendor.hpp:45).                *)
TightensWhereHoisted ==
  [][gain = 0 /\ gain' > 0 /\ strap = "hoisted" => ~due']_vars

=============================================================================
