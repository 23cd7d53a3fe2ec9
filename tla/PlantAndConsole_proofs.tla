------------------------ MODULE PlantAndConsole_proofs ------------------------
(***************************************************************************)
(* The simulated robot, and the commands that an operator gives one.       *)
(***************************************************************************)
EXTENDS DdsPlant, OperatorConsole, TLAPS

-------------------------------------------------------------------------------
(***************************************************************************)
(* Three promises of the simulated robot, for every set of plants, pay-out *)
(* and bounds: an acknowledged reset has been applied, the strap pulls to  *)
(* where the robot was hoisted last, and a frame let in before the joints  *)
(* changed hands does not move them afterwards.  Then the types.           *)
(***************************************************************************)

(* An acknowledgement speaks of the generation the loop saw before it reset *)
(* the robot; reset_data covers every request made before it.               *)
ResetInv ==
  /\ resetGen \in Nat /\ resetSeen \in Nat /\ wiped \in Nat /\ applied \in Nat
  /\ resetSeen <= resetGen /\ wiped <= resetGen
  /\ applied <= wiped
  /\ pc \in {"prev", "mark"} => resetSeen <= wiped

(* A strap to be captured has a generation the loop has not seen.           *)
StrapInv ==
  /\ hoistGen \in Nat \ {0} /\ genSeen \in Nat
  /\ genSeen <= hoistGen
  /\ due => genSeen < hoistGen
  /\ wasDue => due
  /\ pc \in {"pull", "drive"} /\ config.hoist => ~wasDue

(* A frame changes hands once in its flight, when the vendor takes over; the *)
(* loop that has noticed it keeps prevOwned until it empties the slot.  A    *)
(* ReleaseMode under way when a reset begins meets no callback.              *)
FrameInv ==
  /\ owned \in BOOLEAN /\ own \in BOOLEAN /\ prevOwned \in BOOLEAN
  /\ callback \in [busy : BOOLEAN, age : Ages, woke : BOOLEAN]
  /\ slot \in [valid : BOOLEAN, age : Ages]
  /\ callback.busy => (owned <=> callback.age # "now")
  /\ callback.busy /\ callback.age = "foreign" => prevOwned
  /\ slot.valid /\ slot.age = "foreign" => prevOwned
  /\ pc \in {"capture", "pull", "drive"} => own = prevOwned
  /\ pc = "prev" /\ slot.valid /\ slot.age # "now" => owned
  /\ pc = "prev" /\ switcher = "release" => ~slot.valid
  /\ switcher = "release" =>
       owned /\ plant \in {"idle", "hoist"} /\ (resetGen = applied \/ ~callback.busy)

(* A reset the loop is at is one that it has not acknowledged.               *)
PendingInv ==
  /\ resetGen \in Nat /\ resetSeen \in Nat /\ applied \in Nat
  /\ applied <= resetSeen /\ resetSeen <= resetGen
  /\ pc \in {"reset", "prev", "mark"} => applied < resetSeen

LEMMA ResetInit == Init => ResetInv
  BY DEF Init, ResetInv

LEMMA ResetStep == ResetInv /\ [Next]_vars => ResetInv'
<1> SUFFICES ASSUME ResetInv, [Next]_vars PROVE ResetInv'
  OBVIOUS
<1> USE DEF ResetInv
<1>1. CASE Servers
  <2>1. CASE ResetGeneration
    BY <2>1 DEF ResetGeneration, loop, hist
  <2>2. CASE SetFsmId \/ SetFsmIdStore \/ Lower \/ Slack \/ HoistMode \/ ResetMode
    BY <2>2 DEF SetFsmId, SetFsmIdStore, Lower, Slack, HoistMode, ResetMode, shared, loop, hist
  <2>3. CASE ReleaseMode \/ ReleaseModeStore \/ SelectMode \/ SelectModeStore
    BY <2>3 DEF ReleaseMode, ReleaseModeStore, SelectMode, SelectModeStore, shared, loop, hist
  <2>4. CASE Hoist \/ Reset \/ ResetOwned \/ ResetHoist
    BY <2>4 DEF Hoist, Reset, ResetOwned, ResetHoist, shared, loop, hist
  <2> QED BY <1>1, <2>1, <2>2, <2>3, <2>4 DEF Servers
<1>2. CASE LowCmdHandler \/ LowCmdHandlerStore \/ Stop
  BY <1>2 DEF LowCmdHandler, LowCmdHandlerStore, Stop, shared, loop, hist
<1>3. CASE Start \/ WaitForStop
  BY <1>3 DEF Start, WaitForStop, shared, hist
<1>4. CASE ResetStopped
  BY <1>4 DEF ResetStopped, ResetRobot, shared
<1>5. CASE Physics
  <2>1. CASE Wake
    BY <2>1 DEF Wake, shared
  <2>2. CASE ResetData
    BY <2>2 DEF ResetData, ResetRobot, shared
  <2>3. CASE ResetPrevOwned
    BY <2>3 DEF ResetPrevOwned, shared, hist
  <2>4. CASE MarkResetApplied
    BY <2>4 DEF MarkResetApplied, hist
  <2>5. CASE HandOver \/ WakeToStop
    BY <2>5 DEF HandOver, WakeToStop, Then, shared, hist
  <2>6. CASE Capture \/ Pull \/ Drive
    BY <2>6 DEF Capture, Pull, Drive, shared, hist
  <2> QED BY <1>5, <2>1, <2>2, <2>3, <2>4, <2>5, <2>6 DEF Physics
<1>6. CASE UNCHANGED vars
  BY <1>6 DEF vars, shared, loop, hist
<1> QED BY <1>1, <1>2, <1>3, <1>4, <1>5, <1>6 DEF Next

(* No reset is acknowledged before the robot was reset after its request,   *)
(* however many requests overlap (MarkResetApplied and reset_data).         *)
THEOREM AcknowledgedIsReset == Spec => []ResetIsDone
<1>1. ResetInv => ResetIsDone
  BY DEF ResetInv, ResetIsDone
<1> QED BY <1>1, ResetInit, ResetStep, PTL DEF Spec

LEMMA StrapInit == Init => StrapInv
  BY DEF Init, StrapInv

LEMMA StrapStep == StrapInv /\ [Next]_vars => StrapInv'
<1> SUFFICES ASSUME StrapInv, [Next]_vars PROVE StrapInv'
  OBVIOUS
<1> USE DEF StrapInv
<1>1. CASE Servers
  <2>1. CASE Hoist
    BY <2>1 DEF Hoist, Bump, loop
  <2>2. CASE ResetHoist
    BY <2>2 DEF ResetHoist, Bump, loop
  <2>3. CASE SetFsmId \/ SetFsmIdStore
    BY <2>3 DEF SetFsmId, SetFsmIdStore, shared, loop, hist
  <2>4. CASE ReleaseMode
    BY <2>4 DEF ReleaseMode, shared, loop, hist
  <2>5. CASE SelectMode
    BY <2>5 DEF SelectMode, loop, hist
  <2>6. CASE ReleaseModeStore
    BY <2>6 DEF ReleaseModeStore, loop, hist
  <2>7. CASE SelectModeStore
    BY <2>7 DEF SelectModeStore, loop, hist
  <2>8. CASE Lower \/ Slack
    BY <2>8 DEF Lower, Slack, loop, hist
  <2>9. CASE HoistMode \/ ResetMode
    BY <2>9 DEF HoistMode, ResetMode, loop, hist
  <2>10. CASE Reset \/ ResetGeneration
    BY <2>10 DEF Reset, ResetGeneration, loop, hist
  <2>11. CASE ResetOwned
    BY <2>11 DEF ResetOwned, loop, hist
  <2> QED
    BY <1>1, <2>1, <2>2, <2>3, <2>4, <2>5, <2>6, <2>7, <2>8, <2>9, <2>10, <2>11
       DEF Servers
<1>2. CASE LowCmdHandler \/ LowCmdHandlerStore \/ Stop
  BY <1>2 DEF LowCmdHandler, LowCmdHandlerStore, Stop, shared, loop, hist
<1>3. CASE Start \/ WaitForStop
  BY <1>3 DEF Start, WaitForStop, shared, hist
<1>4. CASE ResetStopped
  BY <1>4 DEF ResetStopped, ResetRobot, shared
<1>5. CASE Physics
  <2>1. CASE Wake
    BY <2>1 DEF Wake, shared
  <2>2. CASE ResetData
    BY <2>2 DEF ResetData, ResetRobot, shared
  <2>3. CASE ResetPrevOwned \/ MarkResetApplied
    BY <2>3 DEF ResetPrevOwned, MarkResetApplied, shared, hist
  <2>4. CASE HandOver \/ WakeToStop
    BY <2>4 DEF HandOver, WakeToStop, Then, shared, hist
  <2>5. CASE Capture
    BY <2>5 DEF Capture, shared
  <2>6. CASE Pull \/ Drive
    BY <2>6 DEF Pull, Drive, shared, hist
  <2> QED BY <1>5, <2>1, <2>2, <2>3, <2>4, <2>5, <2>6 DEF Physics
<1>6. CASE UNCHANGED vars
  BY <1>6 DEF vars, shared, loop, hist
<1> QED BY <1>1, <1>2, <1>3, <1>4, <1>5, <1>6 DEF Next

(* No strap pulls to a place it captured before the hoists and resets that  *)
(* preceded the tick: reset_data forgets the generation it has seen, and    *)
(* apply_hoist captures before it pulls.                                    *)
THEOREM StrapsHoldWhereHoisted == Spec => []HoldsWhereHoisted
<1>1. StrapInv => HoldsWhereHoisted
  BY DEF StrapInv, HoldsWhereHoisted
<1> QED BY <1>1, StrapInit, StrapStep, PTL DEF Spec

-----------------------------------------------------------------------------
(* The frames.                                                              *)

LEMMA PendingInit == Init => PendingInv
  BY DEF Init, PendingInv

LEMMA PendingStep == PendingInv /\ [Next]_vars => PendingInv'
<1> SUFFICES ASSUME PendingInv, [Next]_vars PROVE PendingInv'
  OBVIOUS
<1> USE DEF PendingInv, shared, loop
<1>1. CASE Servers
  <2>1. CASE ResetGeneration
    BY <2>1 DEF ResetGeneration
  <2>2. CASE ~ResetGeneration
    <3>1. UNCHANGED <<resetGen, applied, resetSeen, pc>>
      BY <1>1, <2>2 DEF Servers, SetFsmId, SetFsmIdStore, Lower, Slack,
         HoistMode, Hoist, ResetMode, ReleaseMode, ReleaseModeStore, SelectMode,
         SelectModeStore, Reset, ResetOwned, ResetHoist
    <3> QED
      BY <3>1
  <2> QED
    BY <2>1, <2>2
<1>2. CASE LowCmdHandler \/ LowCmdHandlerStore \/ Stop \/ Start \/ WaitForStop
  BY <1>2 DEF LowCmdHandler, LowCmdHandlerStore, Stop, Start, WaitForStop
<1>3. CASE ResetStopped
  BY <1>3 DEF ResetStopped
<1>4. CASE Physics
  BY <1>4 DEF Physics, Wake, WakeToStop, ResetData, ResetPrevOwned, Then,
     MarkResetApplied, HandOver, Capture, Pull, Drive
<1>5. CASE UNCHANGED vars
  BY <1>5 DEF vars
<1> QED
  BY <1>1, <1>2, <1>3, <1>4, <1>5 DEF Next

\* What a store of owned, and its discovery by the loop, do to a frame.
LEMMA Aged ==
  ASSUME callback \in [busy : BOOLEAN, age : Ages, woke : BOOLEAN],
         slot \in [valid : BOOLEAN, age : Ages]
  PROVE  /\ Older(callback, callback.busy) \in [busy : BOOLEAN, age : Ages, woke : BOOLEAN]
         /\ Older(callback, callback.busy).busy = callback.busy
         /\ Older(callback, callback.busy).age =
              IF callback.busy /\ callback.age = "now" THEN "before" ELSE callback.age
         /\ Older(slot, slot.valid) \in [valid : BOOLEAN, age : Ages]
         /\ Older(slot, slot.valid).valid = slot.valid
         /\ Older(slot, slot.valid).age =
              IF slot.valid /\ slot.age = "now" THEN "before" ELSE slot.age
         /\ Foreign(callback) \in [busy : BOOLEAN, age : Ages, woke : BOOLEAN]
         /\ Foreign(callback).busy = callback.busy
         /\ Foreign(callback).age =
              IF callback.age = "before" THEN "foreign" ELSE callback.age
         /\ Foreign(slot) \in [valid : BOOLEAN, age : Ages]
         /\ Foreign(slot).valid = slot.valid
         /\ Foreign(slot).age = IF slot.age = "before" THEN "foreign" ELSE slot.age
  BY DEF Older, Foreign, Ages

LEMMA FrameInit == Init => FrameInv
<1> SUFFICES ASSUME Init PROVE FrameInv
  OBVIOUS
<1>1. config.vendor \in BOOLEAN
  BY ConfigsAssumption DEF Init, Config
<1>2. /\ callback \in [busy : BOOLEAN, age : Ages, woke : BOOLEAN] /\ ~callback.busy
      /\ slot \in [valid : BOOLEAN, age : Ages] /\ ~slot.valid
  BY DEF Init, NoCallback, EmptySlot, Ages
<1> QED
  BY <1>1, <1>2 DEF Init, FrameInv

LEMMA FrameStep == PendingInv /\ FrameInv /\ [Next]_vars => FrameInv'
<1> SUFFICES ASSUME PendingInv, FrameInv, [Next]_vars PROVE FrameInv'
  OBVIOUS
<1> USE DEF FrameInv
<1>1. CASE ReleaseModeStore
  <2>1. owned /\ ~callback.busy
    BY <1>1 DEF ReleaseModeStore, Store, Brief
  <2>2. /\ owned' = FALSE /\ switcher' = "idle" /\ UNCHANGED <<pc, own, prevOwned>>
        /\ slot' = Older(slot, slot.valid)
        /\ callback' = Older(callback, callback.busy)
    BY <1>1, <2>1 DEF ReleaseModeStore, Store, loop
  <2>3. pc = "prev" => ~slot.valid
    BY <1>1 DEF ReleaseModeStore
  <2> QED
    BY <2>1, <2>2, <2>3, Aged
<1>2. CASE SelectModeStore \/ ResetOwned
  <2>1. /\ owned' = TRUE /\ UNCHANGED <<pc, own, prevOwned, resetGen, applied>>
        /\ switcher' # "release"
        /\ \/ owned /\ UNCHANGED <<slot, callback>>
           \/ ~owned /\ slot' = Older(slot, slot.valid)
                    /\ callback' = Older(callback, callback.busy)
    BY <1>2 DEF SelectModeStore, ResetOwned, Store, loop, frames
  <2>2. CASE owned /\ UNCHANGED <<slot, callback>>
    BY <2>1, <2>2
  <2>3. CASE ~owned /\ slot' = Older(slot, slot.valid)
             /\ callback' = Older(callback, callback.busy)
    BY <2>1, <2>3, Aged
  <2> QED
    BY <2>1, <2>2, <2>3
<1>3. CASE ReleaseMode
  <2>1. /\ owned /\ plant \in {"idle", "hoist"}
        /\ resetGen = applied \/ (pc \in {"off", "ended"} /\ ~callback.busy)
    BY <1>3 DEF ReleaseMode, Resetting
  <2>2. pc # "prev"
    BY <2>1 DEF PendingInv
  <2> QED
    BY <1>3, <2>1, <2>2 DEF ReleaseMode, shared, frames, loop
<1>4. CASE \/ SetFsmId \/ SetFsmIdStore \/ SelectMode \/ Hoist \/ HoistMode
           \/ Lower \/ Slack \/ Reset \/ ResetHoist \/ ResetMode
           \/ ResetGeneration
  <2>1. /\ UNCHANGED <<owned, own, prevOwned, callback, slot, pc>>
        /\ switcher' = "release" =>
             /\ switcher = "release" /\ UNCHANGED <<resetGen, applied>>
             /\ plant \in {"idle", "hoist"} => plant' \in {"idle", "hoist"}
    BY <1>4 DEF SetFsmId, SetFsmIdStore, SelectMode, Hoist, HoistMode, Lower,
       Slack, Reset, ResetHoist, ResetMode, ResetGeneration, shared, rpcs,
       frames, loop
  <2> QED
    BY <2>1
<1>5. CASE LowCmdHandler
  BY <1>5 DEF LowCmdHandler, NoCallback, Ages, shared, rpcs, loop
<1>6. CASE LowCmdHandlerStore
  BY <1>6 DEF LowCmdHandlerStore, NoCallback, PendingInv, Ages, shared, rpcs, loop
<1>7. CASE Start \/ Stop \/ WaitForStop \/ WakeToStop
  BY <1>7 DEF Start, Stop, WaitForStop, WakeToStop, shared, rpcs, frames
<1>8. CASE ResetStopped \/ ResetData
  <2>1. /\ slot' = EmptySlot /\ pc' \in {"off", "prev"}
        /\ UNCHANGED <<owned, own, prevOwned, callback, switcher, plant, resetGen,
                       applied>>
    BY <1>8 DEF ResetStopped, ResetData, ResetRobot, shared, rpcs
  <2>2. ~slot'.valid /\ slot' \in [valid : BOOLEAN, age : Ages]
    BY <2>1 DEF EmptySlot, Ages
  <2> QED
    BY <2>1, <2>2
<1>9. CASE Wake
  <2>1. /\ callback' = [callback EXCEPT !.woke = callback.busy]
        /\ pc' \in {"reset", "owned"}
        /\ UNCHANGED <<owned, own, prevOwned, slot, switcher, plant, resetGen, applied>>
    BY <1>9 DEF Wake, shared, rpcs
  <2>2. /\ callback' \in [busy : BOOLEAN, age : Ages, woke : BOOLEAN]
        /\ callback'.busy = callback.busy /\ callback'.age = callback.age
    BY <2>1
  <2> QED
    BY <2>1, <2>2
<1>10. CASE ResetPrevOwned
  BY <1>10, Aged DEF ResetPrevOwned, shared, rpcs
<1>11. CASE MarkResetApplied
  BY <1>11 DEF MarkResetApplied, PendingInv, rpcs, frames
<1>12. CASE HandOver
  <2>1. CASE owned = prevOwned
    BY <1>12, <2>1 DEF HandOver, Then, shared, rpcs, frames
  <2>2. CASE owned # prevOwned
    <3>1. /\ own' = owned /\ prevOwned' = owned /\ pc' \in {"capture", "drive"}
          /\ slot' = EmptySlot /\ callback' = Foreign(callback)
          /\ UNCHANGED <<owned, switcher, plant, resetGen, applied>>
      BY <1>12, <2>2 DEF HandOver, Then, shared, rpcs
    <3>2. ~slot'.valid /\ slot' \in [valid : BOOLEAN, age : Ages]
      BY <3>1 DEF EmptySlot, Ages
    <3> QED
      BY <3>1, <3>2, Aged
  <2> QED
    BY <2>1, <2>2
<1>13. CASE Capture \/ Pull
  BY <1>13 DEF Capture, Pull, shared, rpcs, frames
<1>14. CASE Drive
  BY <1>14 DEF Drive, shared, rpcs, frames
<1>15. CASE UNCHANGED vars
  BY <1>15 DEF vars, shared, rpcs, frames, loop
<1> QED
  BY <1>1, <1>2, <1>3, <1>4, <1>5, <1>6, <1>7, <1>8, <1>9, <1>10, <1>11, <1>12,
     <1>13, <1>14, <1>15 DEF Next, Servers, Physics

(* Once the loop has noticed that the joints changed hands, no frame let in  *)
(* before moves them (physics_loop's clearing of the slot, low_cmd_handler). *)
THEOREM ForeignNeverDrives == Spec => []CleanSlot
<1>1. FrameInv => CleanSlot
  BY DEF FrameInv, CleanSlot, FrameDrives
<1> QED
  BY <1>1, FrameInit, FrameStep, PendingInit, PendingStep, PTL DEF Spec


-----------------------------------------------------------------------------
(* The types.  A reset raises the two generations after the check that they *)
(* are below their bounds, so that what is under way has to be counted.     *)
RoomInv ==
  /\ plant \in {"reset", "reset.hoist"} => hoistGen < MaxHoists
  /\ plant \in {"reset", "reset.hoist", "reset.mode", "reset.generation"} =>
       resetGen < MaxResets

Counted ==
  /\ hoistGen \in 1..MaxHoists /\ resetGen \in 0..MaxResets
  /\ applied \in 0..MaxResets /\ resetSeen \in 0..MaxResets
  /\ genSeen \in 0..MaxHoists /\ wiped \in 0..MaxResets /\ gain \in 0..PayOut

Named ==
  /\ config \in Configs /\ fsm \in Fsm /\ strap \in Straps /\ pc \in Points
  /\ sport \in Fsm \cup {"idle"} /\ switcher \in {"idle", "release", "select"}
  /\ plant \in {"idle", "hoist", "reset", "reset.hoist", "reset.mode", "reset.generation"}

Flags == {stopping, holding, fault, due, wasDue} \subseteq BOOLEAN

LEMMA NamedStep == Named /\ [Next]_vars => Named'
<1> SUFFICES ASSUME Named, [Next]_vars PROVE Named'
  OBVIOUS
<1> USE DEF Named, Fsm, Straps, Points, rpcs, shared, loop
<1>1. CASE Servers
  BY <1>1 DEF Servers, SetFsmId, SetFsmIdStore, ReleaseMode, ReleaseModeStore, SelectMode,
     SelectModeStore, Hoist, HoistMode, Lower, Slack, Reset, ResetOwned, ResetHoist,
     ResetMode, ResetGeneration
<1>2. CASE LowCmdHandler \/ LowCmdHandlerStore \/ UNCHANGED vars
  BY <1>2 DEF LowCmdHandler, LowCmdHandlerStore, vars
<1>3. CASE Start \/ Stop \/ WaitForStop \/ ResetStopped
  BY <1>3 DEF Start, Stop, WaitForStop, ResetStopped
<1>4. CASE Physics
  BY <1>4 DEF Physics, Wake, WakeToStop, ResetData, ResetPrevOwned, MarkResetApplied,
     HandOver, Capture, Pull, Drive, Then
<1> QED
  BY <1>1, <1>2, <1>3, <1>4 DEF Next

LEMMA CountedStep == Counted /\ RoomInv /\ [Next]_vars => Counted' /\ RoomInv'
<1> SUFFICES ASSUME Counted, RoomInv, [Next]_vars PROVE Counted' /\ RoomInv'
  OBVIOUS
<1> USE BoundsAssumption DEF Counted, RoomInv, shared, loop, hist
<1>1. CASE SetFsmId \/ SetFsmIdStore \/ ReleaseMode \/ ReleaseModeStore
           \/ SelectMode \/ SelectModeStore
  BY <1>1 DEF SetFsmId, SetFsmIdStore, ReleaseMode, ReleaseModeStore, SelectMode,
     SelectModeStore
<1>2. CASE Hoist \/ ResetHoist
  BY <1>2 DEF Hoist, ResetHoist, Bump
<1>3. CASE HoistMode \/ Lower \/ Slack
  BY <1>3 DEF HoistMode, Lower, Slack, rpcs
<1>4. CASE Reset \/ ResetOwned \/ ResetMode \/ ResetGeneration
  <2>1. CASE Reset
    BY <2>1 DEF Reset
  <2>2. CASE ResetOwned
    BY <2>2 DEF ResetOwned
  <2>3. CASE ResetMode
    BY <2>3 DEF ResetMode
  <2>4. CASE ResetGeneration
    BY <2>4 DEF ResetGeneration
  <2> QED
    BY <1>4, <2>1, <2>2, <2>3, <2>4
<1>5. CASE LowCmdHandler \/ LowCmdHandlerStore \/ UNCHANGED vars
  BY <1>5 DEF LowCmdHandler, LowCmdHandlerStore, vars, rpcs
<1>6. CASE Start \/ Stop \/ WaitForStop \/ ResetStopped
  BY <1>6 DEF Start, Stop, WaitForStop, ResetStopped, ResetRobot, rpcs
<1>7. CASE Wake \/ WakeToStop \/ ResetData \/ ResetPrevOwned \/ MarkResetApplied
  BY <1>7 DEF Wake, WakeToStop, ResetData, ResetRobot, ResetPrevOwned, MarkResetApplied, rpcs
<1>8. CASE HandOver \/ Capture \/ Drive
  BY <1>8 DEF HandOver, Capture, Drive, rpcs
<1>9. CASE Pull
  <2>1. gain' \in 0..PayOut
    BY <1>9 DEF Pull
  <2> QED
    BY <1>9, <2>1 DEF Pull, rpcs
<1> QED
  BY <1>1, <1>2, <1>3, <1>4, <1>5, <1>6, <1>7, <1>8, <1>9 DEF Next, Servers, Physics

LEMMA FlagsStep == Flags /\ [Next]_vars => Flags'
<1> SUFFICES ASSUME Flags, [Next]_vars PROVE Flags'
  OBVIOUS
<1> USE DEF Flags, loop, hist
<1>1. CASE Servers
  BY <1>1, Zenon DEF Servers, SetFsmId, SetFsmIdStore, ReleaseMode, ReleaseModeStore, SelectMode,
     SelectModeStore, Hoist, HoistMode, Lower, Slack, Reset, ResetOwned, ResetHoist,
     ResetMode, ResetGeneration, Bump
<1>2. CASE LowCmdHandler \/ LowCmdHandlerStore \/ UNCHANGED vars
  BY <1>2 DEF LowCmdHandler, LowCmdHandlerStore, vars
<1>3. CASE Start \/ Stop \/ WaitForStop \/ ResetStopped
  BY <1>3 DEF Start, Stop, WaitForStop, ResetStopped, ResetRobot
<1>4. CASE Wake \/ WakeToStop \/ ResetData \/ ResetPrevOwned \/ MarkResetApplied
           \/ HandOver \/ Capture \/ Pull
  BY <1>4 DEF Wake, WakeToStop, ResetData, ResetRobot, ResetPrevOwned, MarkResetApplied,
     HandOver, Capture, Pull
<1>5. CASE Drive
  <2>1. holding' \in BOOLEAN /\ fault' \in BOOLEAN
    BY <1>5, Zenon DEF Drive
  <2> QED
    BY <1>5, <2>1 DEF Drive
<1> QED
  BY <1>1, <1>2, <1>3, <1>4, <1>5 DEF Next, Physics

(* Every variable of the plant keeps its type: the atomics of both files,   *)
(* the command slot and the loop's own state (mujoco_dds_plant.cpp,         *)
(* plant_vendor.cpp).                                                       *)
THEOREM TypeCorrect == Spec => []TypeOK
<1>1. Init => Named /\ Counted /\ RoomInv /\ Flags
  <2> SUFFICES ASSUME Init PROVE Named /\ Counted /\ RoomInv /\ Flags
    OBVIOUS
  <2>1. Named
    BY DEF Init, Named, Fsm, Straps, Points
  <2>2. Counted /\ RoomInv
    BY BoundsAssumption DEF Init, Counted, RoomInv
  <2>3. Flags
    BY DEF Init, Flags
  <2> QED
    BY <2>1, <2>2, <2>3
<1>2. Named /\ Counted /\ Flags /\ FrameInv => TypeOK
  BY DEF Named, Counted, Flags, FrameInv, TypeOK
<1> QED
  BY <1>1, <1>2, NamedStep, CountedStep, FlagsStep, FrameInit, FrameStep, PendingInit,
     PendingStep, PTL DEF Spec

-------------------------------------------------------------------------------
(***************************************************************************)
(* The commands in front of a robot: how they leave its joints, and what   *)
(* their exit code says, for every number of keys and verbs.               *)
(***************************************************************************)

\* What the joints do is one of three things.
LEMMA Joined ==
  ASSUME NEW w \in Wire, NEW j \in {"vendor", "driven", "limp"}
  PROVE  /\ [w EXCEPT !.joints = j] \in Wire /\ [w EXCEPT !.joints = j].joints = j
         /\ [w EXCEPT !.joints = j].open = w.open
BY DEF Wire

\* A connection that is damped is damped, and a limp robot stays limp.
LEMMA WireTyped ==
  ASSUME NEW w \in Wire
  PROVE  /\ w.joints \in {"vendor", "driven", "limp"}
         /\ [w EXCEPT !.link = ~@] \in Wire /\ [w EXCEPT !.link = ~@].joints = w.joints
         /\ Limp(w) \in Wire /\ Limp(w).joints # "driven"
         /\ Limp(w).open = w.open /\ [w EXCEPT !.link = ~@].open = w.open
         /\ w.joints # "driven" => Limp(w).joints = w.joints
BY DEF Wire, Limp

\* Closing a session or a tracker drives nothing: the robot is limp, back with the
\* vendor, or was not driven before.
LEMMA Undriven ==
  ASSUME NEW w \in Wire
  PROVE  /\ \A v \in HandedBack(w) : v \in Wire /\ v.joints # "driven" /\ v.open = w.open
         /\ Destroy(w) \in Wire /\ Destroy(w).joints # "driven" /\ Destroy(w).open = FALSE
<1>1. ASSUME NEW v \in HandedBack(w)
      PROVE  v \in Wire /\ v.joints # "driven" /\ v.open = w.open
  <2>1. CASE w.joints = "vendor"
    <3>1. v = Limp(w)
      BY <2>1 DEF HandedBack
    <3> QED BY <3>1, WireTyped
  <2>2. CASE w.joints # "vendor"
    <3> DEFINE back == [w EXCEPT !.joints = "vendor"]
    <3>1. HandedBack(w) = {Limp(w)} \cup {back}
      BY <2>2 DEF HandedBack
    <3>2. back \in Wire /\ back.joints = "vendor" /\ back.open = w.open
      BY Joined
    <3> HIDE DEF back
    <3>3. v = Limp(w) \/ v = back
      BY <3>1
    <3> QED BY <3>2, <3>3, WireTyped
  <2> QED BY <2>1, <2>2
<1>2. Destroy(w) \in Wire /\ Destroy(w).joints = Limp(w).joints /\ Destroy(w).open = FALSE
  <2> DEFINE v == Limp(w)
  <2>1. v \in Wire
    BY WireTyped
  <2> HIDE DEF v
  <2>2. /\ [v EXCEPT !.open = FALSE] \in Wire /\ [v EXCEPT !.open = FALSE].joints = v.joints
        /\ [v EXCEPT !.open = FALSE].open = FALSE
    BY <2>1 DEF Wire
  <2> QED BY <2>2 DEF v, Destroy
<1> QED BY <1>1, <1>2, WireTyped

\* A process that ends where it is leaves its runtime destroyed, or the connection as
\* it was.
LEMMA KilledTyped ==
  ASSUME ConsoleTypeOK, NEW w \in Killed
  PROVE  /\ w \in Wire
         /\ \/ w.joints # "driven" /\ ~w.open
            \/ w = wire /\ cmd.kind \in Sessions \cup {"robot"}
<1>0. wire \in Wire
  BY DEF ConsoleTypeOK
<1>1. w = wire \/ w = Destroy(wire)
  BY DEF Killed
<1>2. w = wire => cmd.kind \in Sessions \cup {"robot"} \/ w = Destroy(wire)
  BY DEF Killed
<1> QED BY <1>0, <1>1, <1>2, Undriven

\* A result is counted, and marked, field by field.
LEMMA ResultTyped ==
  ASSUME NEW r \in Result
  PROVE  /\ r.failed \in BOOLEAN /\ r.interrupted \in BOOLEAN /\ r.life \in Lives
         /\ r.code \in {NONE, 0, 1, 2}
         /\ [r EXCEPT !.failed = TRUE] \in Result
         /\ [r EXCEPT !.interrupted = TRUE] \in Result
         /\ \A l \in Lives : /\ [r EXCEPT !.life = l] \in Result
                             /\ [r EXCEPT !.failed = TRUE, !.life = l] \in Result
                             /\ [r EXCEPT !.life = l, !.failed = TRUE] \in Result
                             /\ \A f \in BOOLEAN : [r EXCEPT !.life = l, !.failed = f] \in Result
         /\ \A c \in {0, 1, 2} : /\ [r EXCEPT !.code = c] \in Result
                                 /\ \A d \in BOOLEAN :
                                      [r EXCEPT !.code = c, !.damped = d] \in Result
BY DEF Result, Lives

\* So is the control thread's record.
LEMMA ControlTyped ==
  ASSUME NEW c \in Control
  PROVE  /\ \A f \in BOOLEAN : [c EXCEPT !.running = f] \in Control
         /\ \A f, g \in BOOLEAN : /\ [c EXCEPT !.running = f, !.engaged = g] \in Control
                                  /\ [c EXCEPT !.running = f, !.ticked = g] \in Control
                                  /\ [c EXCEPT !.running = f, !.fault = g] \in Control
         /\ [c EXCEPT !.ticked = TRUE] \in Control /\ [c EXCEPT !.engaged = TRUE] \in Control
BY DEF Control

\* Whatever a verb leads to, done or failed half-way, is a connection.
LEMMA OutcomesTyped ==
  ASSUME ConsoleTypeOK, NEW verb \in Verbs, cmd.kind \in Consoles, NEW w \in Outcomes(verb)
  PROVE  w \in Wire /\ w.open = wire.open
<1>0. wire \in Wire
  BY DEF ConsoleTypeOK
<1>1. CASE verb = "p"
  <2>1. Outcomes(verb) = {wire}
    BY <1>1 DEF Outcomes
  <2> QED BY <1>0, <2>1
<1> DEFINE driven == [wire EXCEPT !.joints = "driven"]
           limp   == [wire EXCEPT !.joints = "limp"]
<1>6. /\ driven \in Wire /\ limp \in Wire
      /\ driven.open = wire.open /\ limp.open = wire.open
  BY <1>0, Joined
<1>2. CASE verb # "p" /\ cmd.kind = "robot"
  <2> DEFINE taken == [wire EXCEPT !.joints = IF verb = "n" THEN "driven" ELSE "limp"]
  <2>1. Outcomes(verb) = IF wire.link THEN {taken} ELSE {}
    BY <1>2 DEF Outcomes, Sessions
  <2>3. taken = driven \/ taken = limp
    BY <1>0 DEF Wire
  <2> HIDE DEF taken
  <2> HIDE DEF driven, limp
  <2>2. w = driven \/ w = limp
    BY <2>1, <2>3
  <2> QED BY <1>6, <2>2
<1>3. CASE verb = "n" /\ cmd.kind # "robot"
  <2>1. Outcomes(verb) = IF wire.open THEN {driven, wire} ELSE {}
    BY <1>3 DEF Outcomes
  <2> HIDE DEF driven
  <2>2. w = driven \/ w = wire
    BY <2>1
  <2> QED BY <1>0, <1>6, <2>2
<1>4. CASE verb = "damp" /\ cmd.kind = "tracker"
  <2>1. Outcomes(verb) = {Limp(wire)}
    BY <1>4 DEF Outcomes, Sessions
  <2>2. w = Limp(wire)
    BY <2>1
  <2> QED BY <1>0, <2>2, WireTyped
<1>5. CASE verb = "damp" /\ cmd.kind \in Sessions
  <2>1. w \in IF wire.open THEN HandedBack(wire) ELSE {}
    BY <1>5 DEF Outcomes, Sessions
  <2> QED BY <1>0, <2>1, Undriven
<1> QED BY <1>1, <1>2, <1>3, <1>4, <1>5 DEF Verbs, Consoles

-----------------------------------------------------------------------------
(* Types.                                                                   *)

\* A key that is typed, or handled, by the full or the plain console.
LEMMA TypeKeys ==
  ASSUME ConsoleTypeOK, Press \/ Handle
  PROVE  ConsoleTypeOK'
<1> USE DEF ConsoleTypeOK
<1>1. CASE Press
  <2>1. PICK k \in Pressed : tty' = Append(tty, k)
    BY <1>1 DEF Press, Pressed
  <2>2. tty' \in Seq(Pressed)
    BY <2>1
  <2>3. typed' \in Typed
    BY <1>1, ConsoleAssumption DEF Press, Typed
  <2> QED BY <1>1, <2>2, <2>3 DEF Press, console, Mains, Pressed
<1>2. CASE HandleTui
  <2> DEFINE k == Head(tty)
  <2>0. main = "keys" /\ cmd.kind = "tui" /\ tty # <<>> /\ tty' = Tail(tty)
    BY <1>2 DEF HandleTui
  <2>1. tty' \in Seq(Pressed)
    BY <2>0
  <2>2. /\ UNCHANGED <<cmd, typed, worker, control, result>>
        /\ \/ EmergencyDamp \/ Edit(k)
           \/ prompt' = "" /\ UNCHANGED <<main, queue, wire>>
           \/ Asked(k) /\ UNCHANGED <<prompt, wire>>
    BY <1>2 DEF HandleTui
  <2>3. wire' \in Wire
    BY <2>2, WireTyped DEF EmergencyDamp, Edit
  <2>4. ASSUME NEW a, Asked(a) PROVE queue' \in Seq(Verbs) /\ main' \in Mains
    <3>1. main' \in Mains
      BY <2>0, <2>4 DEF Asked, Mains
    <3>2. CASE a \in Verbs
      <4>1. Append(queue, a) \in Seq(Verbs)
        BY <3>2
      <4> DEFINE longer == Append(queue, a)
      <4>2. queue' \in {queue, longer}
        BY <2>4 DEF Asked
      <4> QED BY <3>1, <4>1, <4>2
    <3>3. CASE a \notin Verbs
      <4>1. queue' = queue
        BY <2>4, <3>3 DEF Asked
      <4> QED BY <3>1, <4>1
    <3> QED BY <3>2, <3>3
  <2>6. CASE EmergencyDamp
    <3>1. queue' = Append(queue, "damp") /\ main' = main
      BY <2>6 DEF EmergencyDamp
    <3>2. "damp" \in Verbs
      BY DEF Verbs
    <3>3. queue' \in Seq(Verbs)
      BY <3>1, <3>2
    <3> QED BY <2>0, <2>1, <2>2, <2>3, <3>1, <3>3 DEF Mains, Pressed
  <2>7. CASE Edit(k)
    <3>1. Asked(prompt) \/ UNCHANGED <<main, queue>>
      BY <2>7 DEF Edit
    <3> QED BY <2>0, <2>1, <2>2, <2>3, <2>4, <3>1 DEF Mains, Pressed
  <2>5. CASE Asked(k) \/ UNCHANGED <<main, queue>>
    BY <2>0, <2>1, <2>2, <2>3, <2>4, <2>5 DEF Mains, Pressed
  <2> QED BY <2>2, <2>5, <2>6, <2>7
<1>3. CASE HandleKey
  <2>1. /\ tty' = Tail(tty) /\ tty # <<>> /\ cmd.kind \in Consoles \ {"tui"}
        /\ UNCHANGED <<cmd, typed, prompt, queue, wire, control, result>>
    BY <1>3 DEF HandleKey
  <2>2. Head(tty) \in {"n", "q", "^D"} /\ tty' \in Seq(Pressed)
    BY <2>1 DEF Pressed
  <2>3. main' \in Mains
    BY <1>3, <2>1 DEF HandleKey, Mains, Consoles, Sessions
  <2>4. \/ worker' = worker
        \/ \E v \in {"n", "damp"} : worker' = [verb |-> v, at |-> "running"]
    BY <1>3, <2>2 DEF HandleKey
  <2>5. /\ worker' \in Workers
        /\ worker'.at \in {"taken", "running"} => worker'.verb \in Verbs /\ cmd.kind \in Consoles
    BY <2>1, <2>4 DEF Workers, Verbs
  <2> QED BY <2>1, <2>2, <2>3, <2>5 DEF Mains, Pressed
<1> QED BY <1>1, <1>2, <1>3 DEF Handle

\* The worker takes a verb, begins it and ends it.
LEMMA TypeAct ==
  ASSUME ConsoleTypeOK, Act
  PROVE  ConsoleTypeOK'
<1> USE DEF ConsoleTypeOK
<1>1. CASE Take
  <2>1. /\ queue # <<>> /\ queue' = Tail(queue) /\ cmd.kind = "tui"
        /\ worker' = [verb |-> Head(queue), at |-> "taken"]
        /\ UNCHANGED <<cmd, main, input, prompt, wire, control, result>>
    BY <1>1 DEF Take
  <2>2. Head(queue) \in Verbs /\ queue' \in Seq(Verbs)
    BY <2>1
  <2>3. worker' \in Workers /\ worker'.verb \in Verbs /\ cmd.kind \in Consoles
    BY <2>1, <2>2 DEF Workers, Consoles, Sessions
  <2> QED BY <2>1, <2>2, <2>3 DEF input, Mains, Pressed
<1>2. CASE Begin
  <2>1. /\ worker' \in Workers /\ worker'.verb = worker.verb
    BY <1>2 DEF Begin, Workers
  <2> QED BY <1>2, <2>1 DEF Begin, input, Mains, Pressed
<1>3. ASSUME Done(worker) = worker', After, UNCHANGED <<cmd, input, prompt, queue, control, result>>,
             wire' \in Wire, worker.at = "running"
      PROVE  ConsoleTypeOK'
  <2>1. worker' \in Workers /\ worker'.at \notin {"taken", "running"}
    BY <1>3 DEF Done, Workers
  <2>2. main' \in Mains
    BY <1>3 DEF After, Mains, Commands, Kinds
  <2> QED BY <1>3, <2>1, <2>2 DEF input, Mains, Pressed
<1>4. CASE Succeeds
  <2>1. wire' \in Wire
    BY <1>4, OutcomesTyped DEF Succeeds
  <2> QED BY <1>3, <1>4, <2>1 DEF Succeeds
<1>5. CASE Raises
  BY <1>3, <1>5 DEF Raises
<1>6. CASE WorkerEnds
  <2>1. worker' \in Workers /\ worker'.at = "ended"
    BY <1>6 DEF WorkerEnds, Workers
  <2> QED BY <1>6, <2>1 DEF WorkerEnds, input, Mains, Pressed
<1> QED BY <1>1, <1>2, <1>4, <1>5, <1>6 DEF Act

\* A run without an operator.
LEMMA TypeServe ==
  ASSUME ConsoleTypeOK, \/ Build \/ Ramp \/ Link \/ ControlTicks \/ ControlEnds \/ Serve
  PROVE  ConsoleTypeOK'
<1> USE DEF ConsoleTypeOK, input, console
<1>1. CASE Build
  <2>1. main' \in Mains
    BY <1>1 DEF Build, Mains, Commands, Kinds
  <2>2. result' \in Result
    BY <1>1, ResultTyped DEF Build
  <2> QED BY <1>1, <2>1, <2>2 DEF Build, Mains, Pressed
<1>2. CASE Ramp
  <2>1. main' \in Mains
    BY <1>2 DEF Ramp, Mains, Commands, Kinds
  <2>2. result' \in Result
    BY <1>2, ResultTyped DEF Ramp
  <2>5. wire' = wire \/ wire' = Limp(wire) \/ wire' = [wire EXCEPT !.joints = "driven"]
    BY <1>2 DEF Ramp
  <2>6. [wire EXCEPT !.joints = "driven"] \in Wire
    BY Joined
  <2>7. Limp(wire) \in Wire
    BY WireTyped
  <2>3. wire' \in Wire
    BY <2>5, <2>6, <2>7
  <2>4. control' \in Control
    BY <1>2 DEF Ramp, Control, Commands
  <2> QED BY <1>2, <2>1, <2>2, <2>3, <2>4 DEF Ramp, Mains, Pressed
<1>3. CASE Link
  BY <1>3, WireTyped DEF Link, Mains, Pressed
<1>4. CASE ControlTicks
  BY <1>4, ControlTyped DEF ControlTicks, Mains, Pressed
<1>5. CASE ControlEnds
  <2>1. control' \in Control
    BY <1>5, ControlTyped DEF ControlEnds
  <2>2. wire' \in Wire
    BY <1>5, WireTyped DEF ControlEnds
  <2> QED BY <1>5, <2>1, <2>2 DEF ControlEnds, Mains, Pressed
<1>6. ASSUME NEW r \in Result, Abandon(r), main = "serve", UNCHANGED <<cmd, input, console>>
      PROVE  ConsoleTypeOK'
  <2>1. main' \in Mains
    BY <1>6 DEF Abandon, Mains, Commands, Kinds
  <2>2. wire' \in Wire /\ control' \in Control /\ result' \in Result
    BY <1>6, WireTyped, ControlTyped DEF Abandon
  <2> QED BY <1>6, <2>1, <2>2 DEF Mains, Pressed
<1>7. CASE Engage
  <2>1. CASE Abandon([result EXCEPT !.failed = TRUE])
    BY <1>6, <1>7, <2>1, ResultTyped DEF Engage
  <2>2. CASE control' = [control EXCEPT !.engaged = TRUE] /\ UNCHANGED <<main, wire, result>>
    BY <1>7, <2>2, ControlTyped DEF Engage, Mains, Pressed
  <2> QED BY <1>7, <2>1, <2>2 DEF Engage
<1>8. CASE CommandTimeout
  BY <1>6, <1>8, ResultTyped DEF CommandTimeout
<1>9. CASE ServeEnds
  <2>1. main' \in Mains
    BY <1>9 DEF ServeEnds, Mains, Commands, Kinds
  <2> QED BY <1>9, <2>1 DEF ServeEnds, Mains, Pressed
<1> QED BY <1>1, <1>2, <1>3, <1>4, <1>5, <1>7, <1>8, <1>9 DEF Serve

\* A scripted run.
LEMMA TypeScript ==
  ASSUME ConsoleTypeOK, Script
  PROVE  ConsoleTypeOK'
<1> USE DEF ConsoleTypeOK, input, console
<1>1. CASE Climb
  <2>0. (cmd.until = "beyond") \in BOOLEAN /\ {"primed", "rung"} \subseteq Lives
    BY DEF Lives
  <2> DEFINE beyond == cmd.until = "beyond"
  <2>3. \/ result' = [result EXCEPT !.life = "primed", !.failed = beyond]
        \/ \E short \in BOOLEAN : result' = [result EXCEPT !.life = "rung", !.failed = short]
    BY <1>1 DEF Climb
  <2>1. result' \in Result
    <3>1. beyond \in BOOLEAN
      OBVIOUS
    <3>2. result \in Result
      OBVIOUS
    <3> HIDE DEF beyond
    <3>3. [result EXCEPT !.life = "primed", !.failed = beyond] \in Result
      BY <2>0, <3>1, <3>2, ResultTyped
    <3>4. ASSUME NEW short \in BOOLEAN
          PROVE  [result EXCEPT !.life = "rung", !.failed = short] \in Result
      BY <2>0, <3>2, ResultTyped
    <3> QED BY <2>3, <3>3, <3>4
  <2>2. wire' \in Wire
    BY <1>1, Joined DEF Climb
  <2> QED BY <1>1, <2>1, <2>2 DEF Climb, Mains, Pressed
<1>2. CASE Go
  <2>1. main' \in Mains
    BY <1>2 DEF Go, Mains, Commands, Kinds
  <2>2. result' \in Result
    BY <1>2, ResultTyped DEF Go, Lives
  <2>3. control' \in Control
    BY <1>2, ControlTyped DEF Go
  <2> QED BY <1>2, <2>1, <2>2, <2>3 DEF Go, Mains, Pressed
<1>3. CASE Climbed
  <2>1. main' \in Mains
    BY <1>3 DEF Climbed, Mains, Commands, Kinds
  <2> QED BY <1>3, <2>1 DEF Climbed, Mains, Pressed
<1>4. CASE Ran
  <2>1. main' \in Mains
    BY <1>4 DEF Ran, Mains, Commands, Kinds
  <2>2. result' \in Result
    BY <1>4, ResultTyped DEF Ran, Lives
  <2> QED BY <1>4, <2>1, <2>2 DEF Ran, Mains, Pressed
<1>5. CASE Recover
  <2>1. main' \in Mains
    BY <1>5 DEF Recover, Mains, Commands, Kinds
  <2>2. result' \in Result
    BY <1>5, ResultTyped DEF Recover, Lives
  <2>3. wire' \in Wire
    <3>1. Limp(wire) \in Wire
      BY WireTyped
    <3>2. [wire EXCEPT !.joints = "vendor"] \in Wire
      BY Joined
    <3> QED BY <1>5, <3>1, <3>2 DEF Recover
  <2> QED BY <1>5, <2>1, <2>2, <2>3 DEF Recover, Mains, Pressed
<1> QED BY <1>1, <1>2, <1>3, <1>4, <1>5 DEF Script

\* Every way down: the finally blocks, in order, and Ctrl-C at any of them.
LEMMA TypeClose ==
  ASSUME ConsoleTypeOK, Close \/ Interrupt
  PROVE  ConsoleTypeOK'
<1> USE DEF ConsoleTypeOK, input, console
<1>1. CASE Join
  <2>1. main' \in Mains
    BY <1>1 DEF Join, Mains, Commands, Kinds
  <2> QED BY <1>1, <2>1 DEF Join, Mains, Pressed
<1>2. CASE CloseSession
  <2>1. main' \in Mains
    BY <1>2 DEF CloseSession, Mains, Sessions
  <2>2. wire' \in Wire
    BY <1>2, Undriven DEF CloseSession
  <2> QED BY <1>2, <2>1, <2>2 DEF CloseSession, Mains, Pressed
<1>3. CASE CloseTracker
  BY <1>3, Undriven, ResultTyped DEF CloseTracker, Mains, Pressed
<1>4. CASE CloseRobot
  <2>1. wire' \in Wire
    BY <1>4, Joined DEF CloseRobot
  <2>2. wire.link \in BOOLEAN
    BY DEF Wire
  <2>3. result' \in Result
    BY <1>4, <2>2, ResultTyped DEF CloseRobot
  <2> QED BY <1>4, <2>1, <2>3 DEF CloseRobot, Mains, Pressed
<1>5. CASE CloseNative
  <2>1. wire' \in Wire
    BY <1>5, Undriven DEF CloseNative
  <2>2. Code \in {0, 1, 2}
    BY <1>5 DEF CloseNative, Code
  <2>3. result' \in Result /\ control' \in Control
    BY <1>5, <2>2, ResultTyped, ControlTyped DEF CloseNative
  <2> QED BY <1>5, <2>1, <2>3 DEF CloseNative, Mains, Pressed
<1>6. CASE Interrupt
  <2>0. typed' \in Typed
    BY <1>6, ConsoleAssumption DEF Interrupt, Typed
  <2>1. main' \in Mains
    BY <1>6 DEF Interrupt, Abandon, Mains, Commands, Kinds
  <2>2. worker' = worker \/ worker' = Idle
    BY <1>6 DEF Interrupt
  <2>3. Idle \in Workers /\ Idle.at = "idle"
    BY DEF Idle, Workers
  <2>4. wire' \in Wire
    BY <1>6, WireTyped, Undriven, KilledTyped DEF Interrupt, Abandon
  <2> DEFINE limp == ~wire'.open
             cut  == [result EXCEPT !.code = 1, !.damped = limp]
  <2>7. limp \in BOOLEAN
    OBVIOUS
  <2>8. cut \in Result
    <3> HIDE DEF limp
    <3> QED BY <2>7, ResultTyped
  <2>9. \/ result' = result \/ result' = cut
        \/ result' = [result EXCEPT !.interrupted = TRUE]
        \/ result' = [result EXCEPT !.failed = TRUE]
    BY <1>6 DEF Interrupt, Abandon
  <2>5. result' \in Result
    <3> HIDE DEF cut
    <3> QED BY <2>8, <2>9, ResultTyped
  <2>6. control' \in Control
    BY <1>6, ControlTyped DEF Interrupt, Abandon
  <2> QED BY <1>6, <2>0, <2>1, <2>2, <2>3, <2>4, <2>5, <2>6 DEF Interrupt, Mains, Pressed
<1> QED BY <1>1, <1>2, <1>3, <1>4, <1>5, <1>6 DEF Close
(* Every step keeps the console's state well typed.                        *)
LEMMA ConsoleTypeStep == ConsoleTypeOK /\ [ConsoleNext]_consoleVars => ConsoleTypeOK'
<1> SUFFICES ASSUME ConsoleTypeOK, [ConsoleNext]_consoleVars PROVE ConsoleTypeOK'
  OBVIOUS
<1>1. CASE UNCHANGED consoleVars
  BY <1>1 DEF consoleVars, input, console, ConsoleTypeOK, Mains, Pressed
<1> QED
  BY <1>1, TypeKeys, TypeAct, TypeServe, TypeScript, TypeClose DEF ConsoleNext

(* The initial state is well typed.                                        *)
LEMMA ConsoleTypeInit == ConsoleInit => ConsoleTypeOK
<1> SUFFICES ASSUME ConsoleInit PROVE ConsoleTypeOK
  OBVIOUS
<1>1. cmd \in Commands /\ (cmd.go \/ cmd.recover => cmd.kind = "script")
  BY DEF ConsoleInit, Commands
<1>2. typed \in Typed
  BY ConsoleAssumption DEF ConsoleInit, Typed
<1>3. tty \in Seq(Pressed) /\ queue \in Seq(Verbs)
  BY DEF ConsoleInit
<1>4. worker \in Workers /\ worker.at = "idle"
  BY DEF ConsoleInit, Idle, Workers
<1>5. wire \in Wire /\ control \in Control /\ result \in Result
  BY DEF ConsoleInit, Wire, Control, Result, Lives
<1>6. main \in Mains
  BY DEF ConsoleInit, Mains
<1> QED BY <1>1, <1>2, <1>3, <1>4, <1>5, <1>6 DEF ConsoleTypeOK

\* The console's state is well typed: a main thread that is somewhere in one
\* command, a queue of verbs, a connection and a result (tui.py, cli.py).
THEOREM ConsoleTyped == ConsoleSpec => []ConsoleTypeOK
<1> QED BY ConsoleTypeInit, ConsoleTypeStep, PTL DEF ConsoleSpec

-----------------------------------------------------------------------------
(* The joints.                                                              *)

\* A runtime is destroyed by the end of its process, or with it.
Opened == main # "gone" => wire.open

\* Whatever drives or damps the joints on the way keeps it.
LEMMA OpenStep ==
  ASSUME ConsoleTypeOK, Opened, [ConsoleNext]_consoleVars
  PROVE  Opened'
<1> USE DEF Opened, input, console
<1>0. wire \in Wire
  BY DEF ConsoleTypeOK
<1>1. CASE Build \/ Press \/ HandleKey \/ Take \/ Begin \/ Raises \/ WorkerEnds \/ ControlTicks \/ ServeEnds
  BY <1>1 DEF Build, Press, HandleKey, Take, Begin, Raises, WorkerEnds, After, ControlTicks, ServeEnds
<1>2. CASE HandleTui
  <2>1. main # "gone" /\ wire' \in {wire, Limp(wire)}
    BY <1>2 DEF HandleTui, EmergencyDamp, Edit, Asked
  <2> QED BY <1>0, <2>1, WireTyped
<1> DEFINE driven == [wire EXCEPT !.joints = "driven"]
           vendor == [wire EXCEPT !.joints = "vendor"]
<1>11. driven.open = wire.open /\ vendor.open = wire.open /\ Limp(wire).open = wire.open
  BY <1>0, WireTyped, Joined
<1>3. CASE Ramp \/ ControlEnds
  <2>1. main # "gone" => wire' = wire \/ wire' = Limp(wire) \/ wire' = driven
    BY <1>3 DEF Ramp, ControlEnds
  <2>2. main' # "gone" => main # "gone"
    BY <1>3 DEF Ramp, ControlEnds
  <2> QED BY <1>11, <2>1, <2>2
<1>12. CASE Link
  BY <1>0, <1>12, WireTyped DEF Link
<1>4. CASE Succeeds
  <2>1. worker.verb \in Verbs /\ cmd.kind \in Consoles
    BY <1>4 DEF Succeeds, ConsoleTypeOK
  <2>2. wire'.open = wire.open /\ main # "gone"
    BY <1>4, <2>1, OutcomesTyped DEF Succeeds
  <2> QED BY <2>2
<1>5. CASE Engage \/ CommandTimeout
  BY <1>0, <1>5, WireTyped DEF Engage, CommandTimeout, Abandon
<1>6. CASE Script
  <2>1. main # "gone"
    BY <1>6 DEF Script, Climb, Go, Climbed, Ran, Recover
  <2>2. wire' = wire \/ wire' = Limp(wire) \/ wire' = driven \/ wire' = vendor
    BY <1>6 DEF Script, Climb, Go, Climbed, Ran, Recover
  <2> HIDE DEF driven, vendor
  <2> QED BY <1>11, <2>1, <2>2
<1>7. CASE Join \/ CloseSession
  BY <1>0, <1>7, Undriven DEF Join, CloseSession
<1>8. CASE CloseTracker \/ CloseRobot \/ CloseNative
  BY <1>8 DEF CloseTracker, CloseRobot, CloseNative
<1>9. CASE Interrupt
  <2>1. CASE main \in {"build", "ramp", "close", "shut"}
    BY <1>9, <2>1 DEF Interrupt
  <2>2. CASE main \notin {"build", "ramp", "close", "shut"}
    <3>1. main # "gone" /\ (wire' = wire \/ wire' = Limp(wire) \/ wire' \in HandedBack(wire))
      BY <1>9, <2>2 DEF Interrupt, Abandon
    <3>2. wire' \in HandedBack(wire) => wire'.open = wire.open
      BY <1>0, Undriven
    <3> QED BY <1>11, <3>1, <3>2
  <2> QED BY <2>1, <2>2
<1>10. CASE UNCHANGED consoleVars
  BY <1>10 DEF consoleVars
<1> QED
  BY <1>1, <1>2, <1>3, <1>4, <1>5, <1>6, <1>7, <1>8, <1>9, <1>10, <1>12
     DEF ConsoleNext, Handle, Act, Serve, Close

\* Before there is a connection the vendor drives and the worker has no verb; a
\* command that has ended left the joints as LeavesLimp says.
LimpInv == (main = "build" => wire.joints = "vendor" /\ worker = Idle) /\ LeavesLimp

\* Every step keeps it: to each close there is a damp before it, whoever raises.
LEMMA LimpStep ==
  ASSUME ConsoleTypeOK, Opened, LimpInv, [ConsoleNext]_consoleVars
  PROVE  LimpInv'
<1> USE DEF LimpInv, LeavesLimp, input, console
<1>0. wire \in Wire /\ cmd.kind \in Kinds /\ main \in Mains
  BY DEF ConsoleTypeOK, Commands
<1>1. CASE Build
  BY <1>1 DEF Build
<1>2. CASE Ramp
  BY <1>0, <1>2, WireTyped DEF Ramp
<1>3. CASE Press \/ Handle
  BY <1>3 DEF Press, Handle, HandleTui, HandleKey, EmergencyDamp, Edit, Asked
<1>4. CASE Act
  BY <1>4 DEF Act, Take, Begin, Succeeds, Raises, WorkerEnds, After, Idle
<1>5. CASE Link
  BY <1>0, <1>5, WireTyped DEF Link
<1>6. CASE ControlTicks \/ ControlEnds
  BY <1>0, <1>6, WireTyped DEF ControlTicks, ControlEnds
<1>7. CASE Serve \/ Script
  BY <1>7 DEF Serve, Engage, CommandTimeout, ServeEnds, Abandon,
              Script, Climb, Go, Climbed, Ran, Recover
<1>8. CASE Join \/ CloseSession
  BY <1>8 DEF Join, CloseSession
<1>9. CASE CloseTracker
  BY <1>0, <1>9, Undriven DEF CloseTracker
<1>10. CASE CloseRobot
  BY <1>0, <1>10, Joined DEF CloseRobot, Wire, ConsoleTypeOK, Result
<1>11. CASE CloseNative
  <2>1. wire' = Destroy(wire) \/ \E w \in HandedBack(wire) : wire' = Destroy(w)
    BY <1>11 DEF CloseNative
  <2>2. Destroy(wire).joints # "driven"
    BY <1>0, Undriven
  <2>3. ASSUME NEW w \in HandedBack(wire) PROVE Destroy(w).joints # "driven"
    <3>1. w \in Wire
      BY <1>0, Undriven
    <3> QED BY <3>1, Undriven
  <2>4. wire'.joints # "driven" /\ main' = "gone"
    BY <1>11, <2>1, <2>2, <2>3 DEF CloseNative
  <2> QED BY <2>4
<1>12. CASE Interrupt
  <2>1. CASE main \notin {"build", "ramp", "close", "shut"}
    <3>1. main' # "gone" /\ main' # "build"
      BY <1>12, <2>1 DEF Interrupt, Abandon
    <3> QED BY <3>1
  <2>2. CASE main \in {"build", "ramp", "close", "shut"}
    <3>4. typed'.ints > 0
      BY <1>12, ConsoleAssumption DEF Interrupt, ConsoleTypeOK, Typed
    <3> DEFINE closed == ~wire'.open
    <3>5. result' = [result EXCEPT !.code = 1, !.damped = closed]
      BY <1>12, <2>2 DEF Interrupt
    <3>6. result'.damped = closed
      <4> HIDE DEF closed
      <4> QED BY <3>5 DEF ConsoleTypeOK, Result
    <3>1. main' = "gone" /\ wire' \in Killed /\ cmd' = cmd
      BY <1>12, <2>2 DEF Interrupt
    <3>2. wire'.joints # "driven" \/ (wire' = wire /\ cmd.kind \in Sessions \cup {"robot"})
      BY <3>1, KilledTyped
    <3>3. wire' = wire => wire'.open
      BY <2>2 DEF Opened
    <3>7. cmd.kind = "robot" /\ wire'.open => ~result'.damped
      BY <3>6
    <3> QED BY <3>1, <3>2, <3>3, <3>4, <3>7
  <2> QED BY <2>1, <2>2
<1>13. CASE UNCHANGED consoleVars
  BY <1>13 DEF consoleVars
<1> QED
  BY <1>1, <1>2, <1>3, <1>4, <1>5, <1>6, <1>7, <1>8, <1>9, <1>10, <1>11, <1>12, <1>13
     DEF ConsoleNext, Close

-----------------------------------------------------------------------------
(* The exit code.                                                           *)

\* The exit code, and what the result remembers that it is made of.
Tallied == SuccessInv /\ ZeroIsSuccess

\* Every step keeps it, an interrupt in the middle of a close included.
LEMMA SuccessStep ==
  ASSUME ConsoleTypeOK, Tallied, [ConsoleNext]_consoleVars
  PROVE  Tallied'
<1> USE DEF Tallied, SuccessInv, ZeroIsSuccess, Reached, input, console
<1>0. /\ main \in Mains /\ cmd.kind \in Kinds /\ cmd.go \in BOOLEAN
      /\ cmd.go => cmd.kind = "script"
      /\ NONE # 0 /\ NONE # 1
  BY ConsoleAssumption DEF ConsoleTypeOK, Commands
<1>1. CASE Build
  <2>1. main' \in {"climb", "ramp", "keys", "gone"} /\ UNCHANGED <<cmd, typed, control>>
    BY <1>1 DEF Build
  <2>2. main' = "climb" => result' = result /\ result.life = "idle"
    BY <1>0, <1>1 DEF Build
  <2>3. result' = result \/ (main' = "gone" /\ result' = [result EXCEPT !.code = 2])
    BY <1>1 DEF Build
  <2>4. main' # "gone" => result' = result
    BY <1>1 DEF Build
  <2>5. main = "build"
    BY <1>1 DEF Build
  <2> QED BY <1>0, <2>1, <2>2, <2>3, <2>4, <2>5 DEF ConsoleTypeOK, Result
<1>2. CASE Ramp
  BY <1>0, <1>2 DEF Ramp, Mains, ConsoleTypeOK, Control, Result
<1>3. CASE Press \/ Handle
  BY <1>0, <1>3 DEF Press, Handle, HandleTui, HandleKey, EmergencyDamp, Edit, Asked, Consoles, Sessions, Mains, ConsoleTypeOK, Typed
<1>4. CASE Act
  BY <1>0, <1>4 DEF Act, Take, Begin, Succeeds, Raises, WorkerEnds, After, Mains
<1>5. CASE Link
  BY <1>0, <1>5 DEF Link
<1>6. CASE ControlTicks \/ ControlEnds
  BY <1>0, <1>6 DEF ControlTicks, ControlEnds, ConsoleTypeOK, Control, Mains
<1>7. CASE Serve
  BY <1>0, <1>7 DEF Serve, Engage, CommandTimeout, ServeEnds, Abandon, ConsoleTypeOK, Control, Result, Mains
<1>8. CASE Script
  <2>0. result \in Result /\ cmd.kind = "script" /\ cmd.until \in Targets
    BY <1>0, <1>8 DEF Script, Climb, Go, Climbed, Ran, Recover, Mains, Kinds, ConsoleTypeOK, Commands
  <2>1. CASE Climb
    <3>1. /\ main = "climb" /\ main' = "climb" /\ result.life = "idle"
          /\ UNCHANGED <<cmd, typed, control>>
      BY <2>1 DEF Climb
    <3>2. result'.code = result.code /\ result'.interrupted = result.interrupted
      BY <2>0, <2>1 DEF Climb, Result
    <3>3. \/ (/\ result'.life = "primed" /\ cmd.until # "rung"
              /\ ~result'.failed => cmd.until # "beyond")
          \/ (result'.life = "rung" /\ (~result'.failed => cmd.until = "rung"))
      <4>1. CASE result' = [result EXCEPT !.life = "primed", !.failed = cmd.until = "beyond"]
                 /\ cmd.until # "rung"
        BY <2>0, <4>1 DEF Result
      <4>2. ASSUME NEW short \in BOOLEAN, cmd.until # "rung" => short,
                   result' = [result EXCEPT !.life = "rung", !.failed = short]
            PROVE  result'.life = "rung" /\ (~result'.failed => cmd.until = "rung")
        BY <2>0, <4>2 DEF Result
      <4> QED BY <2>1, <4>1, <4>2 DEF Climb
    <3>4. ~result.failed /\ ~result.interrupted /\ result.code = NONE
      BY <1>0, <2>0, <3>1
    <3>5. typed.ints > 0 => FALSE
      BY <1>0, <2>0, <3>4
    <3>6. ~control.running /\ ~control.fault
      BY <2>0, <3>1, <3>4
    <3> QED BY <1>0, <2>0, <3>1, <3>2, <3>3, <3>4, <3>5, <3>6 DEF Targets
  <2>2. CASE Go
    <3>1. /\ main = "climb" /\ result.life = "primed" /\ cmd.go /\ ~result.failed
          /\ UNCHANGED <<cmd, typed>>
      BY <2>2 DEF Go, Goes
    <3>2. cmd.until = "primed"
      BY <2>0, <3>1 DEF Targets
    <3>3. result.code = NONE /\ ~result.interrupted /\ ~control.fault
      BY <1>0, <2>0, <3>1
    <3>4. typed.ints > 0 => FALSE
      BY <1>0, <2>0, <3>1, <3>3
    <3>5. CASE main' = "run" /\ result' = [result EXCEPT !.life = "running"]
      <4>1. /\ result'.life = "running" /\ result'.failed = result.failed
            /\ result'.code = result.code /\ result'.interrupted = result.interrupted
        BY <2>0, <3>5 DEF Result
      <4> QED BY <1>0, <2>0, <3>1, <3>2, <3>3, <3>4, <3>5, <4>1
    <3>6. CASE main' = "recover" /\ result' = [result EXCEPT !.failed = TRUE] /\ UNCHANGED control
      <4>1. /\ result'.failed /\ result'.code = result.code
            /\ result'.interrupted = result.interrupted
        BY <2>0, <3>6 DEF Result
      <4> QED BY <1>0, <2>0, <3>1, <3>3, <3>4, <3>6, <4>1
    <3> QED BY <2>2, <3>5, <3>6 DEF Go
  <2>3. CASE Climbed
    <3>1. /\ main = "climb" /\ main' = "recover" /\ result.life # "idle"
          /\ ~(cmd.go /\ result.life = "primed" /\ ~result.failed)
          /\ UNCHANGED <<cmd, typed, control, result>>
      BY <2>3 DEF Climbed, Goes
    <3>2. ~result.failed => result.life \in Reached
      BY <2>0, <3>1 DEF Targets
    <3> QED BY <1>0, <2>0, <3>1, <3>2
  <2>4. CASE Ran
    BY <1>0, <2>4 DEF Ran, ConsoleTypeOK, Control, Result, Mains
  <2>5. CASE Recover
    <3>1. main = "recover" /\ main' = "close" /\ UNCHANGED <<cmd, typed, control>>
      BY <2>5 DEF Recover
    <3>2. CASE result' = result
      BY <1>0, <2>0, <3>1, <3>2
    <3>3. CASE result' = [result EXCEPT !.failed = TRUE]
      <4>1. /\ result'.failed /\ result'.code = result.code
            /\ result'.interrupted = result.interrupted
        BY <2>0, <3>3 DEF Result
      <4> QED BY <1>0, <2>0, <3>1, <4>1
    <3>4. CASE result' = [result EXCEPT !.life = "restored"] /\ result.life \in {"hold", "fault"}
      <4>1. /\ result'.life = "restored" /\ result'.failed = result.failed
            /\ result'.code = result.code /\ result'.interrupted = result.interrupted
        BY <2>0, <3>4 DEF Result
      <4>2. ~result.failed => cmd.until = "primed" /\ cmd.go
        BY <2>0, <3>1, <3>4 DEF Targets
      <4> QED BY <1>0, <2>0, <3>1, <4>1, <4>2
    <3> QED BY <2>5, <3>2, <3>3, <3>4 DEF Recover
  <2> QED BY <1>8, <2>1, <2>2, <2>3, <2>4, <2>5 DEF Script
<1>9. CASE Join \/ CloseSession \/ CloseTracker \/ CloseRobot
  BY <1>0, <1>9 DEF Join, CloseSession, CloseTracker, CloseRobot, Sessions, Mains, ConsoleTypeOK, Result
<1>10. CASE CloseNative
  <2>1. /\ main = "close" /\ main' = "gone" /\ UNCHANGED <<cmd, typed>>
        /\ control' = [control EXCEPT !.running = FALSE]
        /\ result' = [result EXCEPT !.code = Code]
    BY <1>10 DEF CloseNative
  <2>2. /\ result'.code = Code /\ result'.life = result.life
        /\ result'.failed = result.failed /\ result'.interrupted = result.interrupted
        /\ ~control'.running /\ control'.fault = control.fault
    <3>1. result \in Result /\ control \in Control
      BY DEF ConsoleTypeOK
    <3> DEFINE code == Code
    <3>2. result' = [result EXCEPT !.code = code]
      BY <2>1
    <3> HIDE DEF code
    <3>3. /\ result'.code = code /\ result'.life = result.life
          /\ result'.failed = result.failed /\ result'.interrupted = result.interrupted
      BY <3>1, <3>2 DEF Result
    <3>4. ~control'.running /\ control'.fault = control.fault
      BY <2>1, <3>1 DEF Control
    <3> QED BY <3>3, <3>4 DEF code
  <2>3. CASE cmd.kind = "script"
    <3>1. Code = IF result.failed \/ result.life = "fault" THEN 1 ELSE 0
      BY <2>3 DEF Code
    <3>2. typed.ints > 0 => result.failed
      BY <1>0, <2>1, <2>3
    <3>3. control.fault => result.failed
      BY <2>1, <2>3
    <3>4. ~result.failed => result.life \in Reached
      BY <2>1, <2>3
    <3>5. ~result.interrupted
      BY <2>3
    <3>6. typed.ints \in Nat
      BY DEF ConsoleTypeOK, Typed
    <3>7. Code = 0 => ~result.failed
      BY <3>1
    <3>8. typed.ints > 0 => Code = 1
      BY <3>1, <3>2
    <3>9. SuccessInv'
      BY <1>0, <2>1, <2>2, <2>3, <3>2, <3>3, <3>5, <3>8
    <3>10. Reached' = Reached
      BY <2>1
    <3>11. ZeroIsSuccess'
      <4>1. ASSUME Code = 0
            PROVE  ~control.fault /\ typed.ints = 0 /\ result.life \in Reached
        <5>1. ~result.failed
          BY <3>7, <4>1
        <5>2. typed.ints = 0
          BY <3>2, <3>6, <5>1
        <5> QED BY <3>3, <3>4, <5>1, <5>2
      <4> HIDE DEF Reached
      <4> QED BY <2>1, <2>2, <2>3, <3>10, <4>1
    <3> QED BY <3>9, <3>11
  <2>4. CASE cmd.kind = "serve"
    <3>1. Code = IF result.failed \/ result.interrupted \/ control.fault THEN 1 ELSE 0
      BY <2>4 DEF Code
    <3>2. typed.ints > 0 => result.failed \/ result.interrupted
      BY <1>0, <2>1, <2>4
    <3>6. typed.ints \in Nat
      BY DEF ConsoleTypeOK, Typed
    <3> QED BY <1>0, <2>1, <2>2, <2>4, <3>1, <3>2, <3>6
  <2>5. CASE cmd.kind \notin {"serve", "script"}
    BY <1>0, <2>1, <2>2, <2>5
  <2> QED BY <2>3, <2>4, <2>5
<1>11. CASE Interrupt
  <2>1. cmd' = cmd /\ main # "gone" /\ typed'.ints \in Nat
    BY <1>11, ConsoleAssumption DEF Interrupt, ConsoleTypeOK, Typed
  <2>2. CASE main \in {"keys", "act", "join"}
    <3>1. cmd.kind \notin {"serve", "script"}
      BY <1>0, <2>2 DEF Mains, Kinds
    <3>2. UNCHANGED <<control, result>> /\ main' # "gone"
      BY <1>11, <2>2 DEF Interrupt
    <3> QED BY <1>0, <2>1, <2>2, <3>1, <3>2
  <2>3. CASE main = "serve"
    <3>1. /\ main' = "close" /\ control' = [control EXCEPT !.running = FALSE]
          /\ result' = [result EXCEPT !.interrupted = TRUE]
      BY <1>11, <2>3 DEF Interrupt, Abandon
    <3>2. cmd.kind = "serve"
      BY <1>0, <2>3 DEF Mains, Kinds
    <3> QED BY <1>0, <2>1, <2>3, <3>1, <3>2 DEF ConsoleTypeOK, Control, Result
  <2>4. CASE main \in {"climb", "run", "recover"}
    <3>1. /\ main' = "close" /\ control' = control
          /\ result' = [result EXCEPT !.failed = TRUE]
      BY <1>11, <2>4 DEF Interrupt
    <3>2. cmd.kind = "script"
      BY <1>0, <2>4 DEF Mains, Kinds
    <3> QED BY <1>0, <2>1, <2>4, <3>1, <3>2 DEF ConsoleTypeOK, Result
  <2>5. CASE main \in {"build", "ramp", "close", "shut"}
    <3>1. /\ main' = "gone" /\ control' = [control EXCEPT !.running = FALSE]
      BY <1>11, <2>5 DEF Interrupt
    <3>2. result'.code = 1 /\ result'.interrupted = result.interrupted
      BY <1>11, <2>5 DEF Interrupt, ConsoleTypeOK, Result
    <3>3. result'.failed = result.failed
      BY <1>11, <2>5 DEF Interrupt, ConsoleTypeOK, Result
    <3>4. control'.running = FALSE /\ control'.fault = control.fault
      BY <3>1 DEF ConsoleTypeOK, Control
    <3> QED BY <1>0, <2>1, <2>5, <3>1, <3>2, <3>3, <3>4
  <2> QED BY <1>0, <1>11, <2>2, <2>3, <2>4, <2>5 DEF Interrupt
<1>12. CASE UNCHANGED consoleVars
  BY <1>12 DEF consoleVars
<1> QED
  BY <1>1, <1>2, <1>3, <1>4, <1>5, <1>6, <1>7, <1>8, <1>9, <1>10, <1>11, <1>12
     DEF ConsoleNext, Close

(* The induction.                                                           *)
LEMMA ConsoleInvStep == ConsoleTypeOK /\ ConsoleInv /\ [ConsoleNext]_consoleVars => ConsoleInv'
BY OpenStep, LimpStep, SuccessStep DEF ConsoleInv, Opened, LimpInv, Tallied

\* The initial state satisfies the inductive invariant.
LEMMA ConsoleInvInit == ConsoleInit => ConsoleInv
<1> SUFFICES ASSUME ConsoleInit PROVE ConsoleInv
  OBVIOUS
<1>1. NONE # 0
  BY ConsoleAssumption
<1> QED BY <1>1 DEF ConsoleInit, ConsoleInv, LeavesLimp, SuccessInv, ZeroIsSuccess

\* The inductive invariant of the commands in front of a robot.
THEOREM ConsoleInduction == ConsoleSpec => [](ConsoleTypeOK /\ ConsoleInv)
<1> QED
  BY ConsoleTypeInit, ConsoleInvInit, ConsoleTypeStep, ConsoleInvStep, PTL DEF ConsoleSpec

\* However a command ends, by a key, a fault, a timeout or Ctrl-C, it does not leave
\* joints driven that its own process drove, but for a shell whose last damp was refused
\* and a console that was cut in its close (tui.py, cli.py).
THEOREM EndsLimp == ConsoleSpec => []LeavesLimp
<1>1. ConsoleInv => LeavesLimp
  BY DEF ConsoleInv
<1> QED BY <1>1, ConsoleInduction, PTL

\* A served run or a script exits with 0 only if nothing of it failed and, a script,
\* if it came to its target (_cmd_lowlevel_unitree, _cmd_lifecycle_run).
THEOREM SuccessIsTrue == ConsoleSpec => []ZeroIsSuccess
<1>1. ConsoleInv => ZeroIsSuccess
  BY DEF ConsoleInv
<1> QED BY <1>1, ConsoleInduction, PTL

===============================================================================
