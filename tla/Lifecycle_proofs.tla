-------------------------- MODULE Lifecycle_proofs --------------------------
(***************************************************************************)
(* What the lifecycle guarantees for every auto_ack and end_state: an      *)
(* owning state has an open gate, nothing drives between a fault and the   *)
(* next PRECHECK, and the joints change hands by the protocol of Handover. *)
(***************************************************************************)
EXTENDS Lifecycle, SequenceTheorems, TLAPS

-----------------------------------------------------------------------------
(* The ladder, spelled out.                                                 *)

LEMMA RungsAre ==
  Rungs = {"IDLE", "PRECHECK", "VENDOR_DAMP_CONFIRMED",
           "SAFE_EXTERNAL_COMMAND_PRESENT", "USER_CONTROL_CONFIRMED",
           "START_POSE_RAMP", "POSE_SETTLED", "LOWERED",
           "POSE_MATCH_VERIFIED", "POLICY_COMMAND_FRESH", "PRIMED"}
<1>1. 1..11 = {1, 2, 3, 4, 5, 6, 7, 8, 9, 10, 11}
  OBVIOUS
<1> QED
  BY <1>1 DEF Rungs, Ladder

LEMMA OwningAre ==
  Owning = {"SAFE_EXTERNAL_COMMAND_PRESENT", "USER_CONTROL_CONFIRMED",
            "START_POSE_RAMP", "POSE_SETTLED", "LOWERED",
            "POSE_MATCH_VERIFIED", "POLICY_COMMAND_FRESH", "PRIMED",
            "BLEND_IN", "RUNNING", "HOLD"}
<1>1. 4..11 = {4, 5, 6, 7, 8, 9, 10, 11}
  OBVIOUS
<1> QED
  BY <1>1 DEF Owning, Ladder

LEMMA NextRungIs ==
  /\ NextRung("IDLE") = "PRECHECK"
  /\ NextRung("PRECHECK") = "VENDOR_DAMP_CONFIRMED"
  /\ NextRung("VENDOR_DAMP_CONFIRMED") = "SAFE_EXTERNAL_COMMAND_PRESENT"
  /\ NextRung("SAFE_EXTERNAL_COMMAND_PRESENT") = "USER_CONTROL_CONFIRMED"
  /\ NextRung("USER_CONTROL_CONFIRMED") = "START_POSE_RAMP"
  /\ NextRung("START_POSE_RAMP") = "POSE_SETTLED"
  /\ NextRung("POSE_SETTLED") = "LOWERED"
  /\ NextRung("LOWERED") = "POSE_MATCH_VERIFIED"
  /\ NextRung("POSE_MATCH_VERIFIED") = "POLICY_COMMAND_FRESH"
  /\ NextRung("POLICY_COMMAND_FRESH") = "PRIMED"
BY DEF NextRung, Ladder

-----------------------------------------------------------------------------
(* Lists of goals.                                                          *)

LEMMA TailDescends ==
  ASSUME NEW s, NEW t, NEW gs, Descends(s, gs), gs # <<>>,
         Head(gs) \in {"DAMP", "?hand_back"} => t = "DAMP"
  PROVE  Descends(t, Tail(gs)) /\ (Head(gs) = "?hoist" => Tail(gs) # <<>>)
<1> DEFINE ts == Tail(gs)
<1>1. /\ gs \in Seq(WayBack) /\ ts \in Seq(WayBack)
      /\ Len(gs) \in Nat /\ Len(ts) = Len(gs) - 1
      /\ \A i \in 1..Len(ts) : ts[i] = gs[i+1]
      /\ \A i \in 1..Len(gs) : gs[i] \in AfterDamp =>
           IF i = 1 THEN s = "DAMP" ELSE gs[i-1] \in {"DAMP", "?hand_back"}
      /\ gs[Len(gs)] # "?hoist"
  BY HeadTailProperties, EmptySeq DEF Descends
<1>2. gs[1] \in {"DAMP", "?hand_back"} => t = "DAMP"
  OBVIOUS
<1> HIDE DEF ts
<1>3. ASSUME NEW i \in 1..Len(ts), ts[i] \in AfterDamp
      PROVE  IF i = 1 THEN t = "DAMP" ELSE ts[i-1] \in {"DAMP", "?hand_back"}
  <2>1. i \in Int /\ i + 1 \in 1..Len(gs) /\ i + 1 # 1
    BY <1>1
  <2>2. gs[i+1] \in AfterDamp /\ (i + 1) - 1 = i
    BY <1>1, <1>3, <2>1
  <2>3. gs[i] \in {"DAMP", "?hand_back"}
    BY <1>1, <2>1, <2>2
  <2>4. CASE i = 1
    BY <2>3, <2>4, <1>2
  <2>5. CASE i # 1
    <3>1. i - 1 \in 1..Len(ts) /\ (i - 1) + 1 = i
      BY <2>5, <2>1, <1>1
    <3> QED
      BY <3>1, <2>3, <2>5, <1>1
  <2> QED
    BY <2>4, <2>5
<1>4. ts # <<>> => ts[Len(ts)] # "?hoist"
  <2> SUFFICES ASSUME ts # <<>> PROVE ts[Len(ts)] # "?hoist"
    OBVIOUS
  <2>1. Len(ts) \in 1..Len(ts) /\ Len(ts) + 1 = Len(gs)
    BY <1>1, EmptySeq
  <2> QED
    BY <2>1, <1>1
<1>5. Head(gs) = "?hoist" => ts # <<>>
  <2>1. Head(gs) = gs[1] /\ Len(gs) # 0
    BY <1>1, EmptySeq
  <2>2. ts = <<>> => Len(gs) = 1
    BY <1>1
  <2> QED
    BY <1>1, <2>1, <2>2
<1> QED
  BY <1>1, <1>3, <1>4, <1>5 DEF Descends, ts

LEMMA JoinDescends ==
  ASSUME NEW s, NEW gs, NEW hs \in Seq(WayBack \ AfterDamp), Descends(s, gs),
         hs # <<>> => hs[Len(hs)] # "?hoist"
  PROVE  Descends(s, gs \o hs)
<1>1. gs \in Seq(WayBack) /\ hs \in Seq(WayBack)
  BY SeqMonotonic DEF Descends
<1>2. /\ gs \o hs \in Seq(WayBack)
      /\ Len(gs) \in Nat /\ Len(hs) \in Nat
      /\ Len(gs \o hs) = Len(gs) + Len(hs)
      /\ \A i \in 1..Len(gs) + Len(hs) :
           (gs \o hs)[i] = IF i <= Len(gs) THEN gs[i] ELSE hs[i - Len(gs)]
  BY <1>1, ConcatProperties
<1>3. ASSUME NEW i \in 1..Len(gs \o hs), (gs \o hs)[i] \in AfterDamp
      PROVE  IF i = 1 THEN s = "DAMP"
             ELSE (gs \o hs)[i-1] \in {"DAMP", "?hand_back"}
  <2>1. i <= Len(gs)
    <3> SUFFICES ASSUME ~(i <= Len(gs)) PROVE FALSE
      OBVIOUS
    <3>1. (gs \o hs)[i] = hs[i - Len(gs)] /\ i - Len(gs) \in 1..Len(hs)
      BY <1>2
    <3>2. hs[i - Len(gs)] \in WayBack \ AfterDamp
      BY <3>1, ElementOfSeq
    <3> QED
      BY <3>1, <3>2, <1>3
  <2>2. i \in 1..Len(gs) /\ gs[i] \in AfterDamp
    BY <2>1, <1>2, <1>3
  <2>3. i # 1 => (gs \o hs)[i-1] = gs[i-1]
    BY <2>1, <1>2
  <2> QED
    BY <2>2, <2>3 DEF Descends
<1>4. gs \o hs # <<>> => (gs \o hs)[Len(gs \o hs)] # "?hoist"
  <2>1. CASE hs = <<>>
    BY <2>1, <1>1, ConcatEmptySeq DEF Descends
  <2>2. CASE hs # <<>>
    <3>1. Len(hs) # 0
      BY <2>2, <1>1, EmptySeq
    <3>2. (gs \o hs)[Len(gs \o hs)] = hs[Len(hs)]
      BY <3>1, <1>2
    <3> QED
      BY <3>2, <2>2
  <2> QED
    BY <2>1, <2>2
<1> QED
  BY <1>2, <1>3, <1>4 DEF Descends

LEMMA DampDescends ==
  ASSUME NEW s
  PROVE  /\ Descends(s, <<>>) /\ Descends(s, DampGoals)
         /\ Descends(s, <<"DAMP", "RELEASED">>)
         /\ Descends(s, <<"?hoist", "DAMP", "RELEASED">>)
         /\ Descends("DAMP", <<"RELEASED">>)
BY DEF Descends, DampGoals, WayBack, AfterDamp

LEMMA RecoverDescends ==
  ASSUME NEW s, NEW end PROVE Descends(s, RecoverGoals(s, end))
<1> DEFINE first == IF s = "HOLD" THEN <<"?hoist", "DAMP", "RELEASED">>
                    ELSE IF s = "FAULT" THEN <<"DAMP", "RELEASED">>
                    ELSE IF s = "DAMP" THEN <<"RELEASED">> ELSE <<>>
           restore == IF s \in {"VENDOR_RESTORED", "VENDOR_STAND"} THEN <<>>
                      ELSE <<"?hoist", "VENDOR_RESTORED">>
           stand == IF s = "VENDOR_STAND" THEN <<"STANDING">>
                    ELSE <<"VENDOR_STAND", "STANDING">>
           second == IF end = "damp" THEN <<>> ELSE restore
           third == IF end = "vendor_stand" THEN stand ELSE <<>>
<1>1. Descends(s, first)
  BY DampDescends
<1>2. second \in Seq(WayBack \ AfterDamp) /\ third \in Seq(WayBack \ AfterDamp)
  <2>1. {"?hoist", "VENDOR_RESTORED", "VENDOR_STAND", "STANDING"}
          \subseteq WayBack \ AfterDamp
    BY DEF WayBack, AfterDamp
  <2>2. \A S : {"?hoist", "VENDOR_RESTORED", "VENDOR_STAND", "STANDING"}
                 \subseteq S => restore \in Seq(S) /\ stand \in Seq(S)
    OBVIOUS
  <2> QED
    BY <2>1, <2>2, EmptySeq
<1>4. /\ second # <<>> => second[Len(second)] # "?hoist"
      /\ third # <<>> => third[Len(third)] # "?hoist"
  OBVIOUS
<1>3. Descends(s, (first \o second) \o third)
  <2> HIDE DEF first, second, third
  <2>1. Descends(s, first \o second)
    BY <1>1, <1>2, <1>4, JoinDescends
  <2> QED
    BY <2>1, <1>2, <1>4, JoinDescends
<1> QED
  BY <1>3 DEF RecoverGoals

-----------------------------------------------------------------------------
(* The lock: what a request still wants agrees with the state it is in.     *)

USE DEF fixed, lock, acks, writer, faults, vendor, ctl, hist, Then, Attempting,
    Started, Healthy, Idle, Request

LEMMA StatesAre ==
  States = {"IDLE", "PRECHECK", "VENDOR_DAMP_CONFIRMED", "FAULT", "DAMP",
            "RELEASED", "VENDOR_RESTORED", "VENDOR_STAND", "STANDING"}
           \cup Owning
BY RungsAre, OwningAre DEF States, Recoverable

\* The goal at the head of a list tells the state it is attempted from.
LEMMA HeadSays ==
  ASSUME LockInv, goals # <<>>
  PROVE  LET t == Head(goals) IN
         /\ t = "PRECHECK" => state = "IDLE"
         /\ t = "VENDOR_DAMP_CONFIRMED" => state = "PRECHECK"
         /\ t = "SAFE_EXTERNAL_COMMAND_PRESENT" =>
              state = "VENDOR_DAMP_CONFIRMED"
         /\ t = "USER_CONTROL_CONFIRMED" =>
              state = "SAFE_EXTERNAL_COMMAND_PRESENT"
         /\ t = "START_POSE_RAMP" => state = "USER_CONTROL_CONFIRMED"
         /\ t = "POSE_SETTLED" => state = "START_POSE_RAMP"
         /\ t = "LOWERED" => state = "POSE_SETTLED"
         /\ t = "POSE_MATCH_VERIFIED" => state = "LOWERED"
         /\ t = "POLICY_COMMAND_FRESH" => state = "POSE_MATCH_VERIFIED"
         /\ t = "PRIMED" => state = "POLICY_COMMAND_FRESH"
         /\ t = "BLEND_IN" => state = "PRIMED"
         /\ t = "RUNNING" => state = "BLEND_IN"
         /\ t = "HOLD" => state \in {"BLEND_IN", "RUNNING"}
         /\ t \in {"RELEASED", "?hand_back"} => state = "DAMP"
<1>1. CASE Climbs(state, goals)
  BY <1>1, RungsAre, NextRungIs DEF Climbs
<1>2. CASE Descends(state, goals)
  <2>1. goals \in Seq(WayBack) /\ 1 \in 1..Len(goals) /\ Head(goals) = goals[1]
    BY <1>2, EmptySeq DEF Descends
  <2>2. goals[1] \in WayBack
    BY <2>1, ElementOfSeq
  <2>3. goals[1] \in AfterDamp => state = "DAMP"
    BY <1>2, <2>1 DEF Descends
  <2> QED
    BY <2>1, <2>2, <2>3 DEF WayBack, AfterDamp
<1> QED
  BY <1>1, <1>2 DEF LockInv

LEMMA ClimbTail ==
  ASSUME NEW s, NEW gs, Climbs(s, gs)
  PROVE  Tail(gs) = <<>> \/ (Tail(gs) = <<"RUNNING">> /\ Head(gs) = "BLEND_IN")
<1>1. ASSUME NEW r, gs = <<r>> PROVE Tail(gs) = <<>>
  BY <1>1
<1>2. CASE gs = <<"BLEND_IN", "RUNNING">>
  BY <1>2
<1> QED
  BY <1>1, <1>2 DEF Climbs

LEMMA SucceedLock ==
  ASSUME NEW t \in States, LockInv, goals # <<>>, Head(goals) = t, Succeed(t)
  PROVE  LockInv' /\ pc' \in {"idle", "goal"} /\ (pc' = "goal" => goals' # <<>>)
<1> USE DEF Succeed
<1>1. CASE auto'
  <2>0. auto /\ t # "PRIMED"
    BY <1>1
  <2>1. t = NextRung(state) /\ state \in Rungs \ {"PRIMED"}
    BY <2>0 DEF LockInv
  <2>2. t \in Rungs \ {"PRIMED"}
    BY <2>0, <2>1, RungsAre, NextRungIs
  <2>3. goals' = <<NextRung(t)>> /\ goals' # <<>> /\ pc' = "goal"
    BY <1>1
  <2> QED
    BY <1>1, <2>2, <2>3 DEF LockInv, Climbs, GateAt
<1>2. CASE ~auto'
  <2>1. goals' = Tail(goals) /\ state' = t
    BY <1>2
  <2>2. CASE Climbs(state, goals)
    <3>1. goals' = <<>> \/ (goals' = <<"RUNNING">> /\ t = "BLEND_IN")
      BY <2>1, <2>2, ClimbTail
    <3>2. CASE goals' = <<>>
      BY <1>2, <2>1, <3>2, DampDescends DEF LockInv, GateAt
    <3>3. CASE goals' = <<"RUNNING">> /\ t = "BLEND_IN"
      <4>1. goals' # <<>> /\ pc' = "goal"
        BY <3>3
      <4>2. Climbs(state', goals')
        BY <2>1, <3>3 DEF Climbs
      <4> QED
        BY <1>2, <4>1, <4>2 DEF LockInv, GateAt
    <3> QED
      BY <3>1, <3>2, <3>3
  <2>3. CASE Descends(state, goals)
    <3>1. t \in {"DAMP", "?hand_back"} => t = "DAMP"
      BY StatesAre, OwningAre
    <3>2. Descends(t, goals')
      BY <2>1, <2>3, <3>1, TailDescends
    <3> QED
      BY <1>2, <2>1, <3>2 DEF LockInv, GateAt
  <2> QED
    BY <2>2, <2>3 DEF LockInv
<1> QED
  BY <1>1, <1>2

\* Every other end of a request leaves nothing to be attempted.
LEMMA EndedLock ==
  ASSUME goals' = <<>>, ~auto', pc' = "idle" PROVE LockInv'
BY DampDescends DEF LockInv, GateAt

\* A step of another thread, and a wait, leave the list alone.
LEMMA WaitLock ==
  ASSUME LockInv, UNCHANGED <<state, goals, auto>>, goals # <<>>,
         pc' \in DOMAIN GateAt, Head(goals) = GateAt[pc']
  PROVE  LockInv'
BY DEF LockInv, GateAt

LEMMA LockInit == Init => LockInv
BY DampDescends DEF Init, LockInv, GateAt

LEMMA LockKeys == TypeOK /\ LockInv /\ Keys => LockInv'
<1> SUFFICES ASSUME TypeOK, LockInv, Keys PROVE LockInv'
  OBVIOUS
<1>0. ASSUME pc' = "goal", ~auto', Climbs(state', goals') \/ Descends(state', goals')
      PROVE  LockInv'
  BY <1>0 DEF LockInv, GateAt
<1>1. ~auto
  <2>1. pc = "idle"
    BY DEF Keys, Advance, RequestAuto, Climb, Go, RequestHold, RequestDamp, Abort,
           Shutdown, RequestRecover, Retake, AckHoisted, AckLowered
  <2> QED
    BY <2>1 DEF LockInv
<1>2. CASE Advance \/ RequestAuto
  <2>1. PICK all \in BOOLEAN : Climb(all)
    BY <1>2 DEF Advance, RequestAuto
  <2>2. /\ state' \in Rungs \ {"PRIMED"}
        /\ goals' = <<NextRung(state')>> /\ pc' = "goal"
    BY <2>1 DEF Climb
  <2> QED
    BY <2>2 DEF LockInv, Climbs, GateAt
<1>3. CASE Go \/ RequestHold
  BY <1>0, <1>1, <1>3 DEF Go, RequestHold, Climbs
<1>4. CASE RequestDamp
  BY <1>0, <1>1, <1>4, DampDescends DEF RequestDamp
<1>5. CASE \E end \in {"vendor_stand", "vendor_damp", "damp"} :
             RequestRecover(end)
  BY <1>0, <1>1, <1>5, RecoverDescends DEF RequestRecover
<1>6. CASE Abort
  <2>1. /\ <<"?recover">> \in Seq(WayBack \ AfterDamp)
        /\ <<"?recover">>[Len(<<"?recover">>)] # "?hoist"
    BY DEF WayBack, AfterDamp
  <2>2. Descends(state, DampGoals \o <<"?recover">>)
    BY <2>1, DampDescends, JoinDescends
  <2> QED
    BY <1>0, <1>1, <1>6, <2>2 DEF Abort
<1>7. CASE Shutdown
  <2> DEFINE damp == IF state \in Owning \cup {"FAULT"} THEN <<"DAMP", "RELEASED">>
                     ELSE IF state = "DAMP" THEN <<"RELEASED">> ELSE <<>>
             restore == IF named /\ (damp # <<>> \/ state = "RELEASED")
                        THEN <<"VENDOR_RESTORED">> ELSE <<>>
  <2>1. Descends(state, damp)
    BY DampDescends
  <2>2. /\ restore \in Seq(WayBack \ AfterDamp)
        /\ restore # <<>> => restore[Len(restore)] # "?hoist"
    <3>1. /\ <<"VENDOR_RESTORED">> \in Seq(WayBack \ AfterDamp)
          /\ <<"VENDOR_RESTORED">>[Len(<<"VENDOR_RESTORED">>)] # "?hoist"
      BY DEF WayBack, AfterDamp
    <3> QED
      BY <3>1, EmptySeq
  <2>3. /\ goals' = damp \o restore /\ state' = state /\ auto' = auto
        /\ pc' = IF goals' = <<>> THEN "idle" ELSE "goal"
    BY <1>7 DEF Shutdown
  <2> HIDE DEF damp, restore
  <2>4. Descends(state', goals')
    BY <2>1, <2>2, <2>3, JoinDescends
  <2> QED
    BY <1>1, <2>3, <2>4 DEF LockInv, GateAt
<1>8. CASE Retake
  BY <1>1, <1>8, EndedLock, DampDescends DEF Retake, Fail, LockInv, GateAt
<1>9. CASE AckHoisted \/ AckLowered
  BY <1>9 DEF AckHoisted, AckLowered, LockInv
<1> QED
  BY <1>2, <1>3, <1>4, <1>5, <1>6, <1>7, <1>8, <1>9 DEF Keys

LEMMA LockChecks ==
  TypeOK /\ LockInv /\ (CheckHoist \/ CheckHandBack \/ CheckRecover)
    => LockInv' /\ (pc' = "goal" => goals' # <<>>)
<1> SUFFICES ASSUME TypeOK, LockInv, CheckHoist \/ CheckHandBack \/ CheckRecover
             PROVE  LockInv' /\ (pc' = "goal" => goals' # <<>>)
  OBVIOUS
<1> USE DEF CheckHoist, CheckHandBack, CheckRecover
<1>1. goals # <<>> /\ state' = state /\ auto' \in {auto, FALSE}
  BY DEF TypeOK, Fail
<1>2. ~Climbs(state, goals) /\ ~auto
  BY RungsAre, NextRungIs DEF Climbs, LockInv
<1>3. Descends(state, goals)
  BY <1>2 DEF LockInv
<1>4. CASE goals' = Tail(goals) /\ (CheckHoist \/ CheckHandBack)
  <2>1. Head(goals) \in {"?hoist", "?hand_back"}
    BY <1>4
  <2>2. /\ Descends(state, Tail(goals))
        /\ Head(goals) = "?hoist" => Tail(goals) # <<>>
    BY <1>1, <1>3, <2>1, HeadSays, TailDescends
  <2> QED
    BY <1>1, <1>2, <1>4, <2>2, EndedLock DEF LockInv, GateAt, Fail
<1>5. CASE goals' = <<>> /\ pc' = "idle"
  BY <1>1, <1>2, <1>5, EndedLock DEF Fail
<1>6. CASE goals' = <<"?recover">> /\ CheckHandBack
  <2>1. Descends(state, <<"?recover">>)
    BY DEF Descends, WayBack, AfterDamp
  <2> QED
    BY <1>1, <1>2, <1>6, <2>1 DEF LockInv, GateAt
<1>7. CASE CheckRecover
  BY <1>1, <1>2, <1>7, RecoverDescends DEF LockInv, GateAt
<1> QED
  BY <1>4, <1>5, <1>6, <1>7 DEF Fail

-----------------------------------------------------------------------------
(* The gates, up the ladder, through the run and back.                      *)

LEMMA AreStates ==
  /\ {"IDLE", "PRECHECK", "VENDOR_DAMP_CONFIRMED", "DAMP", "RELEASED",
      "VENDOR_RESTORED", "VENDOR_STAND", "STANDING"} \subseteq States
  /\ {"SAFE_EXTERNAL_COMMAND_PRESENT", "USER_CONTROL_CONFIRMED",
      "START_POSE_RAMP", "POSE_SETTLED", "LOWERED", "POSE_MATCH_VERIFIED",
      "POLICY_COMMAND_FRESH", "PRIMED", "BLEND_IN", "RUNNING", "HOLD"}
       \subseteq States
BY StatesAre, OwningAre

LadderGates ==
  \/ EnterPrecheck \/ PrecheckCheck \/ EnterVendorDampConfirmed
  \/ EnterSafeExternalCommandPresent \/ SafePublish
  \/ EnterUserControlConfirmed \/ UserSettle
  \/ EnterStartPoseRamp \/ RampWait \/ EnterPoseSettled \/ EnterLowered
  \/ EnterPoseMatchVerified \/ EnterPolicyCommandFresh \/ FreshTick
  \/ EnterPrimed

RunGates ==
  \/ EnterBlendIn \/ BlendTick \/ BlendWait \/ EnterRunning \/ EnterHold
  \/ HoldStop

BackGates ==
  \/ EnterDamp \/ EnterReleased \/ ReleasedCheck \/ EnterVendorRestored
  \/ EnterVendorStand \/ EnterStanding

\* How a gate handler leaves the lock: it waits, or the attempt has ended.
GateEnds ==
  \/ /\ state' \in {state, "FAULT"} /\ goals' = <<>> /\ auto' = FALSE
     /\ pc' = "idle" /\ UNCHANGED fixed
  \/ /\ UNCHANGED <<state, goals, auto, fixed>>
     /\ pc' \in DOMAIN GateAt /\ Head(goals) = GateAt[pc']
  \/ Head(goals) \in States /\ Succeed(Head(goals))

LockTypes ==
  /\ state' \in States /\ pc' \in Points /\ (pc' = "goal" => goals' # <<>>)
  /\ auto' \in BOOLEAN /\ UNCHANGED fixed

LEMMA EndsLock ==
  ASSUME TypeOK, LockInv, goals # <<>>, GateEnds
  PROVE  LockInv' /\ LockTypes
<1> USE DEF LockTypes
<1>1. CASE /\ state' \in {state, "FAULT"} /\ goals' = <<>> /\ auto' = FALSE
           /\ pc' = "idle" /\ UNCHANGED fixed
  BY <1>1, EndedLock, StatesAre DEF Points, TypeOK
<1>2. CASE /\ UNCHANGED <<state, goals, auto, fixed>>
           /\ pc' \in DOMAIN GateAt /\ Head(goals) = GateAt[pc']
  BY <1>2, WaitLock DEF GateAt, Points, TypeOK
<1>3. CASE Head(goals) \in States /\ Succeed(Head(goals))
  <2>1. LockInv' /\ pc' \in {"idle", "goal"} /\ (pc' = "goal" => goals' # <<>>)
    BY <1>3, SucceedLock
  <2>2. state' \in States /\ auto' \in BOOLEAN /\ UNCHANGED fixed
    BY <1>3 DEF Succeed, TypeOK
  <2> QED
    BY <2>1, <2>2 DEF Points
<1> QED
  BY <1>1, <1>2, <1>3 DEF GateEnds

LEMMA FailEnds == Fail \/ Fault \/ NoTick => GateEnds
BY DEF GateEnds, Fail, Fault, NoTick

LEMMA SucceedEnds ==
  ASSUME NEW t \in States, Head(goals) = t, Succeed(t) PROVE GateEnds
BY DEF GateEnds

LEMMA WaitEnds ==
  ASSUME NEW p \in Points \ {"idle", "goal", "retake.link"}, Then(p),
         Head(goals) = GateAt[p]
  PROVE  GateEnds
BY DEF GateEnds, GateAt

LEMMA GateAtIs ==
  /\ GateAt["PRECHECK.check"] = "PRECHECK"
  /\ GateAt["SAFE.publish"] = "SAFE_EXTERNAL_COMMAND_PRESENT"
  /\ GateAt["USER.settle"] = "USER_CONTROL_CONFIRMED"
  /\ GateAt["RAMP.wait"] = "START_POSE_RAMP"
  /\ GateAt["FRESH.tick"] = "POLICY_COMMAND_FRESH"
  /\ GateAt["BLEND.tick"] = "BLEND_IN" /\ GateAt["BLEND.wait"] = "BLEND_IN"
  /\ GateAt["HOLD.stop"] = "HOLD" /\ GateAt["RELEASED.check"] = "RELEASED"
  /\ {"PRECHECK.check", "SAFE.publish", "USER.settle", "RAMP.wait",
      "FRESH.tick", "BLEND.tick", "BLEND.wait", "HOLD.stop", "RELEASED.check"}
       = Points \ {"idle", "goal", "retake.link"}
BY DEF GateAt, Points

\* A handler in the middle of its gate is at the goal it works for.
LEMMA AtGate ==
  ASSUME LockInv, pc \in Points \ {"idle", "goal", "retake.link"}
  PROVE  goals # <<>> /\ Head(goals) = GateAt[pc]
BY DEF LockInv, GateAt

LEMMA LadderEnds ==
  ASSUME TypeOK, LockInv, LadderGates PROVE goals # <<>> /\ GateEnds
<1>1. goals # <<>>
  BY AtGate, GateAtIs DEF TypeOK, LadderGates, EnterPrecheck, PrecheckCheck,
     EnterVendorDampConfirmed, EnterSafeExternalCommandPresent, SafePublish,
     EnterUserControlConfirmed, UserSettle, EnterStartPoseRamp, RampWait,
     EnterPoseSettled, EnterLowered, EnterPoseMatchVerified,
     EnterPolicyCommandFresh, FreshTick, EnterPrimed
<1>2. CASE EnterPrecheck
  BY <1>1, <1>2, FailEnds, WaitEnds, GateAtIs DEF EnterPrecheck
<1>3. CASE PrecheckCheck
  BY <1>1, <1>3, FailEnds, AtGate, GateAtIs, SucceedEnds, AreStates DEF PrecheckCheck
<1>4. CASE EnterVendorDampConfirmed
  BY <1>1, <1>4, FailEnds, SucceedEnds, AreStates DEF EnterVendorDampConfirmed
<1>5. CASE EnterSafeExternalCommandPresent
  BY <1>1, <1>5, FailEnds, WaitEnds, GateAtIs DEF EnterSafeExternalCommandPresent
<1>6. CASE SafePublish
  BY <1>1, <1>6, FailEnds, AtGate, GateAtIs, SucceedEnds, AreStates DEF SafePublish
<1>7. CASE EnterUserControlConfirmed
  BY <1>1, <1>7, FailEnds, WaitEnds, GateAtIs DEF EnterUserControlConfirmed
<1>8. CASE UserSettle
  BY <1>1, <1>8, FailEnds, AtGate, GateAtIs, SucceedEnds, AreStates DEF UserSettle
<1>9. CASE EnterStartPoseRamp
  BY <1>1, <1>9, FailEnds, WaitEnds, GateAtIs DEF EnterStartPoseRamp
<1>10. CASE RampWait
  BY <1>1, <1>10, FailEnds, AtGate, GateAtIs, SucceedEnds, AreStates DEF RampWait
<1>11. CASE EnterPoseSettled
  BY <1>1, <1>11, FailEnds, SucceedEnds, AreStates DEF EnterPoseSettled
<1>12. CASE EnterLowered
  BY <1>1, <1>12, FailEnds, SucceedEnds, AreStates DEF EnterLowered
<1>13. CASE EnterPoseMatchVerified
  BY <1>1, <1>13, FailEnds, SucceedEnds, AreStates DEF EnterPoseMatchVerified
<1>14. CASE EnterPolicyCommandFresh
  BY <1>1, <1>14, FailEnds, WaitEnds, GateAtIs DEF EnterPolicyCommandFresh, Start
<1>15. CASE FreshTick
  BY <1>1, <1>15, FailEnds, AtGate, GateAtIs, SucceedEnds, AreStates DEF FreshTick
<1>16. CASE EnterPrimed
  BY <1>1, <1>16, FailEnds, SucceedEnds, AreStates DEF EnterPrimed
<1> QED
  BY <1>1, <1>2, <1>3, <1>4, <1>5, <1>6, <1>7, <1>8, <1>9, <1>10, <1>11,
     <1>12, <1>13, <1>14, <1>15, <1>16 DEF LadderGates

LEMMA RunEnds ==
  ASSUME TypeOK, LockInv, RunGates PROVE goals # <<>> /\ GateEnds
<1>1. goals # <<>>
  BY AtGate, GateAtIs DEF TypeOK, RunGates, EnterBlendIn, BlendTick, BlendWait,
     EnterRunning, EnterHold, HoldStop
<1>2. CASE EnterBlendIn
  BY <1>1, <1>2, FailEnds, WaitEnds, GateAtIs DEF EnterBlendIn, Start
<1>3. CASE BlendTick
  BY <1>1, <1>3, FailEnds, WaitEnds, GateAtIs, AtGate DEF BlendTick
<1>4. CASE BlendWait
  BY <1>1, <1>4, FailEnds, AtGate, GateAtIs, SucceedEnds, AreStates DEF BlendWait
<1>5. CASE EnterRunning
  BY <1>1, <1>5, FailEnds, SucceedEnds, AreStates DEF EnterRunning
<1>6. CASE EnterHold
  BY <1>1, <1>6, FailEnds, WaitEnds, GateAtIs DEF EnterHold
<1>7. CASE HoldStop
  BY <1>1, <1>7, FailEnds, AtGate, GateAtIs, SucceedEnds, AreStates DEF HoldStop
<1> QED
  BY <1>1, <1>2, <1>3, <1>4, <1>5, <1>6, <1>7 DEF RunGates

LEMMA BackEnds ==
  ASSUME TypeOK, LockInv, BackGates PROVE goals # <<>> /\ GateEnds
<1>1. goals # <<>>
  BY AtGate, GateAtIs DEF TypeOK, BackGates, EnterDamp, EnterReleased, ReleasedCheck,
     EnterVendorRestored, EnterVendorStand, EnterStanding
<1>2. CASE EnterDamp
  BY <1>1, <1>2, FailEnds, SucceedEnds, AreStates DEF EnterDamp
<1>3. CASE EnterReleased
  BY <1>1, <1>3, FailEnds, WaitEnds, GateAtIs DEF EnterReleased
<1>4. CASE ReleasedCheck
  BY <1>1, <1>4, FailEnds, AtGate, GateAtIs, SucceedEnds, AreStates DEF ReleasedCheck
<1>5. CASE EnterVendorRestored
  BY <1>1, <1>5, FailEnds, SucceedEnds, AreStates DEF EnterVendorRestored
<1>6. CASE EnterVendorStand
  BY <1>1, <1>6, FailEnds, SucceedEnds, AreStates DEF EnterVendorStand
<1>7. CASE EnterStanding
  BY <1>1, <1>7, FailEnds, SucceedEnds, AreStates DEF EnterStanding
<1> QED
  BY <1>1, <1>2, <1>3, <1>4, <1>5, <1>6, <1>7 DEF BackGates

LEMMA HandlersAre ==
  Handlers <=> \/ CheckHoist \/ CheckHandBack \/ CheckRecover \/ RetakeLink
               \/ LadderGates \/ RunGates \/ BackGates
BY DEF Handlers, LadderGates, RunGates, BackGates

LEMMA LockNext == TypeOK /\ LockInv /\ [Next]_vars => LockInv'
<1> SUFFICES ASSUME TypeOK, LockInv, [Next]_vars PROVE LockInv'
  OBVIOUS
<1>1. CASE LadderGates
  BY <1>1, LadderEnds, EndsLock
<1>2. CASE RunGates
  BY <1>2, RunEnds, EndsLock
<1>3. CASE BackGates
  BY <1>3, BackEnds, EndsLock
<1>4. CASE RetakeLink
  <2>1. CASE Fail
    BY <2>1, EndedLock DEF Fail
  <2>2. CASE /\ state' = "USER_CONTROL_CONFIRMED" /\ pc' = "goal"
             /\ goals' = <<"START_POSE_RAMP">> /\ UNCHANGED auto
    <3>1. Climbs(state', goals')
      BY <2>2, RungsAre, NextRungIs DEF Climbs
    <3> QED
      BY <2>2, <3>1, RungsAre, NextRungIs DEF LockInv, GateAt
  <2> QED
    BY <1>4, <2>1, <2>2 DEF RetakeLink
<1>5. CASE PollFault
  BY <1>5, EndedLock DEF PollFault, Fault
<1>6. CASE PollHold
  <2>1. Climbs(state', goals') /\ pc' = "goal" /\ auto' = auto /\ ~auto
    BY <1>6 DEF PollHold, Climbs, LockInv
  <2> QED
    BY <2>1 DEF LockInv, GateAt
<1>7. CASE EmergencyDamp \/ Native \/ UNCHANGED vars
  <2>1. UNCHANGED <<state, goals, auto, pc>>
    BY <1>7 DEF EmergencyDamp, Native, HardwareFault, WriterWatchdog,
           RampEnds, ThreadEnds, RuntimeFault, vars
  <2> QED
    BY <2>1 DEF LockInv
<1>8. CASE Keys
  BY <1>8, LockKeys
<1>9. CASE CheckHoist \/ CheckHandBack \/ CheckRecover
  BY <1>9, LockChecks
<1> QED
  BY <1>1, <1>2, <1>3, <1>4, <1>5, <1>6, <1>7, <1>8, <1>9, HandlersAre
     DEF Next, Poll

-----------------------------------------------------------------------------
(* Types.                                                                   *)

LEMMA TypeInit == Init => TypeOK
BY AutoAcksAssumption, EndStatesAssumption, AreStates
   DEF Init, TypeOK, Points, Modes

\* The data: no step gives a variable a value outside its type.
LEMMA DataTypes ==
  TypeOK /\ [Next]_vars =>
    /\ hoistedAck' \in BOOLEAN /\ loweredAck' \in BOOLEAN
    /\ strap' \in {"taut", "loaded", "slack"}
    /\ wmode' \in Modes /\ gate' \in BOOLEAN /\ released' \in BOOLEAN
    /\ latched' \in BOOLEAN /\ hwFaults' \in BOOLEAN
    /\ rampFaults' \in BOOLEAN /\ tripped' \in BOOLEAN
    /\ service' \in BOOLEAN /\ vmode' \in {"damp", "ready"} /\ named' \in BOOLEAN
    /\ unheard' \in BOOLEAN
    /\ thread' \in {"none", "running", "stopping", "ended"}
    /\ rfault' \in BOOLEAN /\ faulted' \in BOOLEAN /\ threw' \in BOOLEAN
<1> USE DEF TypeOK, Next, vars, Keys, Handlers, Poll, Native, Climb, TakeHoist,
  Start, Fault, NoTick, Modes, Driving, Advance, RequestAuto, Go, RequestHold,
  RequestDamp, Abort, Shutdown, RequestRecover, Retake, AckHoisted, AckLowered,
  CheckHoist, CheckHandBack, CheckRecover, RetakeLink,
  EnterPrecheck, PrecheckCheck, EnterVendorDampConfirmed,
  EnterSafeExternalCommandPresent, SafePublish, EnterUserControlConfirmed,
  UserSettle, EnterStartPoseRamp, RampWait, EnterPoseSettled, EnterLowered,
  EnterPoseMatchVerified, EnterPolicyCommandFresh, FreshTick, EnterPrimed,
  EnterBlendIn, BlendTick, BlendWait, EnterRunning, EnterHold, HoldStop,
  EnterDamp, EnterReleased, ReleasedCheck, EnterVendorRestored,
  EnterVendorStand, EnterStanding, PollFault, PollHold, EmergencyDamp,
  HardwareFault, WriterWatchdog, RampEnds, ThreadEnds, RuntimeFault
<1> SUFFICES ASSUME TypeOK, [Next]_vars
             PROVE  /\ hoistedAck' \in BOOLEAN /\ loweredAck' \in BOOLEAN
                    /\ strap' \in {"taut", "loaded", "slack"}
                    /\ wmode' \in Modes /\ gate' \in BOOLEAN /\ released' \in BOOLEAN
                    /\ latched' \in BOOLEAN /\ hwFaults' \in BOOLEAN
                    /\ rampFaults' \in BOOLEAN /\ tripped' \in BOOLEAN
                    /\ service' \in BOOLEAN /\ vmode' \in {"damp", "ready"}
                    /\ named' \in BOOLEAN /\ unheard' \in BOOLEAN
                    /\ thread' \in {"none", "running", "stopping", "ended"}
                    /\ rfault' \in BOOLEAN /\ faulted' \in BOOLEAN
                    /\ threw' \in BOOLEAN
  OBVIOUS
<1>1. hoistedAck' \in BOOLEAN /\ loweredAck' \in BOOLEAN
  OBVIOUS
<1>2. strap' \in {"taut", "loaded", "slack"}
  OBVIOUS
<1>3. wmode' \in Modes /\ gate' \in BOOLEAN /\ released' \in BOOLEAN
  <2>1. wmode' \in Modes
    OBVIOUS
  <2>2. gate' \in BOOLEAN
    OBVIOUS
  <2>3. released' \in BOOLEAN
    OBVIOUS
  <2> QED
    BY <2>1, <2>2, <2>3
<1>4. latched' \in BOOLEAN /\ hwFaults' \in BOOLEAN
  OBVIOUS
<1>5. rampFaults' \in BOOLEAN /\ tripped' \in BOOLEAN
  OBVIOUS
<1>6. service' \in BOOLEAN /\ vmode' \in {"damp", "ready"} /\ named' \in BOOLEAN
  OBVIOUS
<1>9. unheard' \in BOOLEAN
  OBVIOUS
<1>7. thread' \in {"none", "running", "stopping", "ended"}
  OBVIOUS
<1>8. rfault' \in BOOLEAN /\ faulted' \in BOOLEAN /\ threw' \in BOOLEAN
  OBVIOUS
<1> QED
  BY <1>1, <1>2, <1>3, <1>4, <1>5, <1>6, <1>7, <1>8, <1>9

LEMMA ConfigTypes ==
  TypeOK /\ LockInv /\ [Next]_vars =>
    /\ autoAck' \in AutoAcks /\ endState' \in EndStates /\ closed' \in BOOLEAN
    /\ state' \in States /\ pc' \in Points /\ auto' \in BOOLEAN
    /\ pc' = "goal" => goals' # <<>>
<1> DEFINE Kept == autoAck' \in AutoAcks /\ endState' \in EndStates /\ closed' \in BOOLEAN
           Goes == state' \in States /\ pc' \in Points /\ auto' \in BOOLEAN
           Wants == pc' = "goal" => goals' # <<>>
<1> SUFFICES ASSUME TypeOK, LockInv, [Next]_vars PROVE Kept /\ Goes /\ Wants
  OBVIOUS
<1>1. CASE LadderGates \/ RunGates \/ BackGates
  <2>1. LockTypes
    BY <1>1, LadderEnds, RunEnds, BackEnds, EndsLock
  <2> QED
    BY <2>1 DEF LockTypes, TypeOK
<1>2. CASE Advance \/ RequestAuto
  <2>1. PICK all \in BOOLEAN : Climb(all)
    BY <1>2 DEF Advance, RequestAuto
  <2>2. state' \in States /\ goals' # <<>>
    BY <2>1 DEF Climb, States
  <2> QED
    BY <2>1, <2>2 DEF Climb, TypeOK, Points
<1>3. CASE Go \/ RequestHold \/ RequestDamp
  BY <1>3 DEF Go, RequestHold, RequestDamp, DampGoals, TypeOK, Points
<1>4. CASE \E end \in {"vendor_stand", "vendor_damp", "damp"} :
             RequestRecover(end)
  BY <1>4 DEF RequestRecover, TypeOK, Points
<1>5. CASE Abort
  <2>1. DampGoals \o <<"?recover">> # <<>>
    BY DEF DampGoals
  <2>2. /\ goals' = DampGoals \o <<"?recover">> /\ pc' = "goal"
        /\ UNCHANGED <<state, auto, fixed>>
    BY <1>5 DEF Abort
  <2> QED
    BY <2>1, <2>2 DEF TypeOK, Points
<1>6. CASE Shutdown
  <2>1. /\ pc' = IF goals' = <<>> THEN "idle" ELSE "goal"
        /\ closed' = TRUE /\ UNCHANGED <<autoAck, endState, state, auto>>
    BY <1>6 DEF Shutdown
  <2> QED
    BY <2>1 DEF TypeOK, Points
<1>7. CASE Retake
  <2>1. Fail \/ Then("retake.link")
    BY <1>7 DEF Retake
  <2> QED
    BY <2>1 DEF Fail, TypeOK, Points
<1>8. CASE AckHoisted \/ AckLowered
  BY <1>8 DEF AckHoisted, AckLowered, TypeOK
<1>9. CASE CheckHoist \/ CheckHandBack \/ CheckRecover
  <2>1. Wants
    BY <1>9, LockChecks
  <2>2. /\ UNCHANGED <<state, fixed>> /\ auto' \in {auto, FALSE}
        /\ pc' \in {"idle", "goal", pc}
    BY <1>9 DEF CheckHoist, CheckHandBack, CheckRecover, Fail
  <2> QED
    BY <2>1, <2>2 DEF TypeOK, Points
<1>10. CASE RetakeLink
  <2>1. CASE Fail
    BY <2>1 DEF Fail, TypeOK, Points
  <2>2. CASE /\ state' = "USER_CONTROL_CONFIRMED" /\ UNCHANGED <<auto, fixed>>
             /\ goals' = <<"START_POSE_RAMP">> /\ pc' = "goal"
    <3>1. state' \in States /\ goals' # <<>>
      BY <2>2, AreStates
    <3> QED
      BY <2>2, <3>1 DEF TypeOK, Points
  <2> QED
    BY <1>10, <2>1, <2>2 DEF RetakeLink
<1>11. CASE PollFault
  <2>1. state' \in States
    BY <1>11, StatesAre DEF PollFault, Fault
  <2> QED
    BY <1>11, <2>1 DEF PollFault, Fault, TypeOK, Points
<1>12. CASE PollHold
  BY <1>12 DEF PollHold, TypeOK, Points
<1>13. CASE EmergencyDamp \/ Native \/ UNCHANGED vars
  <2>1. UNCHANGED lock
    BY <1>13 DEF EmergencyDamp, Native, HardwareFault, WriterWatchdog,
           RampEnds, ThreadEnds, RuntimeFault, vars
  <2> QED
    BY <2>1 DEF TypeOK
<1> QED
  BY <1>1, <1>2, <1>3, <1>4, <1>5, <1>6, <1>7, <1>8, <1>9, <1>10, <1>11,
     <1>12, <1>13, HandlersAre DEF Next, Keys, Poll

LEMMA TypeNext == TypeOK /\ LockInv /\ [Next]_vars => TypeOK'
BY DataTypes, ConfigTypes DEF TypeOK

\* Every variable of the lifecycle keeps its type, and what a request still
\* wants always fits the state it is in (Lifecycle._attempt, _advance, recover).
THEOREM TypeCorrect == Spec => [](TypeOK /\ LockInv)
<1>1. TypeOK /\ LockInv /\ [Next]_vars => TypeOK' /\ LockInv'
  BY TypeNext, LockNext
<1> QED
  BY TypeInit, LockInit, <1>1, PTL DEF Spec

-----------------------------------------------------------------------------
(* Where the lifecycle is when a handler acts.                              *)

LEMMA SucceedTo ==
  ASSUME NEW t, Succeed(t) PROVE state' = t /\ pc' \in {"idle", "goal"}
BY DEF Succeed

LEMMA FailTo == Fail => state' = state /\ pc' = "idle"
BY DEF Fail

\* A gate is attempted, and its handler waits, in the state below it.
LEMMA AttemptedFrom ==
  ASSUME TypeOK, LockInv
  PROVE  /\ Attempting("PRECHECK") \/ pc = "PRECHECK.check" => state = "IDLE"
         /\ Attempting("VENDOR_DAMP_CONFIRMED") => state = "PRECHECK"
         /\ Attempting("SAFE_EXTERNAL_COMMAND_PRESENT") \/ pc = "SAFE.publish"
              => state = "VENDOR_DAMP_CONFIRMED"
         /\ Attempting("USER_CONTROL_CONFIRMED") \/ pc = "USER.settle"
              => state = "SAFE_EXTERNAL_COMMAND_PRESENT"
         /\ Attempting("START_POSE_RAMP") \/ pc = "RAMP.wait"
              => state = "USER_CONTROL_CONFIRMED"
         /\ Attempting("POSE_SETTLED") => state = "START_POSE_RAMP"
         /\ Attempting("LOWERED") => state = "POSE_SETTLED"
         /\ Attempting("POSE_MATCH_VERIFIED") => state = "LOWERED"
         /\ Attempting("POLICY_COMMAND_FRESH") \/ pc = "FRESH.tick"
              => state = "POSE_MATCH_VERIFIED"
         /\ Attempting("PRIMED") => state = "POLICY_COMMAND_FRESH"
         /\ Attempting("BLEND_IN") \/ pc \in {"BLEND.tick", "BLEND.wait"}
              => state = "PRIMED"
         /\ Attempting("RUNNING") => state = "BLEND_IN"
         /\ Attempting("HOLD") \/ pc = "HOLD.stop"
              => state \in {"BLEND_IN", "RUNNING"}
         /\ Attempting("RELEASED") \/ pc = "RELEASED.check" => state = "DAMP"
         /\ pc = "retake.link" => state = "HOLD"
<1>1. pc = "goal" => goals # <<>>
  BY DEF TypeOK
<1>2. pc \in Points \ {"idle", "goal", "retake.link"} =>
        goals # <<>> /\ Head(goals) = GateAt[pc]
  BY AtGate
<1>3. pc = "retake.link" => state = "HOLD"
  BY DEF LockInv
<1> QED
  BY <1>1, <1>2, <1>3, HeadSays, GateAtIs

-----------------------------------------------------------------------------
(* The gate.                                                                *)

LEMMA GateStep ==
  ASSUME TypeOK, LockInv, GateInv, [Next]_vars PROVE GateInv'
<1> USE AttemptedFrom, SucceedTo, FailTo, OwningAre DEF GateInv
<1>1. CASE LadderGates
  <2>1. CASE \/ EnterPrecheck \/ PrecheckCheck \/ EnterVendorDampConfirmed
             \/ EnterSafeExternalCommandPresent \/ SafePublish
    BY <2>1 DEF EnterPrecheck, PrecheckCheck, EnterVendorDampConfirmed,
       EnterSafeExternalCommandPresent, SafePublish, Driving, TypeOK
  <2>2. CASE EnterUserControlConfirmed \/ UserSettle
    <3>1. UNCHANGED <<wmode, gate>> /\ pc' # "SAFE.publish"
      BY <2>2 DEF EnterUserControlConfirmed, UserSettle, Then
    <3>2. state' = state \/ (pc = "USER.settle" /\ state' = "USER_CONTROL_CONFIRMED")
      BY <2>2 DEF EnterUserControlConfirmed, UserSettle, Then
    <3> QED
      BY <3>1, <3>2
  <2>3. CASE EnterStartPoseRamp \/ RampWait \/ EnterPoseSettled \/ EnterLowered
    BY <2>3 DEF EnterStartPoseRamp, RampWait, EnterPoseSettled, EnterLowered,
       Fault, Driving, TypeOK
  <2>4. CASE \/ EnterPoseMatchVerified \/ EnterPolicyCommandFresh \/ FreshTick
             \/ EnterPrimed
    BY <2>4 DEF EnterPoseMatchVerified, EnterPolicyCommandFresh, FreshTick,
       EnterPrimed, Start, NoTick, Fault, Driving, TypeOK
  <2> QED
    BY <1>1, <2>1, <2>2, <2>3, <2>4 DEF LadderGates
<1>2. CASE RunGates
  BY <1>2 DEF RunGates, EnterBlendIn, BlendTick, BlendWait, EnterRunning,
     EnterHold, HoldStop, Start, NoTick, Fault, Driving, TypeOK
<1>3. CASE EnterReleased
  BY <1>3 DEF EnterReleased, Driving
<1>4. CASE EnterDamp
  BY <1>4 DEF EnterDamp, Driving
<1>8. CASE ReleasedCheck \/ EnterVendorRestored \/ EnterVendorStand
             \/ EnterStanding
  <2>1. UNCHANGED <<wmode, gate>> /\ pc' # "SAFE.publish"
    BY <1>8 DEF ReleasedCheck, EnterVendorRestored, EnterVendorStand, EnterStanding
  <2>2. state' \in {state, "RELEASED", "VENDOR_RESTORED", "VENDOR_STAND",
                    "STANDING"}
    BY <1>8 DEF ReleasedCheck, EnterVendorRestored, EnterVendorStand, EnterStanding
  <2> QED
    BY <2>1, <2>2
<1>5. CASE CheckHoist \/ CheckHandBack \/ CheckRecover \/ RetakeLink
  BY <1>5 DEF CheckHoist, CheckHandBack, CheckRecover, RetakeLink, TypeOK
<1>6. CASE Keys \/ Poll
  <2>1. /\ UNCHANGED gate
        /\ UNCHANGED pc \/ pc' # "SAFE.publish"
        /\ wmode' \in {wmode, "DAMP"}
        /\ state' \in Owning => state \in Owning
    BY <1>6, RungsAre DEF Keys, Poll, Advance, RequestAuto, Climb, Go, RequestHold,
       RequestDamp, Abort, Shutdown, RequestRecover, Retake, AckHoisted,
       AckLowered, PollFault, PollHold, Fault, Restart
  <2> QED
    BY <2>1 DEF Driving
<1>7. CASE EmergencyDamp \/ Native \/ UNCHANGED vars
  BY <1>7 DEF EmergencyDamp, Native, HardwareFault, WriterWatchdog,
     RampEnds, ThreadEnds, RuntimeFault, vars, Driving
<1> QED
  BY <1>1, <1>2, <1>3, <1>4, <1>5, <1>6, <1>7, <1>8,
     HandlersAre DEF Next, BackGates

-----------------------------------------------------------------------------
(* The vendor's service.                                                    *)

LEMMA ServiceStep ==
  ASSUME TypeOK, LockInv, GateInv, ServiceInv, [Next]_vars PROVE ServiceInv'
<1> USE AttemptedFrom, SucceedTo, FailTo, OwningAre DEF ServiceInv, GateInv, Left, vendor
<1>1. CASE LadderGates
  <2>1. CASE \/ EnterPrecheck \/ PrecheckCheck \/ EnterVendorDampConfirmed
             \/ EnterSafeExternalCommandPresent \/ SafePublish
    BY <2>1 DEF EnterPrecheck, PrecheckCheck, EnterVendorDampConfirmed,
       EnterSafeExternalCommandPresent, SafePublish, Driving
  <2>2. CASE EnterUserControlConfirmed \/ UserSettle
    <3>0. UNCHANGED wmode
      BY <2>2 DEF EnterUserControlConfirmed, UserSettle
    <3>1. UNCHANGED wmode /\ (Left => Left')
      <4>1. CASE UNCHANGED <<service, unheard>>
        BY <3>0, <4>1
      <4>2. CASE service' = FALSE
        BY <3>0, <4>2
      <4>3. CASE service' = service /\ (unheard' = (unheard /\ service'))
        BY <3>0, <4>3
      <4>4. CASE unheard' = service'
        BY <3>0, <4>4
      <4> QED
        BY <2>2, <4>1, <4>2, <4>3, <4>4 DEF EnterUserControlConfirmed, UserSettle
    <3>2. pc' = "USER.settle" => Left' \/ (Left /\ pc = "USER.settle")
      BY <2>2 DEF EnterUserControlConfirmed, UserSettle, Then, TypeOK
    <3>3. state' = state \/ (pc = "USER.settle" /\ state' = "USER_CONTROL_CONFIRMED")
      BY <2>2 DEF EnterUserControlConfirmed, UserSettle, Then
    <3> HIDE DEF Left
    <3> QED
      BY <3>1, <3>2, <3>3 DEF Driving
  <2>3. CASE EnterStartPoseRamp \/ RampWait
    BY <2>3 DEF EnterStartPoseRamp, RampWait, Fault, Driving
  <2>4. CASE EnterPoseSettled \/ EnterLowered \/ EnterPoseMatchVerified
    BY <2>4 DEF EnterPoseSettled, EnterLowered, EnterPoseMatchVerified
  <2>5. CASE EnterPolicyCommandFresh \/ FreshTick \/ EnterPrimed
    BY <2>5 DEF Start, NoTick, EnterPolicyCommandFresh, FreshTick, EnterPrimed,
       Driving
  <2> QED
    BY <1>1, <2>1, <2>2, <2>3, <2>4, <2>5 DEF LadderGates
<1>2. CASE RunGates
  BY <1>2 DEF RunGates, EnterBlendIn, BlendTick, BlendWait, EnterRunning,
     EnterHold, HoldStop, Start, NoTick, Fault, Driving, TypeOK
<1>3. CASE EnterVendorRestored
  <2>1. /\ state' \in {state, "VENDOR_RESTORED"} /\ pc' # "USER.settle"
        /\ UNCHANGED <<wmode, gate>>
    BY <1>3 DEF EnterVendorRestored
  <2>2. UNCHANGED <<service, unheard>> \/ (~gate /\ wmode = "DISABLED")
    BY <1>3 DEF EnterVendorRestored
  <2> QED
    BY <2>1, <2>2 DEF Driving
<1>4. CASE EnterDamp \/ EnterReleased
  BY <1>4 DEF EnterDamp, EnterReleased, Driving
<1>5. CASE ReleasedCheck \/ EnterVendorStand \/ EnterStanding
  <2>1. UNCHANGED <<wmode, service, unheard>> /\ pc' # "USER.settle"
    BY <1>5 DEF ReleasedCheck, EnterVendorStand, EnterStanding
  <2>2. state' \in {state, "RELEASED", "VENDOR_STAND", "STANDING"}
    BY <1>5 DEF ReleasedCheck, EnterVendorStand, EnterStanding
  <2> QED
    BY <2>1, <2>2
<1>6. CASE CheckHoist \/ CheckHandBack \/ CheckRecover \/ RetakeLink
  BY <1>6 DEF CheckHoist, CheckHandBack, CheckRecover, RetakeLink, TypeOK
<1>7. CASE Keys \/ Poll
  <2>1. /\ UNCHANGED <<service, unheard>>
        /\ UNCHANGED pc \/ pc' # "USER.settle"
        /\ wmode' \in {wmode, "DAMP"}
        /\ state' \in {state, "IDLE", "FAULT"}
    BY <1>7 DEF Keys, Poll, Advance, RequestAuto, Climb, Go, RequestHold,
       RequestDamp, Abort, Shutdown, RequestRecover, Retake, AckHoisted,
       AckLowered, PollFault, PollHold, Fault
  <2> QED
    BY <2>1 DEF Driving
<1>8. CASE EmergencyDamp \/ Native \/ UNCHANGED vars
  BY <1>8 DEF EmergencyDamp, Native, HardwareFault, WriterWatchdog,
     RampEnds, ThreadEnds, RuntimeFault, vars, Driving
<1> QED
  BY <1>1, <1>2, <1>3, <1>4, <1>5, <1>6, <1>7, <1>8, HandlersAre
     DEF Next, BackGates

-----------------------------------------------------------------------------
(* Faults.                                                                  *)

LEMMA FaultStep ==
  ASSUME TypeOK, LockInv, FaultInv, [Next]_vars PROVE FaultInv'
<1> USE AttemptedFrom, SucceedTo, FailTo, OwningAre DEF FaultInv, Grounded
<1>1. CASE LadderGates
  <2>1. CASE EnterPrecheck \/ PrecheckCheck \/ EnterVendorDampConfirmed
    BY <2>1 DEF EnterPrecheck, PrecheckCheck, EnterVendorDampConfirmed, Driving, TypeOK
  <2>2. CASE EnterSafeExternalCommandPresent \/ SafePublish
    BY <2>2 DEF EnterSafeExternalCommandPresent, SafePublish, Driving, TypeOK
  <2>3. CASE EnterUserControlConfirmed \/ UserSettle
    BY <2>3 DEF EnterUserControlConfirmed, UserSettle, Driving, TypeOK
  <2>4. CASE EnterStartPoseRamp \/ RampWait \/ EnterPoseSettled \/ EnterLowered
    BY <2>4 DEF EnterStartPoseRamp, RampWait, EnterPoseSettled, EnterLowered, Fault, Driving,
       TypeOK
  <2>5. CASE EnterPoseMatchVerified \/ EnterPolicyCommandFresh \/ FreshTick \/ EnterPrimed
    BY <2>5 DEF EnterPoseMatchVerified, EnterPolicyCommandFresh, FreshTick, EnterPrimed,
       Start, NoTick, Fault, Driving, TypeOK
  <2> QED
    BY <1>1, <2>1, <2>2, <2>3, <2>4, <2>5 DEF LadderGates
<1>2. CASE RunGates
  BY <1>2 DEF RunGates, EnterBlendIn, BlendTick, BlendWait, EnterRunning,
     EnterHold, HoldStop, Start, NoTick, Fault, Driving, TypeOK
<1>3. CASE EnterVendorRestored \/ EnterReleased
  BY <1>3 DEF EnterVendorRestored, EnterReleased, Driving
<1>4. CASE EnterDamp
  BY <1>4 DEF EnterDamp, Driving
<1>5. CASE ReleasedCheck \/ EnterVendorStand \/ EnterStanding
  <2>1. UNCHANGED <<wmode, faulted>>
    BY <1>5 DEF ReleasedCheck, EnterVendorStand, EnterStanding
  <2>2. state' \in {state, "RELEASED", "VENDOR_STAND", "STANDING"}
    BY <1>5 DEF ReleasedCheck, EnterVendorStand, EnterStanding
  <2> QED
    BY <2>1, <2>2
<1>6. CASE CheckHoist \/ CheckHandBack \/ CheckRecover \/ RetakeLink
  BY <1>6 DEF CheckHoist, CheckHandBack, CheckRecover, RetakeLink, TypeOK
<1>7. CASE Keys
  <2>1. UNCHANGED <<wmode, faulted>> /\ state' \in {state, "IDLE"}
    BY <1>7 DEF Keys, Advance, RequestAuto, Climb, Go, RequestHold,
       RequestDamp, Abort, Shutdown, RequestRecover, Retake, AckHoisted,
       AckLowered
  <2> QED
    BY <2>1
<1>8. CASE Poll
  BY <1>8 DEF Poll, PollFault, PollHold, Fault, Driving
<1>9. CASE EmergencyDamp \/ Native \/ UNCHANGED vars
  BY <1>9 DEF EmergencyDamp, Native, HardwareFault, WriterWatchdog,
     RampEnds, ThreadEnds, RuntimeFault, vars, Driving
<1> QED
  BY <1>1, <1>2, <1>3, <1>4, <1>5, <1>6, <1>7, <1>8, <1>9, HandlersAre
     DEF Next, BackGates

-----------------------------------------------------------------------------
(* The theorems.                                                            *)

LEMMA IndInit == Init => IndInv
<1> SUFFICES ASSUME Init PROVE IndInv
  OBVIOUS
<1>1. GateInv /\ ServiceInv /\ FaultInv
  BY OwningAre DEF Init, GateInv, ServiceInv, Left, FaultInv, Driving
<1> QED
  BY <1>1, TypeInit, LockInit DEF IndInv

LEMMA IndNext == IndInv /\ [Next]_vars => IndInv'
BY TypeNext, LockNext, GateStep, ServiceStep, FaultStep DEF IndInv

\* The gate, the service, the faults and the lock agree in every reachable state;
\* the three theorems about the joints follow from it.
THEOREM Inductive == Spec => []IndInv
BY IndInit, IndNext, PTL DEF Spec

\* While the lifecycle says that our writer holds the joints (_ladder_state,
\* OWNING), the gate is open and the writer enabled, whatever faulted, damped,
\* timed out or was asked for meanwhile.
THEOREM OwningIsGated == Spec => []OwningHasGate
<1>1. IndInv => OwningHasGate
  BY DEF IndInv, GateInv, OwningHasGate
<1> QED
  BY <1>1, Inductive, PTL

\* After Lifecycle._fault nothing drives a joint until a PRECHECK passed: no
\* recover, retake, hold or climb of the ladder goes around it.
THEOREM FaultIsPrechecked == Spec => []FaultNeedsPrecheck
<1>1. IndInv => FaultNeedsPrecheck
  BY DEF IndInv, FaultInv, FaultNeedsPrecheck
<1> QED
  BY <1>1, Inductive, PTL

-----------------------------------------------------------------------------
(* The refinement of Handover.                                              *)

\* All but six actions leave gate and service alone, and either damp the
\* writer or leave it driving, or not, as it was.
LEMMA MostStepsAre ==
  ASSUME TypeOK, LockInv, [Next]_vars
  PROVE  \/ PrecheckCheck
         \/ EnterSafeExternalCommandPresent \/ EnterUserControlConfirmed
         \/ EnterStartPoseRamp \/ EnterReleased \/ EnterVendorRestored
         \/ /\ UNCHANGED <<service, unheard, gate>>
            /\ \/ wmode' = "DAMP"
               \/ wmode' \in Driving <=> wmode \in Driving
<1> DEFINE Most == /\ UNCHANGED <<service, unheard, gate>>
                   /\ \/ wmode' = "DAMP"
                      \/ wmode' \in Driving <=> wmode \in Driving
<1>1. CASE LadderGates /\ ~PrecheckCheck /\ ~EnterSafeExternalCommandPresent
           /\ ~EnterUserControlConfirmed /\ ~EnterStartPoseRamp
  <2>1. UNCHANGED <<service, unheard, gate>> /\ wmode' \in {wmode, "DAMP"}
    BY <1>1 DEF LadderGates, EnterPrecheck,
       EnterVendorDampConfirmed, SafePublish, UserSettle, RampWait,
       EnterPoseSettled, EnterLowered, EnterPoseMatchVerified, Start, NoTick,
       Fault, EnterPolicyCommandFresh, FreshTick, EnterPrimed
  <2> QED
    BY <2>1
<1>2. CASE RunGates
  <2>1. UNCHANGED <<service, unheard>>
    BY <1>2 DEF RunGates, EnterBlendIn, BlendTick, BlendWait, EnterRunning,
       EnterHold, HoldStop
  <2>2. UNCHANGED gate
    BY <1>2 DEF RunGates, EnterBlendIn, BlendTick, BlendWait, EnterRunning,
       EnterHold, HoldStop, Start, NoTick, Fault
  <2>3. \/ wmode' \in {wmode, "DAMP"}
        \/ wmode' \in {"CONTROL", "HOLD"} /\ wmode \in {"WAIT", "CONTROL"}
    BY <1>2 DEF RunGates, EnterBlendIn, BlendTick, BlendWait, EnterRunning,
       EnterHold, HoldStop, Start, NoTick, Fault
  <2> QED
    BY <2>1, <2>2, <2>3 DEF Driving
<1>3. CASE EnterDamp \/ ReleasedCheck \/ EnterVendorStand \/ EnterStanding
  BY <1>3 DEF EnterDamp, ReleasedCheck, EnterVendorStand, EnterStanding
<1>4. CASE CheckHoist \/ CheckHandBack \/ CheckRecover \/ RetakeLink
  BY <1>4 DEF CheckHoist, CheckHandBack, CheckRecover, RetakeLink
<1>5. CASE Keys \/ Poll
  <2>1. UNCHANGED <<service, unheard, gate>> /\ wmode' \in {wmode, "DAMP"}
    BY <1>5 DEF Keys, Poll, Advance, RequestAuto, Climb, Go, RequestHold,
       RequestDamp, Abort, Shutdown, RequestRecover, Retake, AckHoisted,
       AckLowered, PollFault, PollHold, Fault
  <2> QED
    BY <2>1
<1>6. CASE EmergencyDamp \/ Native \/ UNCHANGED vars
  <2>1. /\ UNCHANGED <<service, unheard, gate>>
        /\ \/ wmode' \in {wmode, "DAMP"}
           \/ wmode = "INITIALIZE" /\ wmode' = "WAIT"
    BY <1>6 DEF EmergencyDamp, Native, HardwareFault, WriterWatchdog,
       RampEnds, ThreadEnds, RuntimeFault, vars
  <2> QED
    BY <2>1 DEF Driving
<1> QED
  BY <1>1, <1>2, <1>3, <1>4, <1>5, <1>6, HandlersAre DEF Next, BackGates

LEMMA JointsStep ==
  ASSUME IndInv, [Next]_vars PROVE [Joints!Next]_(Joints!vars)
<1> DEFINE ours == IF ~gate THEN "nothing"
                   ELSE IF wmode \in Driving THEN "drives" ELSE "damp"
<1>1. /\ TypeOK /\ LockInv /\ gate \in BOOLEAN /\ service \in BOOLEAN /\ unheard \in BOOLEAN
      /\ gate => wmode # "DISABLED"
      /\ wmode \in Driving => gate /\ (~service \/ unheard)
  BY DEF IndInv, TypeOK, GateInv, ServiceInv, Left
<1>2. CASE UNCHANGED <<service, unheard, ours>>
  BY <1>2 DEF Joints!vars
<1>3. CASE UNCHANGED <<service, unheard>> /\ ours = "drives" /\ ours' = "damp"
  BY <1>3 DEF Joints!Next, Joints!Damp
<1>10. CASE PrecheckCheck
  <2>1. UNCHANGED <<service, unheard, ours>> \/
        (/\ service /\ ours # "drives" /\ unheard' = FALSE
         /\ UNCHANGED <<service, ours>>)
    BY <1>1, <1>10 DEF PrecheckCheck, Driving
  <2> QED
    BY <1>2, <2>1 DEF Joints!Next, Joints!Hear
<1>4. CASE EnterSafeExternalCommandPresent
  <2>1. UNCHANGED <<service, unheard, ours>> \/
        (ours = "nothing" /\ ours' = "damp" /\ UNCHANGED <<service, unheard>>)
    BY <1>1, <1>4 DEF EnterSafeExternalCommandPresent, Driving
  <2> QED
    BY <1>2, <2>1 DEF Joints!Next, Joints!OpenGate
<1>5. CASE EnterUserControlConfirmed
  <2>1. UNCHANGED <<service, unheard, ours>> \/
        (/\ ours = "damp" /\ UNCHANGED ours
         /\ \/ service' = FALSE /\ unheard' = FALSE
            \/ service /\ service' /\ unheard' = TRUE)
    BY <1>1, <1>5 DEF EnterUserControlConfirmed, Driving
  <2> QED
    BY <1>2, <2>1 DEF Joints!Next, Joints!Release
<1>6. CASE EnterStartPoseRamp
  <2>1. state = "USER_CONTROL_CONFIRMED"
    BY <1>1, <1>6, AttemptedFrom DEF EnterStartPoseRamp
  <2>2. gate /\ (~service \/ unheard)
    BY <2>1, OwningAre DEF IndInv, GateInv, ServiceInv, Left
  <2>3. UNCHANGED <<service, unheard, ours>> \/
        (/\ ~service \/ unheard
         /\ ours = "damp" /\ ours' = "drives" /\ UNCHANGED <<service, unheard>>)
    BY <1>1, <1>6, <2>2 DEF EnterStartPoseRamp, Driving
  <2> QED
    BY <1>2, <2>3 DEF Joints!Next, Joints!Drive
<1>7. CASE EnterReleased
  <2>1. UNCHANGED <<service, unheard, ours>> \/
        (ours = "damp" /\ ours' = "nothing" /\ UNCHANGED <<service, unheard>>)
    BY <1>1, <1>7 DEF EnterReleased, Driving
  <2> QED
    BY <1>2, <2>1 DEF Joints!Next, Joints!Silence
<1>8. CASE EnterVendorRestored
  <2>1. UNCHANGED <<service, unheard, ours>> \/
        (/\ ours = "nothing" /\ UNCHANGED ours
         /\ service' = TRUE /\ unheard' = FALSE)
    BY <1>1, <1>8 DEF EnterVendorRestored
  <2> QED
    BY <1>2, <2>1 DEF Joints!Next, Joints!Restore
<1>9. CASE /\ UNCHANGED <<service, unheard, gate>>
           /\ \/ wmode' = "DAMP"
              \/ wmode' \in Driving <=> wmode \in Driving
  BY <1>1, <1>2, <1>3, <1>9 DEF Driving
<1> QED
  BY <1>1, <1>4, <1>5, <1>6, <1>7, <1>8, <1>9, <1>10, MostStepsAre

\* The lifecycle implements Handover: the vendor's service is released only
\* under our damp frames, we drive only once it is gone or the motion switcher
\* did not answer for it (CheckMode's result is dropped), and it comes back
\* (_enter_vendor_restored) only once our writer is silent.
THEOREM HandoverHolds == Spec => HandsOver
<1>1. Init => Joints!Init
  BY DEF Init, Joints!Init
<1> QED
  BY <1>1, JointsStep, Inductive, PTL DEF Spec, HandsOver, Joints!Spec

=============================================================================
