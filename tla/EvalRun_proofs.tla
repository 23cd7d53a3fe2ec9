--------------------------- MODULE EvalRun_proofs ---------------------------
(***************************************************************************)
(* One evaluation run, for any number of episodes, steps, actions in a     *)
(* chunk and restarts of the service: what is written down is stopped and  *)
(* whole, a chunk is played in the episode it was asked for, and a service *)
(* that always answered served every step, whatever raises, dies, hangs or *)
(* interrupts.                                                             *)
(***************************************************************************)
EXTENDS EvalRun, TLAPS

USE DEF world, child

-----------------------------------------------------------------------------
(* Types.                                                                   *)

LEMMA Bounds ==
  /\ Episodes \in Nat /\ Episodes > 0 /\ MaxSteps \in Nat /\ MaxSteps > 0
  /\ Horizon \in Nat /\ Horizon > 0 /\ MaxRestarts \in Nat /\ 1 \in Ids
BY BoundsAssumption DEF Ids

LEMMA RollFields ==
  ASSUME TypeOK
  PROVE  /\ roll \in Roll /\ roll.ep \in Ids /\ roll.steps \in 0..MaxSteps
         /\ roll.chunk \in [of : 0..Episodes, left : 0..Horizon]
         /\ roll.chunk.left \in 0..Horizon /\ roll.fallback \in Nat
         /\ roll.done \in BOOLEAN /\ roll.failed \in BOOLEAN
         /\ roll.fallback <= roll.steps
BY DEF TypeOK, Roll

LEMMA FreshTyped ==
  ASSUME NEW ep \in Ids
  PROVE  /\ Fresh(ep) \in Roll /\ Fresh(ep).ep = ep /\ Fresh(ep).steps = 0
         /\ Fresh(ep).fallback = 0 /\ Fresh(ep).chunk.left = 0
BY BoundsAssumption DEF Fresh, NoChunk, Roll

LEMMA ServiceTyped ==
  ASSUME TypeOK
  PROVE  /\ service.reset \in SUBSET Ids
         /\ \A state \in {"absent", "starting", "ready", "mute", "dead"} :
              [service EXCEPT !.state = state] \in Service
         /\ \A reset \in SUBSET Ids : [service EXCEPT !.reset = reset] \in Service
BY DEF TypeOK, Service

LEMMA TypeService ==
  ASSUME TypeOK, ServiceReady \/ ServiceFails \/ ServiceRestarts
  PROVE  TypeOK'
<1>1. service' \in Service
  <2>1. CASE ServiceReady \/ ServiceFails
    BY <2>1, ServiceTyped DEF ServiceReady, ServiceFails
  <2>2. CASE ServiceRestarts
    BY <2>2 DEF ServiceRestarts, Service
  <2> QED BY <2>1, <2>2
<1>2. CASE ServiceReady
  BY <1>1, <1>2 DEF ServiceReady, TypeOK
<1>3. CASE ServiceFails
  <2>1. /\ calm' = FALSE /\ socket' \in BOOLEAN
        /\ UNCHANGED <<config, pc, fault, files, backend, restarts, handle, child, roll, raw,
                       rows, left>>
    BY <1>3 DEF ServiceFails, TypeOK
  <2> QED BY <1>1, <2>1 DEF child, TypeOK
<1>4. CASE ServiceRestarts
  <2>1. restarts' \in 0..MaxRestarts
    BY <1>4, Bounds DEF ServiceRestarts, TypeOK
  <2> QED BY <1>1, <1>4, <2>1 DEF ServiceRestarts, TypeOK
<1> QED BY <1>2, <1>3, <1>4

LEMMA TypeLaunch ==
  ASSUME TypeOK, \/ BuildBackend \/ SetUp \/ Launch \/ WaitHealthy \/ Describe
                 \/ Handle \/ Stop \/ Close \/ Write \/ Killed
  PROVE  TypeOK'
<1>1. Started \in Service /\ Stopped \in Service
  <2>1. Started \in Service
    BY DEF Started, Service
  <2>2. Stopped \in Service
    BY DEF TypeOK, Service, Stopped
  <2> QED BY <2>1, <2>2
<1>2. CASE BuildBackend
  BY <1>2 DEF BuildBackend, TypeOK
<1>3. CASE SetUp
  <2>1. files' \subseteq Setup
    BY <1>3 DEF SetUp
  <2> QED BY <1>3, <2>1 DEF SetUp, TypeOK
<1>4. CASE Launch
  BY <1>1, <1>4 DEF Launch, TypeOK, Raise
<1>5. CASE WaitHealthy
  BY <1>1, <1>5 DEF WaitHealthy, StopService, TypeOK, Raise
<1>6. CASE Describe
  BY <1>6 DEF Describe, TypeOK, Raise
<1>7. CASE Handle
  BY <1>7 DEF Handle, TypeOK
<1>8. CASE Stop
  BY <1>1, <1>8 DEF Stop, StopService, TypeOK
<1>9. CASE Close
  BY <1>9 DEF Close, TypeOK
<1>10. CASE Write
  <2>1. \A n \in 0..Len(Report) : 1..n \subseteq DOMAIN Report
    BY DEF Report
  <2> QED BY <1>10, <2>1 DEF Write, TypeOK
<1>11. CASE Killed
  BY <1>11 DEF Killed, TypeOK
<1> QED BY <1>2, <1>3, <1>4, <1>5, <1>6, <1>7, <1>8, <1>9, <1>10, <1>11

LEMMA TypeRollout ==
  ASSUME TypeOK, \/ ResetEpisode \/ Ask \/ Fallback \/ AskRaises \/ Play \/ StepRaises
                 \/ FinishEpisode
         , pc \in {"reset", "step"} => Len(rows) = roll.ep - 1
  PROVE  TypeOK'
<1>1. CASE ResetEpisode
  <2>1. roll' \in Roll /\ roll'.fallback <= roll'.steps
    BY <1>1, FreshTyped, RollFields, Bounds DEF ResetEpisode
  <2>2. service' \in Service
    <3>1. service.reset \cup {roll.ep} \in SUBSET Ids
      BY ServiceTyped, RollFields
    <3>2. \/ service' = [service EXCEPT !.reset = service.reset \cup {roll.ep}]
          \/ service' = [service EXCEPT !.reset = service.reset]
          \/ service' = service
      BY <1>1 DEF ResetEpisode
    <3> QED BY <3>1, <3>2, ServiceTyped DEF TypeOK
  <2> QED BY <1>1, <2>1, <2>2 DEF ResetEpisode, TypeOK, Raise
<1>2. CASE Ask
  <2>1. PICK n \in 0..Horizon : roll' = [roll EXCEPT !.chunk = [of |-> roll.ep, left |-> n]]
    BY <1>2, Bounds DEF Ask
  <2>2. roll' \in Roll /\ roll'.fallback = roll.fallback /\ roll'.steps = roll.steps
    BY <2>1, RollFields, Bounds DEF Roll, Ids
  <2> QED BY <1>2, <2>2, RollFields DEF Ask, TypeOK, Raise
<1>3. CASE Fallback
  <2>1. PICK done \in BOOLEAN :
          roll' = [roll EXCEPT !.steps = roll.steps + 1, !.fallback = roll.fallback + 1,
                               !.done = done]
    BY <1>3 DEF Fallback
  <2>2. roll.steps + 1 \in 0..MaxSteps
    <3>1. roll.steps < MaxSteps
      BY <1>3, Zenon DEF Fallback, Stepping
    <3> QED BY <3>1, RollFields, Bounds
  <2>3. roll' \in Roll
    <3>1. roll.fallback + 1 \in Nat
      BY RollFields
    <3> QED BY <2>1, <2>2, <3>1, RollFields DEF Roll
  <2>4. roll'.fallback = roll.fallback + 1 /\ roll'.steps = roll.steps + 1
    BY <2>1, RollFields DEF Roll
  <2>5. roll'.fallback <= roll'.steps
    BY <2>4, RollFields, Bounds
  <2>6. /\ UNCHANGED <<config, pc, fault, files, backend, service, restarts, handle, child,
                       raw, rows, left>>
        /\ calm' \in BOOLEAN /\ socket' \in BOOLEAN
    BY <1>3 DEF Fallback, TypeOK
  <2> QED BY <2>3, <2>5, <2>6 DEF TypeOK
<1>4. CASE AskRaises \/ StepRaises
  BY <1>4 DEF AskRaises, StepRaises, TypeOK, Raise
<1>5. CASE Play
  <2>1. PICK done \in BOOLEAN :
          roll' = [roll EXCEPT !.steps = roll.steps + 1, !.chunk.left = roll.chunk.left - 1,
                               !.done = done, !.failed = done]
    BY <1>5, RollFields DEF Play, Roll
  <2>2. roll.steps + 1 \in 0..MaxSteps /\ roll.chunk.left - 1 \in 0..Horizon
    <3>1. roll.steps < MaxSteps /\ roll.chunk.left > 0
      BY <1>5, Zenon DEF Play, Stepping
    <3> QED BY <3>1, RollFields, Bounds
  <2>3. roll' \in Roll
    BY <2>1, <2>2, RollFields DEF Roll
  <2>4. roll'.fallback = roll.fallback /\ roll'.steps = roll.steps + 1
    BY <2>1, RollFields DEF Roll
  <2>5. roll'.fallback <= roll'.steps
    BY <2>4, RollFields, Bounds
  <2>6. UNCHANGED <<config, pc, fault, files, backend, world, handle, child, raw, rows,
                    left>>
    BY <1>5 DEF Play
  <2> QED BY <2>3, <2>5, <2>6 DEF world, child, TypeOK
<1>6. CASE FinishEpisode
  <2>1. /\ Row \in [ep : Ids, fallback : Nat, blewUp : BOOLEAN,
                    status : {"failed", "completed"}]
        /\ raw' \subseteq Ids /\ rows' = Append(rows, Row) /\ Len(rows) = roll.ep - 1
    BY <1>6, RollFields DEF FinishEpisode, TypeOK, Row
  <2>2. rows' \in Rows /\ Len(rows') <= Episodes
    <3>1. rows' \in Rows /\ Len(rows') = roll.ep
      <4>1. rows \in Rows /\ roll.ep \in Nat
        BY RollFields DEF TypeOK, Ids
      <4> QED BY <2>1, <4>1 DEF Rows
    <3> QED BY <3>1, RollFields, Bounds DEF Ids
  <2>3. roll' \in Roll /\ roll'.fallback <= roll'.steps
    <3>1. CASE roll.ep = Episodes
      BY <1>6, <3>1, RollFields DEF FinishEpisode
    <3>2. CASE roll.ep # Episodes
      <4>1. roll' = [roll EXCEPT !.ep = roll.ep + 1] /\ roll.ep + 1 \in Ids
        <5>1. roll' = [roll EXCEPT !.ep = roll.ep + 1]
          BY <1>6, <3>2 DEF FinishEpisode
        <5>2. roll.ep + 1 \in Ids
          BY <3>2, RollFields, Bounds DEF Ids
        <5> QED BY <5>1, <5>2
      <4> QED BY <4>1, RollFields DEF Roll
    <3> QED BY <3>1, <3>2
  <2> QED BY <1>6, <2>1, <2>2, <2>3 DEF FinishEpisode, TypeOK
<1> QED BY <1>1, <1>2, <1>3, <1>4, <1>5, <1>6

(* The evaluator's rows: one for each of its records.                      *)
Evaluated == [i \in 1..config.seeds |-> [ep |-> i, fallback |-> 0, blewUp |-> FALSE,
                                         status |-> "completed"]]

LEMMA SeedsAre ==
  ASSUME config \in Configs
  PROVE  /\ config.seeds \in 0..Episodes /\ 1..config.seeds \subseteq Ids
         /\ Stepped => config.seeds = Episodes
<1>1. config.seeds \in 0..Episodes /\ (Stepped => config.seeds = Episodes)
  BY DEF Configs, Stepped
<1> QED BY <1>1, Bounds DEF Ids

LEMMA RowsOf ==
  ASSUME NEW n \in Nat, n <= Episodes
  PROVE  [i \in 1..n |-> [ep |-> i, fallback |-> 0, blewUp |-> FALSE,
                         status |-> "completed"]] \in Rows
BY Bounds DEF Rows, Ids

LEMMA EvaluatedIs ==
  ASSUME config \in Configs
  PROVE  /\ Evaluated \in Rows /\ Len(Evaluated) = config.seeds
         /\ \A i \in 1..config.seeds : Evaluated[i].ep = i /\ Evaluated[i].fallback = 0
<1>1. config.seeds \in Nat /\ config.seeds <= Episodes /\ 1..config.seeds \subseteq Ids
  BY SeedsAre, Bounds
<1>2. Evaluated \in [1..config.seeds -> [ep : Ids, fallback : Nat, blewUp : BOOLEAN,
                                        status : {"failed", "completed"}]]
  BY <1>1 DEF Evaluated
<1>3. Evaluated \in Rows
  BY <1>1, RowsOf DEF Evaluated
<1>4. Len(Evaluated) = config.seeds
  BY <1>1 DEF Evaluated
<1> QED BY <1>3, <1>4 DEF Evaluated

LEMMA StopSimTypes ==
  ASSUME TypeOK, NEW raised \in BOOLEAN, StopSim(raised)
  PROVE  /\ sim' \in Sim /\ simLog' \in {"none", "kept", "lost"}
         /\ left' \subseteq {"service", "sim"}
<1>1. sim' \in Sim
  BY DEF StopSim, TypeOK, Sim
<1> QED BY <1>1 DEF StopSim, TypeOK

LEMMA TypeDelegated ==
  ASSUME TypeOK, \/ LaunchSim \/ SimHealthy \/ SimReset \/ SimEpisode \/ SimFails
                 \/ SimEnded \/ SimTimeout \/ Interrupt,
         pc = "wait" =>
           raw = 1..(IF sim.state = "exited" THEN config.seeds ELSE sim.ep - 1),
         sim.state \in {"reset", "act"} => sim.ep <= config.seeds
  PROVE  TypeOK'
<1>1. sim.ep \in Ids
  BY DEF TypeOK, Sim
<1>2. CASE LaunchSim
  BY <1>2 DEF LaunchSim, TypeOK, Raise, Sim
<1>3. CASE SimHealthy \/ SimFails
  BY <1>3 DEF SimHealthy, SimFails, SimMoves, TypeOK, Sim
<1>4. CASE SimReset
  <2>1. service' \in Service
    BY <1>1, <1>4, ServiceTyped DEF SimReset, TypeOK
  <2> QED BY <1>4, <2>1 DEF SimReset, SimMoves, TypeOK, Sim
<1>5. CASE SimEpisode
  <2>1. sim' \in Sim
    <3>1. sim.ep # config.seeds => sim.ep + 1 \in Ids
      <4>1. sim.ep <= config.seeds /\ config.seeds \in 0..Episodes
        BY <1>5, SeedsAre DEF SimEpisode, TypeOK
      <4> QED BY <1>1, <4>1, Bounds DEF Ids
    <3> QED BY <1>5, <3>1 DEF SimEpisode, TypeOK, Sim
  <2> QED BY <1>1, <1>5, <2>1 DEF SimEpisode, TypeOK
<1>6. CASE SimEnded
  <2>1. sim' \in Sim /\ simLog' \in {"none", "kept", "lost"}
    BY <1>6 DEF SimEnded, LogAfter, TypeOK, Sim
  <2>2. rows' \in Rows /\ Len(rows') <= Episodes
    <3>1. rows' \in {rows, Evaluated}
      BY <1>6 DEF SimEnded, Records, Evaluated
    <3> QED BY <3>1, EvaluatedIs, SeedsAre, Bounds DEF TypeOK
  <2> QED BY <1>6, <2>1, <2>2 DEF SimEnded, Raise, TypeOK
<1>7. CASE SimTimeout \/ Interrupt
  <2>1. sim' \in Sim /\ simLog' \in {"none", "kept", "lost"} /\ left' \subseteq {"service", "sim"}
    BY <1>7, StopSimTypes DEF SimTimeout, Interrupt, TypeOK
  <2>2. /\ fault' \in {"error", "failure", "interrupt"} /\ pc' \in {"stop", "handler"}
        /\ UNCHANGED <<config, files, backend, world, handle, roll, raw, rows>>
    BY <1>7 DEF SimTimeout, Interrupt, Raise
  <2> QED BY <2>1, <2>2 DEF TypeOK
<1> QED BY <1>2, <1>3, <1>4, <1>5, <1>6, <1>7

LEMMA TypeNext == TypeOK /\ WholeInv /\ [Next]_vars => TypeOK'
<1> SUFFICES ASSUME TypeOK, WholeInv, [Next]_vars PROVE TypeOK'
  OBVIOUS
<1>1. CASE UNCHANGED vars
  BY <1>1 DEF vars, TypeOK
<1> QED BY <1>1, TypeService, TypeLaunch, TypeRollout, TypeDelegated
    DEF Next, Host, Evaluator, WholeInv

-----------------------------------------------------------------------------
(* What is left running.                                                    *)

LEMMA StoppedByService ==
  ASSUME StoppedInv, ServiceReady \/ ServiceFails \/ ServiceRestarts, TypeOK
  PROVE  StoppedInv'
<1>1. /\ UNCHANGED <<config, pc, fault, files, backend, handle, sim, left>>
      /\ Launched => service.state # "absent"
  BY DEF ServiceReady, ServiceFails, ServiceRestarts
<1> QED BY <1>1 DEF StoppedInv, Launched, SimRuns

(* A stop either removes the service or is remembered as one that did not. *)
LEMMA ServiceStopped ==
  ASSUME StoppedInv, TypeOK, NEW raised \in BOOLEAN, StopService(raised)
  PROVE  /\ ~handle' /\ left' \in {left, left \cup {"service"}}
         /\ Launched /\ service'.state # "absent" => "service" \in left'
         /\ left' # left => raised \/ config.policy = "docker"
<1>1. Stopped.state = IF handle THEN "absent" ELSE service.state
  BY DEF Stopped, TypeOK, Service
<1>2. CASE ~raised /\ service' = Stopped /\ UNCHANGED left
  BY <1>1, <1>2 DEF StopService, StoppedInv
<1>3. CASE left' = left \cup {"service"} /\ (raised \/ (handle /\ config.policy = "docker"))
  BY <1>3 DEF StopService
<1> QED BY <1>2, <1>3 DEF StopService

LEMMA SimStopped ==
  ASSUME StoppedInv, TypeOK, NEW raised \in BOOLEAN, StopSim(raised)
  PROVE  \/ sim'.state = "gone" /\ left' = left
         \/ sim' = sim /\ left' = left \cup {"sim"}
BY DEF StopSim, TypeOK, Sim

LEMMA StoppedByHost ==
  ASSUME StoppedInv, TypeOK, Host \/ Killed \/ Interrupt
  PROVE  StoppedInv'
<1>2. CASE BuildBackend
  BY <1>2 DEF BuildBackend, StoppedInv, Launched, SimRuns
<1>3. CASE SetUp
  <2>1. "status" \notin files'
    BY <1>3 DEF SetUp, Setup
  <2> QED BY <1>3, <2>1 DEF SetUp, StoppedInv, Launched, SimRuns
<1>4. CASE Launch
  BY <1>4 DEF Launch, Raise, StoppedInv, Launched, SimRuns
<1>5. CASE WaitHealthy
  <2>1. /\ UNCHANGED <<config, files, backend, sim>> /\ pc = "health" /\ left = {}
    BY <1>5 DEF WaitHealthy, StoppedInv
  <2>2. CASE pc' = "describe" /\ UNCHANGED <<fault, service, handle, left>>
    BY <2>1, <2>2 DEF StoppedInv, Launched, SimRuns
  <2>3. CASE Raise("error") /\ \E raised \in BOOLEAN : StopService(raised)
    <3>1. /\ ~handle' /\ left' \in {left, left \cup {"service"}}
          /\ Launched /\ service'.state # "absent" => "service" \in left'
      BY <2>3, ServiceStopped
    <3>2. pc' = "handler" /\ fault' = "error"
      BY <2>3 DEF Raise
    <3> QED BY <2>1, <3>1, <3>2 DEF StoppedInv, Launched, SimRuns
  <2> QED BY <1>5, <2>2, <2>3 DEF WaitHealthy
<1>6. CASE Describe \/ AskRaises \/ StepRaises \/ Handle \/ Killed
  BY <1>6 DEF Describe, AskRaises, Stepping, StepRaises, Handle, Killed, Over, Raise,
              StoppedInv, Launched, SimRuns
<1>7. CASE ResetEpisode
  <2>1. service'.state = service.state
    BY <1>7 DEF ResetEpisode, TypeOK, Service
  <2> QED BY <1>7, <2>1 DEF ResetEpisode, Raise, StoppedInv, Launched, SimRuns
<1>8. CASE Ask \/ Fallback \/ Play \/ FinishEpisode
  BY <1>8 DEF Ask, Fallback, Play, FinishEpisode, Stepping, Raise, StoppedInv, Launched, SimRuns
<1>9. CASE LaunchSim
  <2>1. CASE pc' = "wait" /\ sim' = [sim EXCEPT !.state = "health"] /\ UNCHANGED fault
    <3>1. sim'.state = "health"
      BY <2>1 DEF TypeOK, Sim
    <3> QED BY <1>9, <2>1, <3>1 DEF LaunchSim, StoppedInv, Launched, SimRuns
  <2>2. CASE (Raise("failure") \/ Raise("error")) /\ UNCHANGED child
    BY <1>9, <2>2 DEF LaunchSim, Raise, StoppedInv, Launched, SimRuns
  <2> QED BY <1>9, <2>1, <2>2 DEF LaunchSim
<1>10. CASE SimEnded
  <2>1. /\ UNCHANGED <<config, files, service, handle, backend, left>> /\ pc = "wait"
        /\ pc' \in {"stop", "handler"} /\ sim'.state = "gone"
    BY <1>10 DEF SimEnded, Raise, TypeOK, Sim
  <2> QED BY <2>1 DEF StoppedInv, Launched, SimRuns
<1>14. CASE SimTimeout \/ (Interrupt /\ pc = "wait")
  <2>1. /\ UNCHANGED <<config, files, service, handle, backend>> /\ pc = "wait"
        /\ pc' \in {"stop", "handler"} /\ fault' # "none"
    BY <1>14 DEF SimTimeout, Interrupt, Raise
  <2>2. \/ sim'.state = "gone" /\ left' = left
        \/ sim' = sim /\ left' = left \cup {"sim"}
    BY <1>14, SimStopped DEF SimTimeout, Interrupt
  <2> QED BY <2>1, <2>2 DEF StoppedInv, Launched, SimRuns
<1>15. CASE Interrupt /\ pc # "wait"
  BY <1>15 DEF Interrupt, Raise, StoppedInv, Launched, SimRuns
<1>11. CASE Stop
  <2>1. PICK raised \in BOOLEAN : StopService(raised) /\ pc' = IF raised THEN "raised" ELSE "close"
    BY <1>11 DEF Stop
  <2>2. /\ ~handle' /\ left' \in {left, left \cup {"service"}}
        /\ Launched /\ service'.state # "absent" => "service" \in left'
        /\ left' # left => raised \/ config.policy = "docker"
    BY <2>1, ServiceStopped
  <2>3. /\ UNCHANGED <<config, fault, files, backend, sim>> /\ pc = "stop" /\ "status" \notin files
    BY <1>11 DEF Stop, StoppedInv
  <2> QED BY <2>1, <2>2, <2>3 DEF StoppedInv, Launched, SimRuns
<1>12. CASE Close
  BY <1>12 DEF Close, StoppedInv, Launched, SimRuns
<1>13. CASE Write
  <2>1. /\ UNCHANGED <<config, fault, service, handle, sim, backend, left>> /\ pc = "write"
        /\ pc' \in {"done", "raised"} /\ ~handle
    BY <1>13 DEF Write, StoppedInv
  <2>2. /\ "service" \in left /\ fault = "none" => config.policy = "docker"
        /\ Launched /\ service.state # "absent" => "service" \in left
        /\ SimRuns => "sim" \in left
        /\ "sim" \in left => fault # "none"
    BY <2>1 DEF StoppedInv
  <2>3. Launched' = Launched /\ SimRuns' = SimRuns
    BY <2>1 DEF Launched, SimRuns
  <2> QED BY <2>1, <2>2, <2>3 DEF StoppedInv
<1>16. CASE Interrupt
  BY <1>14, <1>15, <1>16
<1> QED BY <1>2, <1>3, <1>4, <1>5, <1>6, <1>7, <1>8, <1>9, <1>10, <1>11, <1>12, <1>13, <1>14,
    <1>16 DEF Host

LEMMA StoppedByEvaluator ==
  ASSUME StoppedInv, TypeOK, Evaluator
  PROVE  StoppedInv'
<1>1. /\ UNCHANGED <<config, pc, fault, files, backend, handle, left>>
      /\ service'.state = service.state /\ SimRuns
  BY DEF Evaluator, SimHealthy, SimReset, SimEpisode, SimFails, SimMoves, SimRuns, TypeOK,
         Service
<1>2. sim.state \notin {"none", "gone"}
  BY <1>1 DEF SimRuns
<1> QED BY <1>1, <1>2 DEF StoppedInv, Launched

LEMMA StoppedNext == TypeOK /\ StoppedInv /\ [Next]_vars => StoppedInv'
<1>1. StoppedInv /\ UNCHANGED vars => StoppedInv'
  BY DEF vars, StoppedInv, Launched, SimRuns
<1> QED BY <1>1, StoppedByService, StoppedByHost, StoppedByEvaluator DEF Next

(* Only the report writes a status, and nothing of the run starts again.   *)
LEMMA ReportedNext ==
  ASSUME TypeOK, StoppedInv, ReportedIsStopped, [Next]_vars
  PROVE  ReportedIsStopped'
<1>1. CASE Write
  <2>1. /\ UNCHANGED <<config, service, sim, backend, fault, left>> /\ pc = "write"
        /\ Launched /\ service.state # "absent" => "service" \in left
        /\ SimRuns => "sim" \in left
        /\ backend # "open"
        /\ fault = "none" =>
             "sim" \notin left /\ ("service" \in left => config.policy = "docker")
    BY <1>1 DEF Write, StoppedInv
  <2> QED BY <2>1 DEF ReportedIsStopped, SimRuns, Launched
<1>2. CASE ~Write
  <2>1. SUFFICES ASSUME "status" \in files' PROVE ReportedIsStopped'
    BY DEF ReportedIsStopped
  <2>2. "status" \in files
    BY <1>2, <2>1 DEF Next, Host, Evaluator, BuildBackend, SetUp, Setup, Launch, WaitHealthy,
       Describe, ResetEpisode, Ask, Fallback, AskRaises, Play, StepRaises, FinishEpisode,
       LaunchSim, SimEnded, SimTimeout, Handle, Stop, Close, SimHealthy, SimReset, SimEpisode,
       SimFails, SimMoves, Interrupt, Killed, ServiceReady, ServiceFails, ServiceRestarts, vars
  <2>3. pc \in {"done", "raised"}
    BY <2>2 DEF StoppedInv
  <2>4. CASE Evaluator
    <3>1. UNCHANGED <<config, backend, fault, left>> /\ service'.state = service.state /\ SimRuns
      BY <2>4 DEF Evaluator, SimHealthy, SimReset, SimEpisode, SimFails, SimMoves, SimRuns,
         TypeOK, Service
    <3> QED BY <2>2, <3>1 DEF ReportedIsStopped, Launched
  <2>5. CASE ~Evaluator
    <3>1. /\ UNCHANGED <<config, sim, backend, fault, left>>
          /\ Launched => service'.state = service.state \/ service.state # "absent"
      BY <1>2, <2>3, <2>5 DEF Next, Host, BuildBackend, SetUp, Launch, WaitHealthy,
         Describe, ResetEpisode, Ask, Fallback, Stepping, AskRaises, Play, StepRaises,
         FinishEpisode, LaunchSim, SimEnded, SimTimeout, Handle, Stop, Close, Interrupt, Killed,
         Over, ServiceReady, ServiceFails, ServiceRestarts, vars
    <3> QED BY <2>2, <3>1 DEF ReportedIsStopped, SimRuns, Launched
  <2> QED BY <2>4, <2>5
<1> QED BY <1>1, <1>2

-----------------------------------------------------------------------------
(* A calm service.                                                          *)

LEMMA CalmNext ==
  ASSUME TypeOK, CalmInv, [Next]_vars
  PROVE  CalmInv'
<1>1. CASE ServiceReady \/ ServiceFails \/ ServiceRestarts
  <2>1. ~calm' \/ (ServiceReady /\ calm)
    BY <1>1 DEF ServiceReady, ServiceFails, ServiceRestarts, CalmInv
  <2>2. CASE ServiceReady /\ calm
    <3>1. service'.state = "ready" /\ UNCHANGED <<pc, config, roll>> /\ ~Answers
      BY <2>2 DEF ServiceReady, TypeOK, Service, Answers
    <3>2. pc \notin {"describe", "reset", "step"}
      BY <2>2, <3>1 DEF CalmInv
    <3> QED BY <3>1, <3>2 DEF CalmInv, Answers
  <2> QED BY <2>1, <2>2 DEF CalmInv
<1>2. CASE Launch \/ WaitHealthy \/ Stop
  <2>1. Stopped.state \in {service.state, "absent"} /\ Started.state = "starting"
    BY DEF Stopped, Started, TypeOK, Service
  <2>2. /\ service'.state \in {service.state, "absent", "starting"} /\ calm' = calm
        /\ pc' = "describe" => Answers'
        /\ pc' \notin {"reset", "step"}
    BY <1>2, <2>1 DEF Launch, WaitHealthy, Stop, StopService, Raise, Answers
  <2> QED BY <2>2 DEF CalmInv
<1>3. CASE ResetEpisode
  <2>1. /\ service'.state = service.state /\ UNCHANGED <<calm, config>> /\ pc = "reset"
        /\ pc' \in {"step", "handler", "stop"}
    BY <1>3 DEF ResetEpisode, Raise, TypeOK, Service
  <2>2. calm /\ pc' = "step" => Answers' /\ ~Unknown(roll.ep)'
    <3>1. SUFFICES ASSUME calm, pc' = "step" PROVE Answers' /\ ~Unknown(roll.ep)'
      OBVIOUS
    <3>2. Answers /\ Answers'
      BY <2>1, <3>1 DEF CalmInv, Answers
    <3>3. roll' = Fresh(roll.ep) /\ (Speaks # "openpi" => roll.ep \in service'.reset)
      BY <1>3, <3>1, <3>2 DEF ResetEpisode, Raise, TypeOK, Service
    <3> QED BY <2>1, <3>2, <3>3 DEF Unknown, Speaks, Launched, Fresh
  <2> QED BY <2>1, <2>2 DEF CalmInv
<1>4. CASE SimReset
  <2>1. /\ service'.state = service.state /\ service.reset \subseteq service'.reset
        /\ UNCHANGED <<calm, pc, config, roll>>
    BY <1>4 DEF SimReset, SimMoves, TypeOK, Service
  <2> QED BY <2>1 DEF CalmInv, Answers, Unknown, Speaks, Launched
<1>5. CASE Describe \/ FinishEpisode
  <2>1. UNCHANGED <<service, calm>> /\ pc \in {"describe", "step"} /\ pc' # "step"
    BY <1>5 DEF Describe, FinishEpisode, Raise
  <2> QED BY <2>1 DEF CalmInv, Answers
<1>6. CASE Ask \/ Fallback \/ Play
  <2>1. /\ UNCHANGED <<service, config>> /\ calm' \in {calm, FALSE} /\ roll'.ep = roll.ep
        /\ pc = "step" /\ pc' \notin {"describe", "reset"}
    BY <1>6 DEF Ask, Fallback, Play, Stepping, Raise, TypeOK, Roll
  <2> QED BY <2>1 DEF CalmInv, Answers, Unknown, Speaks, Launched
<1>7. CASE \/ BuildBackend \/ SetUp \/ AskRaises \/ StepRaises \/ LaunchSim \/ SimEnded
           \/ SimTimeout \/ Handle \/ Close \/ Write \/ Interrupt \/ Killed
  <2>1. UNCHANGED <<service, calm>> /\ pc' \notin {"describe", "reset", "step"}
    BY <1>7 DEF BuildBackend, SetUp, AskRaises, StepRaises, LaunchSim, SimEnded, SimTimeout,
                Handle, Close, Write, Interrupt, Killed, Raise
  <2> QED BY <2>1 DEF CalmInv, Answers
<1>8. CASE SimHealthy \/ SimEpisode \/ SimFails \/ UNCHANGED vars
  <2>1. UNCHANGED <<service, calm, pc, config, roll>>
    BY <1>8 DEF SimHealthy, SimEpisode, SimFails, SimMoves, vars
  <2> QED BY <2>1 DEF CalmInv, Answers, Unknown, Speaks, Launched
<1> QED BY <1>1, <1>2, <1>3, <1>4, <1>5, <1>6, <1>7, <1>8 DEF Next, Host, Evaluator

(* A fallback is a step that the service did not serve.                    *)
LEMMA ServedNext ==
  ASSUME TypeOK, CalmInv, CalmIsServed, [Next]_vars
  PROVE  CalmIsServed'
<1>1. SUFFICES ASSUME calm' PROVE CalmIsServed'
  BY DEF CalmIsServed
<1>2. calm
  BY <1>1 DEF Next, Host, Evaluator, BuildBackend, SetUp, Launch, WaitHealthy,
     Describe, ResetEpisode, Ask, Fallback, AskRaises, Play, StepRaises,
     FinishEpisode, LaunchSim, SimEnded, SimTimeout, Handle, Stop, Close, Write, SimHealthy,
     SimReset, SimEpisode, SimFails, SimMoves, Interrupt, Killed, ServiceReady, ServiceFails,
     ServiceRestarts, vars
<1>3. roll.fallback = 0 /\ \A i \in DOMAIN rows : rows[i].fallback = 0
  BY <1>2 DEF CalmIsServed
<1>4. CASE ResetEpisode
  <2>1. roll' = Fresh(roll.ep) \/ roll' = roll
    BY <1>4 DEF ResetEpisode
  <2>2. Fresh(roll.ep).fallback = 0 /\ rows' = rows
    BY <1>4 DEF Fresh, ResetEpisode
  <2> QED BY <1>3, <2>1, <2>2 DEF CalmIsServed
<1>5. CASE Fallback
  <2>1. pc = "step" /\ Answers /\ ~Unknown(roll.ep)
    BY <1>2, <1>5 DEF Fallback, Stepping, CalmInv
  <2>2. ~Unserved
    BY <2>1 DEF Answers, Unserved, HttpUnserved, Gr00tUnserved, OpenPIUnserved, Gone, Speaks,
                Launched, Launches, TypeOK, Configs
  <2> QED BY <1>1, <1>5, <2>1, <2>2 DEF Fallback
<1>6. CASE Ask \/ Play
  <2>1. roll'.fallback = roll.fallback /\ rows' = rows
    BY <1>6 DEF Ask, Play, TypeOK, Roll
  <2> QED BY <1>3, <2>1 DEF CalmIsServed
<1>7. CASE FinishEpisode
  <2>1. rows' = Append(rows, Row) /\ rows \in Rows /\ Row.fallback = roll.fallback
    BY <1>7 DEF FinishEpisode, TypeOK, Row
  <2>2. \A i \in DOMAIN rows' : rows'[i].fallback = 0
    BY <1>3, <2>1 DEF Rows
  <2>3. roll'.fallback = roll.fallback
    BY <1>7 DEF FinishEpisode, TypeOK, Roll
  <2> QED BY <1>3, <2>2, <2>3 DEF CalmIsServed
<1>8. CASE SimEnded
  <2>1. \A i \in DOMAIN rows' : rows'[i].fallback = 0
    BY <1>3, <1>8 DEF SimEnded, Records
  <2> QED BY <1>3, <1>8, <2>1 DEF SimEnded, CalmIsServed
<1>9. CASE UNCHANGED <<roll, rows>>
  BY <1>3, <1>9 DEF CalmIsServed
<1> QED BY <1>4, <1>5, <1>6, <1>7, <1>8, <1>9 DEF Next, Host, Evaluator, BuildBackend, SetUp,
     Launch, WaitHealthy, Describe, AskRaises, StepRaises, LaunchSim, SimTimeout, Handle, Stop,
     Close, Write, SimHealthy, SimReset, SimEpisode, SimFails, SimMoves, Interrupt, Killed,
     ServiceReady, ServiceFails, ServiceRestarts, vars

-----------------------------------------------------------------------------
(* Chunks, and the records of the episodes.                                 *)

LEMMA ChunkNext ==
  ASSUME TypeOK, ChunkOfThisEpisode, [Next]_vars
  PROVE  ChunkOfThisEpisode'
<1>1. CASE ResetEpisode
  <2>1. pc' = "step" => roll'.chunk.left = 0
    BY <1>1, FreshTyped, RollFields DEF ResetEpisode, Raise
  <2> QED BY <2>1 DEF ChunkOfThisEpisode
<1>2. CASE Ask
  <2>1. roll'.chunk.of = roll.ep /\ roll'.ep = roll.ep
    BY <1>2 DEF Ask, TypeOK, Roll
  <2> QED BY <2>1 DEF ChunkOfThisEpisode
<1>3. CASE Play
  <2>1. /\ roll'.chunk.of = roll.chunk.of /\ roll'.ep = roll.ep /\ pc = "step"
        /\ roll.chunk.left > 0
    BY <1>3 DEF Play, Stepping, TypeOK, Roll
  <2> QED BY <2>1 DEF ChunkOfThisEpisode
<1>4. CASE Fallback
  <2>1. /\ roll'.chunk = roll.chunk /\ roll'.ep = roll.ep /\ pc' = pc
    BY <1>4 DEF Fallback, TypeOK, Roll
  <2> QED BY <2>1 DEF ChunkOfThisEpisode
<1>5. CASE UNCHANGED <<pc, roll>>
  BY <1>5 DEF ChunkOfThisEpisode
<1>6. CASE pc' # "step"
  BY <1>6 DEF ChunkOfThisEpisode
<1> QED BY <1>1, <1>2, <1>3, <1>4, <1>5, <1>6 DEF Next, Host, Evaluator, BuildBackend, SetUp,
     Launch, WaitHealthy, Describe, AskRaises, StepRaises, FinishEpisode, LaunchSim, SimEnded,
     SimTimeout, Handle, Stop, Close, Write, SimHealthy, SimReset, SimEpisode, SimFails,
     SimMoves, Interrupt, Killed, Raise, ServiceReady, ServiceFails, ServiceRestarts, vars

LEMMA WholeByEvaluator ==
  ASSUME TypeOK, WholeInv, StoppedInv, Evaluator
  PROVE  WholeInv'
<1>1. /\ UNCHANGED <<pc, fault, roll, rows, config>>
      /\ sim.state \in {"health", "reset", "act"} /\ sim.ep \in Ids
      /\ config.seeds \in 0..Episodes
  BY SeedsAre DEF Evaluator, SimHealthy, SimReset, SimEpisode, SimFails, SimMoves, TypeOK, Sim
<1>2. pc \notin {"backend", "setup", "launch", "health", "describe", "simulate"}
  BY <1>1 DEF StoppedInv
<1>3. pc = "wait" => raw = 1..(sim.ep - 1)
  BY <1>1 DEF WholeInv
<1>4. CASE SimEpisode
  <2>1. raw' = raw \cup {sim.ep} /\ sim.ep <= config.seeds
    BY <1>4 DEF SimEpisode, WholeInv
  <2>2. CASE sim.ep = config.seeds
    <3>1. sim'.state = "exited"
      BY <1>4, <2>2 DEF SimEpisode, TypeOK, Sim
    <3>2. pc = "wait" => raw' = 1..config.seeds
      BY <1>1, <1>3, <2>1, <2>2, Bounds DEF Ids
    <3> QED BY <1>1, <1>2, <3>1, <3>2 DEF WholeInv, Stepped
  <2>3. CASE sim.ep # config.seeds
    <3>1. sim'.state = "reset" /\ sim'.ep = sim.ep + 1
      BY <1>4, <2>3 DEF SimEpisode
    <3>2. sim'.ep <= config.seeds
      BY <1>1, <2>1, <2>3, <3>1, Bounds DEF Ids
    <3>3. pc = "wait" => raw' = 1..(sim'.ep - 1)
      BY <1>1, <1>3, <2>1, <3>1, Bounds DEF Ids
    <3> QED BY <1>1, <1>2, <3>1, <3>2, <3>3 DEF WholeInv, Stepped
  <2> QED BY <2>2, <2>3
<1>5. CASE SimHealthy
  <2>1. /\ raw' = raw /\ sim'.ep = sim.ep /\ sim.ep = 1
        /\ sim'.state \in {"failed", "exited", "reset"}
        /\ sim'.state = "exited" => config.seeds = 0
        /\ sim'.state = "reset" => config.seeds # 0
    BY <1>5 DEF SimHealthy, SimMoves, TypeOK, Sim, WholeInv
  <2>2. pc = "wait" => raw' = {}
    BY <1>3, <2>1
  <2>3. 1..0 = {} /\ 1 - 1 = 0
    OBVIOUS
  <2>4. sim'.state = "reset" => sim'.ep <= config.seeds
    BY <1>1, <2>1, Bounds
  <2> QED BY <1>1, <1>2, <2>1, <2>2, <2>3, <2>4 DEF WholeInv, Stepped
<1>6. CASE SimReset \/ SimFails
  <2>1. /\ raw' = raw /\ sim'.ep = sim.ep /\ sim'.state \in {"act", "failed", "stuck"}
        /\ sim'.state = "act" => sim.state = "reset"
    BY <1>6 DEF SimReset, SimFails, SimMoves, TypeOK, Sim
  <2> QED BY <1>1, <1>2, <1>3, <2>1 DEF WholeInv, Stepped
<1> QED BY <1>4, <1>5, <1>6 DEF Evaluator

LEMMA WholeByHost ==
  ASSUME TypeOK, WholeInv, Host
  PROVE  WholeInv'
<1>1. CASE FinishEpisode
  <2>1. /\ rows' = Append(rows, Row) /\ Row.ep = roll.ep /\ rows \in Rows
        /\ Len(rows) = roll.ep - 1 /\ roll.ep \in Ids
        /\ \A i \in 1..Len(rows) : rows[i].ep = i
    BY <1>1, RollFields DEF FinishEpisode, WholeInv, Row, TypeOK
  <2>2. Len(rows') = roll.ep /\ \A i \in 1..Len(rows') : rows'[i].ep = i
    BY <2>1 DEF Rows, Ids
  <2>3. /\ UNCHANGED <<fault, sim, config>>
        /\ IF roll.ep = Episodes THEN pc' = "stop" ELSE pc' = "reset" /\ roll'.ep = roll.ep + 1
    BY <1>1 DEF FinishEpisode, TypeOK, Roll
  <2>4. Stepped /\ config.seeds = Episodes
    BY <1>1, SeedsAre DEF FinishEpisode, WholeInv, TypeOK
  <2> QED BY <2>1, <2>2, <2>3, <2>4 DEF WholeInv, Ids, Stepped
<1>2. CASE SimEnded
  <2>1. sim'.state = "gone" /\ config' = config
    BY <1>2 DEF SimEnded, TypeOK, Sim
  <2>2. CASE sim.state = "exited" /\ rows' = Records /\ pc' = "stop" /\ UNCHANGED fault
    <3>1. rows' = Evaluated
      BY <1>2, <2>2 DEF SimEnded, WholeInv, Records, Evaluated
    <3>2. Len(rows') = config.seeds /\ \A i \in 1..Len(rows') : rows'[i].ep = i
      BY <3>1, EvaluatedIs DEF TypeOK
    <3> QED BY <1>2, <2>1, <2>2, <3>2 DEF WholeInv
  <2>3. CASE (Raise("failure") \/ Raise("error")) /\ UNCHANGED rows
    BY <1>2, <2>1, <2>3 DEF SimEnded, Raise, WholeInv
  <2> QED BY <1>2, <2>2, <2>3 DEF SimEnded
<1>3. CASE ResetEpisode
  <2>1. CASE roll' = Fresh(roll.ep) /\ pc' = "step"
    <3>1. roll'.ep = roll.ep
      BY <2>1 DEF Fresh
    <3> QED BY <1>3, <2>1, <3>1 DEF ResetEpisode, WholeInv, Stepped
  <2>2. CASE Raise("error")
    BY <1>3, <2>2 DEF ResetEpisode, Raise, WholeInv, Stepped
  <2> QED BY <1>3, <2>1, <2>2 DEF ResetEpisode
<1>4. CASE Ask \/ Fallback \/ Play
  <2>1. /\ roll'.ep = roll.ep /\ UNCHANGED <<rows, raw, sim, config>> /\ pc = "step"
        /\ \/ pc' = pc /\ fault' = fault
           \/ pc' = "handler" /\ fault' = "error"
    BY <1>4 DEF Ask, Fallback, Play, Stepping, Raise, TypeOK, Roll
  <2> QED BY <2>1 DEF WholeInv, Stepped
<1>5. CASE Describe
  <2>1. rows = <<>> /\ roll.ep = 1
    BY <1>5 DEF Describe, WholeInv
  <2> QED BY <1>5, <2>1 DEF Describe, Raise, WholeInv, Stepped
<1>6. CASE LaunchSim
  <2>1. raw = {} /\ sim.ep = 1 /\ sim \in Sim
    BY <1>6 DEF LaunchSim, WholeInv, TypeOK
  <2>2. CASE pc' = "wait" /\ sim' = [sim EXCEPT !.state = "health"]
    <3>1. sim'.ep = 1 /\ sim'.state = "health"
      BY <2>1, <2>2 DEF Sim
    <3>2. 1..(sim'.ep - 1) = {}
      BY <3>1
    <3> QED BY <1>6, <2>1, <2>2, <3>1, <3>2 DEF LaunchSim, WholeInv
  <2>3. CASE Raise("failure") \/ Raise("error")
    BY <1>6, <2>3 DEF LaunchSim, Raise, WholeInv
  <2> QED BY <1>6, <2>2, <2>3 DEF LaunchSim
<1>7. CASE \/ BuildBackend \/ SetUp \/ Launch \/ WaitHealthy \/ AskRaises \/ StepRaises
           \/ Handle \/ Stop \/ Close \/ Write
  BY <1>7 DEF BuildBackend, SetUp, Launch, WaitHealthy, AskRaises, Stepping, StepRaises,
              Handle, Stop, Close, Write, Raise, WholeInv, Stepped
<1>8. CASE SimTimeout
  <2>1. /\ UNCHANGED <<config, roll, raw, rows>> /\ pc' \in {"handler", "stop"} /\ fault' # "none"
        /\ sim' = sim \/ sim'.state = "gone"
    BY <1>8 DEF SimTimeout, StopSim, Raise, TypeOK, Sim
  <2> QED BY <2>1 DEF WholeInv
<1> QED BY <1>1, <1>2, <1>3, <1>4, <1>5, <1>6, <1>7, <1>8 DEF Host

LEMMA WholeNext == TypeOK /\ StoppedInv /\ WholeInv /\ [Next]_vars => WholeInv'
<1> SUFFICES ASSUME TypeOK, StoppedInv, WholeInv, [Next]_vars PROVE WholeInv'
  OBVIOUS
<1>1. CASE Interrupt \/ Killed
  <2>1. /\ UNCHANGED <<rows, raw, roll, config>> /\ pc' \in {"stop", "handler", "killed"}
        /\ pc' # "killed" => fault' # "none"
        /\ sim' = sim \/ sim'.state = "gone"
    BY <1>1 DEF Interrupt, StopSim, Killed, Raise, TypeOK, Sim
  <2> QED BY <2>1 DEF WholeInv
<1>2. CASE ServiceReady \/ ServiceFails \/ ServiceRestarts \/ UNCHANGED vars
  BY <1>2 DEF ServiceReady, ServiceFails, ServiceRestarts, vars, WholeInv, Stepped
<1> QED BY <1>1, <1>2, WholeByEvaluator, WholeByHost DEF Next

LEMMA SucceededNext ==
  ASSUME TypeOK, StoppedInv, WholeInv, SucceededIsWhole, [Next]_vars
  PROVE  SucceededIsWhole'
<1>1. CASE Write
  BY <1>1 DEF Write, WholeInv, SucceededIsWhole, Ids
<1>2. CASE ~Write
  <2>1. SUFFICES ASSUME "status" \in files' PROVE SucceededIsWhole'
    BY DEF SucceededIsWhole
  <2>2. "status" \in files
    BY <1>2, <2>1 DEF Next, Host, Evaluator, BuildBackend, SetUp, Setup, Launch, WaitHealthy,
       Describe, ResetEpisode, Ask, Fallback, AskRaises, Play, StepRaises, FinishEpisode,
       LaunchSim, SimEnded, SimTimeout, Handle, Stop, Close, SimHealthy, SimReset, SimEpisode,
       SimFails, SimMoves, Interrupt, Killed, ServiceReady, ServiceFails, ServiceRestarts, vars
  <2>3. pc \in {"done", "raised"}
    BY <2>2 DEF StoppedInv
  <2>4. UNCHANGED <<fault, rows, config>>
    BY <1>2, <2>3 DEF Next, Host, Evaluator, BuildBackend, SetUp, Launch, WaitHealthy,
       Describe, ResetEpisode, Ask, Fallback, Stepping, AskRaises, Play, StepRaises,
       FinishEpisode, LaunchSim, SimEnded, SimTimeout, Handle, Stop, Close, SimHealthy, SimReset,
       SimEpisode, SimFails, SimMoves, Interrupt, Killed, Over, ServiceReady, ServiceFails,
       ServiceRestarts, vars
  <2> QED BY <2>2, <2>4 DEF SucceededIsWhole
<1> QED BY <1>1, <1>2

-----------------------------------------------------------------------------
(* The theorems.                                                            *)

Inductive == TypeOK /\ IndInv

LEMMA InductiveInit == Init => Inductive
<1> SUFFICES ASSUME Init PROVE Inductive
  OBVIOUS
<1>1. /\ Fresh(1) \in Roll /\ Fresh(1).fallback = 0 /\ Fresh(1).steps = 0
      /\ Fresh(1).ep = 1 /\ 1 \in Ids /\ 0 \in 0..MaxRestarts
  BY FreshTyped, Bounds
<1>2. service \in Service /\ sim \in Sim /\ service.state \in {"absent", "ready"}
  BY <1>1 DEF Init, Service, Sim
<1>3. <<>> \in Rows /\ Len(<<>>) = 0 /\ DOMAIN <<>> = {} /\ 1..0 = {}
  BY DEF Rows
<1>4. TypeOK
  <2>1. roll \in Roll /\ roll.fallback <= roll.steps
    BY <1>1 DEF Init
  <2>2. rows \in Rows /\ Len(rows) <= Episodes /\ raw \subseteq Ids /\ files = {}
    BY <1>3, Bounds DEF Init
  <2>3. /\ config \in Configs /\ pc = "backend" /\ fault = "none" /\ backend = "none"
        /\ restarts \in 0..MaxRestarts /\ calm = TRUE /\ handle = FALSE /\ simLog = "none"
        /\ socket = FALSE /\ left = {}
    BY <1>1 DEF Init
  <2> QED BY <1>2, <2>1, <2>2, <2>3 DEF TypeOK
<1>5. StoppedInv /\ CalmInv
  BY DEF Init, StoppedInv, CalmInv, Launched, SimRuns
<1>6. WholeInv
  BY <1>1, <1>3 DEF Init, WholeInv
<1>7. ReportedIsStopped /\ SucceededIsWhole /\ ChunkOfThisEpisode /\ CalmIsServed
  BY <1>1, <1>3 DEF Init, ReportedIsStopped, SucceededIsWhole, ChunkOfThisEpisode, CalmIsServed
<1> QED BY <1>4, <1>5, <1>6, <1>7 DEF Inductive, IndInv

LEMMA InductiveNext == Inductive /\ [Next]_vars => Inductive'
BY TypeNext, StoppedNext, CalmNext, WholeNext, ReportedNext, SucceededNext, ChunkNext, ServedNext
   DEF Inductive, IndInv

(* Every variable of the run keeps its type, whatever fails in it.         *)
THEOREM TypeCorrect == Spec => []TypeOK
<1>1. Inductive => TypeOK
  BY DEF Inductive
<1> QED BY <1>1, InductiveInit, InductiveNext, PTL DEF Spec

(* A status on disk means that the service the run launched, its evaluator *)
(* and its simulator have been stopped, however the run ended.             *)
THEOREM ReportedRunIsStopped == Spec => []ReportedIsStopped
<1>1. Inductive => ReportedIsStopped
  BY DEF Inductive, IndInv
<1> QED BY <1>1, InductiveInit, InductiveNext, PTL DEF Spec

(* A run is reported as succeeded only with a record of every episode, in  *)
(* order, whether the host or an evaluator process ran them.               *)
THEOREM SuccessIsWhole == Spec => []SucceededIsWhole
<1>1. Inductive => SucceededIsWhole
  BY DEF Inductive, IndInv
<1> QED BY <1>1, InductiveInit, InductiveNext, PTL DEF Spec

(* An action is executed in the episode whose observation it answers.      *)
THEOREM ChunkIsOwn == Spec => []ChunkOfThisEpisode
<1>1. Inductive => ChunkOfThisEpisode
  BY DEF Inductive, IndInv
<1> QED BY <1>1, InductiveInit, InductiveNext, PTL DEF Spec

(* A service that answered whenever it was asked has served every step: no *)
(* step of any episode falls back.                                         *)
THEOREM CalmServiceServes == Spec => []CalmIsServed
<1>1. Inductive => CalmIsServed
  BY DEF Inductive, IndInv
<1> QED BY <1>1, InductiveInit, InductiveNext, PTL DEF Spec
=============================================================================
