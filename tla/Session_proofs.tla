--------------------------- MODULE Session_proofs ---------------------------
(***************************************************************************)
(* The session, for any selections, addresses, builds and episodes: an     *)
(* open tracker has its own planner's mailboxes, a rebuild closes it at    *)
(* rest, and an episode that ended in HOLD is filed under its selection,   *)
(* whatever the worker, the key reader and the watcher do between each     *)
(* other's steps.                                                          *)
(***************************************************************************)
EXTENDS Session, TLAPS

USE DEF built, wire, process, records, Idle, HasLifecycle

-----------------------------------------------------------------------------
(* Types.                                                                   *)

Markers == (Addresses \X (0..MaxEpisodes)) \cup {<<>>}

LEMMA LifeTyped ==
  ASSUME NEW l \in Lives
  PROVE  /\ \A state \in States : [l EXCEPT !.state = state] \in Lives
         /\ \A state \in States, n \in 0..MaxEpisodes :
              [l EXCEPT !.state = state, !.episode = n] \in Lives
         /\ l # NoBuild
<1>1. l.build # 0
  BY BoundsAssumption DEF Lives
<1>2. l # NoBuild
  BY <1>1 DEF NoBuild
<1>3. ASSUME NEW state \in States PROVE [l EXCEPT !.state = state] \in Lives
  BY DEF Lives
<1>4. ASSUME NEW state \in States, NEW n \in 0..MaxEpisodes
      PROVE  [l EXCEPT !.state = state, !.episode = n] \in Lives
  BY DEF Lives
<1> QED BY <1>2, <1>3, <1>4

LEMMA WriterTyped ==
  ASSUME NEW state
  PROVE  WriterOf(state) \in {"off", "damp", "owns"}
BY DEF WriterOf

(* What is written of an episode is a record, with a place for its label.  *)
LEMMA EpisodeTyped ==
  ASSUME TypeOK, HasLifecycle, NEW end \in {"hold", "fault", "damp"}
  PROVE  /\ Episode(end) \in Record
         /\ [Episode(end) EXCEPT !.kept = TRUE, !.labels = {selection}] \in Record
         /\ Marker \in Markers
<1>1. life \in Lives /\ selection \in Selections
  BY DEF TypeOK
<1>2. life.sel \in Selections /\ life.addr \in Addresses /\ life.episode \in 0..MaxEpisodes
  BY <1>1 DEF Lives
<1> QED BY <1>1, <1>2 DEF Episode, Record, Marker, Markers

LEMMA WrittenTyped ==
  ASSUME TypeOK, HasLifecycle, NEW end \in {"hold", "fault", "damp"}, Written(end)
  PROVE  marker' \in Markers /\ ended' \in Record
BY EpisodeTyped DEF Written

LEMMA TypeWatcher ==
  ASSUME TypeOK, Poll \/ WatcherMarks \/ WatcherWrites
  PROVE  TypeOK'
<1>1. CASE Poll
  <2>1. life \in Lives /\ life.build \in 1..MaxBuilds /\ life.addr \in Addresses
    BY <1>1 DEF Poll, TypeOK, Lives
  <2>2. life' \in Lives /\ life'.state \in {"fault", "hold"}
    <3>1. PICK state \in {"fault", "hold"} : life' = [life EXCEPT !.state = state]
      BY <1>1 DEF Poll
    <3>2. life' \in Lives
      BY <2>1, <3>1, LifeTyped DEF States, Owning
    <3> QED BY <2>1, <3>1, <3>2 DEF Lives
  <2>3. Episode(life'.state) \in Record
    BY <1>1, <2>2, EpisodeTyped DEF Poll
  <2>4. watcher' \in Writing \cup {NotWriting}
    BY <1>1, <2>1, <2>3 DEF Poll, Writing, TypeOK
  <2>5. life' # NoBuild
    BY <2>2, LifeTyped DEF States, Lives
  <2>6. mode' \in {"off", "damp", "owns"} /\ running' \in BOOLEAN
    BY <1>1 DEF Poll, wire, TypeOK
  <2>7. UNCHANGED <<config, selection, builtFor, builds, open, process, worker, after,
                    marker, ended>>
    BY <1>1 DEF Poll
  <2> QED BY <2>2, <2>4, <2>5, <2>6, <2>7 DEF process, TypeOK
<1>2. CASE WatcherMarks
  <2>1. watcher \in Writing /\ watcher.of \in Record
    BY <1>2 DEF WatcherMarks, TypeOK, Writing, NotWriting
  <2>2. [watcher EXCEPT !.step = "write", !.of.labels = {selection}] \in Writing
    BY <2>1 DEF TypeOK, Writing, Record
  <2>3. HasLifecycle => Marker \in Markers
    BY EpisodeTyped
  <2> QED BY <1>2, <2>1, <2>2, <2>3 DEF WatcherMarks, TypeOK, Markers
<1>3. CASE WatcherWrites
  <2>1. watcher \in Writing /\ watcher.of \in Record
    BY <1>3 DEF WatcherWrites, TypeOK, Writing, NotWriting
  <2>2. [watcher.of EXCEPT !.kept = TRUE, !.labels = @ \cup {selection}] \in Record
    BY <2>1 DEF TypeOK, Record
  <2> QED BY <1>3, <2>1, <2>2 DEF WatcherWrites, TypeOK
<1> QED BY <1>1, <1>2, <1>3

LEMMA TypeKeys ==
  ASSUME TypeOK, OpenInv, Keys
  PROVE  TypeOK'
<1>1. life \in Lives \cup {NoBuild} /\ selection \in Selections /\ MaxEpisodes \in Nat
  BY BoundsAssumption DEF TypeOK
<1>2. ASSUME NEW state \in States, HasLifecycle, life' = [life EXCEPT !.state = state]
      PROVE  life' \in Lives /\ life' # NoBuild
  BY <1>1, <1>2, LifeTyped DEF Lives
<1>3. CASE Reconfigure
  BY <1>3 DEF Reconfigure, TypeOK
<1>4. CASE StopPlanner \/ TogglePlanner
  BY <1>4 DEF StopPlanner, TogglePlanner, TypeOK
<1>5. CASE Rebuild \/ ClimbUnbuilt
  BY <1>5 DEF Rebuild, ClimbUnbuilt, RebuildThen, TypeOK
<1>6. CASE Climb
  <2>1. HasLifecycle /\ life \in Lives
    BY <1>1, <1>6 DEF Climb, OpenInv, IsBuilt
  <2>2. \A state \in {"idle", "ladder"}, n \in Count :
          [life EXCEPT !.state = state, !.episode = n] \in Lives
    <3>1. ASSUME NEW state \in {"idle", "ladder"}, NEW n \in Count
          PROVE  [life EXCEPT !.state = state, !.episode = n] \in Lives
      <4>1. n \in 0..MaxEpisodes
        BY <1>1, <2>1 DEF Count, Lives
      <4> QED BY <2>1, <4>1, LifeTyped DEF States, Owning
    <3> QED BY <3>1
  <2>3. life' \in Lives /\ mode' \in {"off", "damp", "owns"} /\ running' \in BOOLEAN
    <3>1. \/ \E state \in {"idle", "ladder"}, writer \in {"off", "damp", "owns"},
               n \in Count :
               mode' = writer /\ life' = [life EXCEPT !.state = state, !.episode = n]
          \/ UNCHANGED <<life, mode>>
      BY <1>6 DEF Climb, wire
    <3>2. running' \in BOOLEAN
      <4>1. running' = running \/ running' \in BOOLEAN
        BY <1>6, Zenon DEF Climb, wire
      <4>2. running \in BOOLEAN
        BY DEF TypeOK
      <4> QED BY <4>1, <4>2, Zenon
    <3>3. life' \in Lives
      <4>1. CASE life' = life
        BY <2>1, <4>1
      <4>2. CASE life' # life
        <5>1. PICK state \in {"idle", "ladder"}, n \in Count :
                life' = [life EXCEPT !.state = state, !.episode = n]
          BY <3>1, <4>2
        <5> QED BY <2>2, <5>1
      <4> QED BY <4>1, <4>2
    <3>4. mode' \in {"off", "damp", "owns"}
      BY <3>1 DEF TypeOK
    <3> QED BY <3>2, <3>3, <3>4
  <2>4. life' # NoBuild
    BY <2>3, LifeTyped DEF States, Lives
  <2> QED BY <1>6, <2>3, <2>4 DEF Climb, TypeOK
<1>7. CASE Go
  BY <1>1, <1>2, <1>7 DEF Go, TypeOK, States, Owning, IsBuilt
<1>8. CASE Hold
  BY <1>1, <1>2, <1>8, WrittenTyped DEF Hold, TypeOK, States, Owning, IsBuilt, Markers
<1>9. CASE Retake
  <2>1. /\ life \in Lives /\ life.episode + 1 \in 0..MaxEpisodes
        /\ life' = [life EXCEPT !.state = "ladder", !.episode = life.episode + 1]
    BY <1>1, <1>9 DEF Retake, IsBuilt, Lives
  <2>2. life' \in Lives /\ life' # NoBuild
    BY <2>1, LifeTyped DEF States, Owning, Lives
  <2> QED BY <1>9, <2>2 DEF Retake, TypeOK
<1>10. CASE Damp
  BY <1>1, <1>2, <1>10, WrittenTyped, WriterTyped DEF Damp, DampTo, EndsRun, TypeOK, Markers
<1>11. CASE Recover
  BY <1>1, <1>2, <1>11, WriterTyped DEF Recover, TypeOK, States
<1>12. CASE ResetSim
  BY <1>12 DEF ResetSim, TypeOK
<1>13. CASE ResetForgets
  BY <1>13 DEF ResetForgets, TypeOK, OpenInv
<1> QED BY <1>3, <1>4, <1>5, <1>6, <1>7, <1>8, <1>9, <1>10, <1>11, <1>12, <1>13 DEF Keys

LEMMA TypeBuilding ==
  ASSUME TypeOK, OpenInv, Building
  PROVE  TypeOK'
<1>1. /\ life \in Lives \cup {NoBuild} /\ selection \in Selections
      /\ planner \in Planner \cup {NoPlanner, Dead} /\ mailboxes \in Mailbox \cup {Nothing}
  BY DEF TypeOK
<1>2. CASE StartPlanner
  <2>1. [alive |-> TRUE, sel |-> selection, made |-> FALSE] \in Planner
    BY <1>1 DEF Planner
  <2> QED BY <1>2, <2>1 DEF StartPlanner, TypeOK
<1>3. CASE WaitSlots
  BY <1>3 DEF WaitSlots, TypeOK
<1>4. CASE WaitSlotsTimeout
  <2>1. planner.alive => MadeBy(planner) \in Mailbox
    <3>1. planner.alive => planner \in Planner
      BY <1>1 DEF NoPlanner, Dead
    <3> QED BY <3>1 DEF MadeBy, Mailbox, Planner
  <2> QED BY <1>4, <2>1 DEF WaitSlotsTimeout, TypeOK
<1>5. CASE RebuildShutdown
  <2>1. /\ life' \in Lives \cup {NoBuild} /\ mode' \in {"off", "damp", "owns"}
        /\ open => life' # NoBuild
    <3>1. CASE life' = life /\ mode' = mode
      BY <3>1 DEF TypeOK
    <3>2. ASSUME NEW state \in States, life \in Lives, life' = [life EXCEPT !.state = state],
                 mode' = IF state = life.state THEN mode ELSE WriterOf(state)
          PROVE  /\ life' \in Lives \cup {NoBuild} /\ mode' \in {"off", "damp", "owns"}
                 /\ open => life' # NoBuild
      <4>1. life' \in Lives /\ life' # NoBuild
        BY <3>2, LifeTyped DEF Lives
      <4> QED BY <3>2, <4>1, WriterTyped DEF TypeOK
    <3> QED BY <1>1, <1>5, <3>1, <3>2 DEF RebuildShutdown
  <2> QED BY <1>5, <2>1 DEF RebuildShutdown, TypeOK
<1>6. CASE RebuildClose
  BY <1>6 DEF RebuildClose, TypeOK
<1>7. CASE RebuildPlanner
  BY <1>7 DEF RebuildPlanner, TypeOK
<1>8. CASE Build
  <2>1. mailboxes \in Mailbox /\ [mailboxes EXCEPT !.used = TRUE] \in Mailbox
    BY <1>1, <1>8 DEF Build, Mailbox
  <2>2. builds + 1 \in 0..MaxBuilds /\ builds + 1 \in 1..MaxBuilds /\ 0 \in 0..MaxEpisodes
    BY <1>8, BoundsAssumption DEF Build, TypeOK
  <2>3. life' \in Lives
    BY <1>1, <1>8, <2>1, <2>2 DEF Build, Lives, States
  <2>4. life' # NoBuild
    BY <2>3, LifeTyped DEF States, Lives
  <2> QED BY <1>1, <1>8, <2>1, <2>2, <2>3, <2>4 DEF Build, TypeOK
<1>9. CASE BuildFails
  BY <1>9 DEF BuildFails, TypeOK, OpenInv
<1> QED BY <1>2, <1>3, <1>4, <1>5, <1>6, <1>7, <1>8, <1>9 DEF Building

LEMMA TypeWorld ==
  ASSUME TypeOK, RunEnds \/ WriterDamps \/ PlannerCreates \/ PlannerDies \/ EmergencyDamp
  PROVE  TypeOK'
<1>1. planner \in Planner \cup {NoPlanner, Dead} /\ mailboxes \in Mailbox \cup {Nothing}
  BY DEF TypeOK
<1>2. CASE RunEnds
  <2>1. {open, running}' \subseteq BOOLEAN
    BY <1>2, Zenon DEF RunEnds, TypeOK
  <2> QED BY <1>2, <2>1 DEF RunEnds, TypeOK
<1>6. CASE WriterDamps
  BY <1>6 DEF WriterDamps, TypeOK
<1>3. CASE PlannerCreates
  <2>1. planner \in Planner
    BY <1>1, <1>3 DEF PlannerCreates, NoPlanner, Dead
  <2>2. MadeBy(planner) \in Mailbox /\ [planner EXCEPT !.made = TRUE] \in Planner
    BY <2>1 DEF MadeBy, Mailbox, Planner
  <2> QED BY <1>3, <2>2 DEF PlannerCreates, TypeOK
<1>4. CASE PlannerDies
  BY <1>4 DEF PlannerDies, TypeOK
<1>5. CASE EmergencyDamp
  BY <1>5 DEF EmergencyDamp, TypeOK
<1> QED BY <1>2, <1>3, <1>4, <1>5, <1>6

LEMMA TypeNext == TypeOK /\ OpenInv /\ [Next]_vars => TypeOK'
<1> SUFFICES ASSUME TypeOK, OpenInv, [Next]_vars PROVE TypeOK'
  OBVIOUS
<1>1. CASE UNCHANGED vars
  BY <1>1 DEF vars, TypeOK
<1> QED BY <1>1, TypeWatcher, TypeKeys, TypeBuilding, TypeWorld DEF Next, World

-----------------------------------------------------------------------------
(* The steps by what they leave alone.                                      *)

(* The watcher and the robot do nothing of the worker's.                   *)
LEMMA WorldLeaves ==
  ASSUME World
  PROVE  /\ UNCHANGED <<config, selection, builtFor, builds, open, after>>
         /\ worker' \in {worker, "gone"}
BY DEF World, Poll, WatcherMarks, WatcherWrites, RunEnds, WriterDamps, PlannerCreates,
       PlannerDies, EmergencyDamp

LEMMA OpenNext ==
  ASSUME TypeOK, OpenInv, [Next]_vars
  PROVE  OpenInv'
<1>1. CASE World
  <2>1. HasLifecycle => HasLifecycle'
    <3>1. CASE Poll
      <4>1. PICK state \in {"fault", "hold"} : life' = [life EXCEPT !.state = state]
        BY <3>1 DEF Poll
      <4>2. life' \in Lives
        BY <3>1, <4>1, LifeTyped DEF TypeOK, Poll, States, Owning
      <4> QED BY <4>2, LifeTyped
    <3>2. CASE ~Poll
      BY <1>1, <3>2 DEF World, WatcherMarks, WatcherWrites, RunEnds, WriterDamps,
                        PlannerCreates, PlannerDies, EmergencyDamp
    <3> QED BY <3>1, <3>2
  <2> QED BY <1>1, <2>1, WorldLeaves DEF OpenInv
<1>2. CASE Keys
  BY <1>2 DEF Keys, OpenInv, Reconfigure, StopPlanner, TogglePlanner, Rebuild, ClimbUnbuilt,
              RebuildThen, Climb, Go, Hold, Retake, Damp, Recover, ResetSim, ResetForgets
<1>3. CASE Build
  <2>1. TypeOK'
    BY <1>3, TypeBuilding DEF Building
  <2> QED BY <1>3, <2>1 DEF Build, OpenInv, TypeOK
<1>4. CASE Building /\ ~Build
  BY <1>4 DEF Building, OpenInv, StartPlanner, WaitSlots, WaitSlotsTimeout, RebuildShutdown,
              RebuildClose, RebuildPlanner, BuildFails
<1>5. CASE UNCHANGED vars
  BY <1>5 DEF vars, OpenInv
<1> QED BY <1>1, <1>2, <1>3, <1>4, <1>5 DEF Next

(* The planner comes and goes; the selection stays while it is awaited.    *)
LEMMA FreshNext ==
  ASSUME TypeOK, FreshInv, [Next]_vars
  PROVE  FreshInv'
<1>1. CASE PlannerCreates
  <2>1. planner \in Planner
    BY <1>1 DEF PlannerCreates, TypeOK, NoPlanner, Dead
  <2>2. planner'.sel = planner.sel /\ planner'.alive
    BY <1>1, <2>1 DEF PlannerCreates, Planner
  <2> QED BY <1>1, <2>2 DEF PlannerCreates, MadeBy, FreshInv
<1>2. CASE PlannerDies
  BY <1>2 DEF PlannerDies, Dead, FreshInv
<1>3. CASE World /\ ~PlannerCreates /\ ~PlannerDies
  <2>1. UNCHANGED <<planner, mailboxes>>
    BY <1>3 DEF World, Poll, WatcherMarks, WatcherWrites, RunEnds, WriterDamps, EmergencyDamp
  <2> QED BY <1>3, <2>1, WorldLeaves DEF FreshInv
<1>4. CASE Keys
  <2>1. worker' \notin {"wait", "build"}
    BY <1>4 DEF Keys, Reconfigure, StopPlanner, TogglePlanner, Rebuild, ClimbUnbuilt,
                RebuildThen, Climb, Go, Hold, Retake, Damp, Recover, ResetSim, ResetForgets
  <2> QED BY <2>1 DEF FreshInv
<1>5. CASE StartPlanner
  BY <1>5 DEF StartPlanner, FreshInv
<1>6. CASE WaitSlots
  BY <1>6 DEF WaitSlots, FreshInv
<1>7. CASE Building /\ ~StartPlanner /\ ~WaitSlots
  <2>1. worker' \notin {"wait", "build"}
    BY <1>7 DEF Building, WaitSlotsTimeout, RebuildShutdown, RebuildClose, RebuildPlanner,
                Build, BuildFails
  <2> QED BY <2>1 DEF FreshInv
<1>8. CASE UNCHANGED vars
  BY <1>8 DEF vars, FreshInv
<1> QED BY <1>1, <1>2, <1>3, <1>4, <1>5, <1>6, <1>7, <1>8 DEF Next

-----------------------------------------------------------------------------
(* Rest.                                                                    *)

(* A lifecycle that changes its state is still the same one.               *)
LEMMA LifeFields ==
  ASSUME TypeOK, HasLifecycle, NEW state \in States, life' = [life EXCEPT !.state = state]
  PROVE  /\ life' \in Lives /\ life'.state = state /\ HasLifecycle'
         /\ life'.sel = life.sel /\ life'.build = life.build /\ life'.mail = life.mail
<1>1. life \in Lives
  BY DEF TypeOK
<1>2. life' \in Lives
  BY <1>1, LifeTyped
<1>3. HasLifecycle'
  BY <1>2, LifeTyped
<1> QED BY <1>1, <1>2, <1>3 DEF Lives

LEMMA RestWatcher ==
  ASSUME TypeOK, RestInv, World
  PROVE  RestInv'
<1>1. CASE Poll
  <2>1. PICK state \in {"fault", "hold"} :
          /\ life' = [life EXCEPT !.state = state]
          /\ life.state \in Owning /\ (state = "fault" => mode = "damp")
    BY <1>1 DEF Poll, Owning
  <2>2. HasLifecycle /\ state \in States /\ mode' = mode
    BY <1>1 DEF Poll, States, Owning
  <2>3. /\ life'.state = state /\ HasLifecycle' /\ life'.sel = life.sel
    BY <2>1, <2>2, LifeFields
  <2> QED BY <1>1, <2>1, <2>2, <2>3 DEF Poll, RestInv, Owning
<1>2. CASE ~Poll
  <2>1. UNCHANGED life /\ mode' \in {mode, "damp"}
    BY <1>2 DEF World, WatcherMarks, WatcherWrites, RunEnds, WriterDamps,
                PlannerCreates, PlannerDies, EmergencyDamp
  <2> QED BY <2>1, WorldLeaves DEF RestInv
<1> QED BY <1>1, <1>2

LEMMA RestKeys ==
  ASSUME TypeOK, OpenInv, RestInv, Keys
  PROVE  RestInv'
<1>1. CASE Reconfigure
  BY <1>1 DEF Reconfigure, CanReconfigure, RestInv
<1>2. CASE StopPlanner \/ TogglePlanner
  BY <1>2 DEF StopPlanner, TogglePlanner, RestInv
<1>3. CASE Rebuild \/ ClimbUnbuilt
  BY <1>3 DEF Rebuild, ClimbUnbuilt, RebuildThen, CanReconfigure, RestInv
<1>4. CASE Climb
  <2>1. HasLifecycle /\ selection = life.sel /\ life \in Lives /\ builtFor = {life.sel}
    BY <1>4 DEF Climb, OpenInv, IsBuilt, TypeOK, RestInv
  <2>2. HasLifecycle' /\ life'.sel = life.sel
    <3>1. life'.sel = life.sel /\ life'.build = life.build
      BY <1>4, <2>1 DEF Climb, Lives
    <3>2. life.build # 0
      BY <2>1, BoundsAssumption DEF Lives
    <3> QED BY <3>1, <3>2 DEF NoBuild
  <2>3. mode' = "owns" => open' /\ life'.state \in Owning
    BY <1>4, <2>1 DEF Climb, RestInv, Lives, Owning
  <2> QED BY <1>4, <2>1, <2>2, <2>3 DEF Climb, RestInv
<1>5. CASE Go \/ Hold \/ Retake
  <2>1. /\ HasLifecycle /\ life.state \in Owning /\ life \in Lives /\ open /\ mode' = mode
        /\ UNCHANGED <<selection, builtFor, open>> /\ worker' = "idle"
    BY <1>5 DEF Go, Hold, Retake, IsBuilt, TypeOK, Owning
  <2>2. PICK state \in {"running", "hold", "fault", "ladder"} :
          /\ life'.state = state /\ life'.sel = life.sel /\ life' \in Lives
          /\ state = "fault" => mode = "damp"
    <3>1. CASE Go
      BY <2>1, <3>1 DEF Go, Lives, States, Owning
    <3>2. CASE Hold
      BY <2>1, <3>2 DEF Hold, Lives, States, Owning
    <3>3. CASE Retake
      <4>1. TypeOK' /\ HasLifecycle'
        BY <1>5, <3>3, TypeKeys DEF Keys, TypeOK, Retake
      <4> QED BY <2>1, <3>3, <4>1 DEF Retake, Lives, TypeOK
    <3> QED BY <1>5, <3>1, <3>2, <3>3
  <2>3. HasLifecycle'
    BY <2>2, LifeTyped
  <2> QED BY <2>1, <2>2, <2>3 DEF RestInv, Owning
<1>6. CASE Damp \/ Recover
  <2>1. PICK state \in {"damp", "released", "restored"} :
          life' = [life EXCEPT !.state = state] /\ mode' = WriterOf(state)
    BY <1>6 DEF Damp, DampTo, Recover
  <2>2. HasLifecycle /\ UNCHANGED <<selection, builtFor, open>> /\ worker' = "idle"
    BY <1>6 DEF Damp, DampTo, Recover
  <2>3. life'.state = state /\ life'.sel = life.sel /\ HasLifecycle'
    BY <2>1, <2>2, LifeFields DEF States
  <2> QED BY <2>1, <2>2, <2>3 DEF RestInv, WriterOf, Owning
<1>7. CASE ResetSim
  BY <1>7 DEF ResetSim, RestInv
<1>8. CASE ResetForgets
  BY <1>8 DEF ResetForgets, RestInv, OpenInv
<1> QED BY <1>1, <1>2, <1>3, <1>4, <1>5, <1>6, <1>7, <1>8 DEF Keys

LEMMA RestBuilding ==
  ASSUME TypeOK, OpenInv, RestInv, Building
  PROVE  RestInv'
<1>1. CASE StartPlanner \/ WaitSlots \/ WaitSlotsTimeout \/ RebuildPlanner
  BY <1>1 DEF StartPlanner, WaitSlots, WaitSlotsTimeout, RebuildPlanner, RestInv
<1>2. CASE RebuildShutdown
  <2>1. /\ UNCHANGED <<selection, builtFor, open>> /\ worker' # "climb"
        /\ HasLifecycle => life.state \notin Owning
        /\ mode # "owns"
    BY <1>2 DEF RebuildShutdown, RestInv, TypeOK
  <2>2. CASE life' = life /\ mode' = mode
    BY <2>1, <2>2 DEF RestInv
  <2>3. ASSUME NEW state \in States, HasLifecycle, ShutdownTo(state),
               life' = [life EXCEPT !.state = state],
               mode' = IF state = life.state THEN mode ELSE WriterOf(state)
        PROVE  RestInv'
    <3>1. life'.state = state /\ life'.sel = life.sel /\ HasLifecycle'
      BY <2>3, LifeFields
    <3>2. state \notin Owning
      BY <2>1, <2>3 DEF ShutdownTo, Owning
    <3> QED BY <2>1, <2>3, <3>1, <3>2 DEF RestInv, WriterOf, Owning
  <2> QED BY <1>2, <2>2, <2>3 DEF RebuildShutdown
<1>3. CASE RebuildClose
  BY <1>3 DEF RebuildClose, RestInv
<1>4. CASE Build
  <2>1. life'.state = "idle" /\ life'.sel = selection /\ builtFor' = {selection}
        /\ UNCHANGED <<selection, mode>> /\ worker' \in {"climb", "idle"} /\ mode # "owns"
    BY <1>4 DEF Build, RestInv, OpenInv
  <2> QED BY <2>1 DEF RestInv, Owning
<1>5. CASE BuildFails
  BY <1>5 DEF BuildFails, RestInv, OpenInv
<1> QED BY <1>1, <1>2, <1>3, <1>4, <1>5 DEF Building

LEMMA RestNext == TypeOK /\ OpenInv /\ RestInv /\ [Next]_vars => RestInv'
<1>1. RestInv /\ UNCHANGED vars => RestInv'
  BY DEF vars, RestInv
<1> QED BY <1>1, RestWatcher, RestKeys, RestBuilding DEF Next

-----------------------------------------------------------------------------
(* The mailboxes of an open tracker.                                        *)

LEMMA OwnNext ==
  ASSUME TypeOK, OpenInv, FreshInv, OwnPlanner, [Next]_vars
  PROVE  OwnPlanner'
<1>1. CASE Build
  <2>1. mailboxes = [made |-> TRUE, sel |-> selection, used |-> FALSE]
    BY <1>1 DEF Build, FreshInv
  <2> QED BY <1>1, <2>1 DEF Build, OwnPlanner
<1>2. CASE ~Build
  <2>1. open' => open
    BY <1>2 DEF Next, Keys, Building, World, Reconfigure, StopPlanner, TogglePlanner, Rebuild,
                ClimbUnbuilt, RebuildThen, Climb, Go, Hold, Retake, Damp, Recover, ResetSim,
                ResetForgets, StartPlanner, WaitSlots, WaitSlotsTimeout, RebuildShutdown,
                RebuildClose, RebuildPlanner, BuildFails, Poll, WatcherMarks, WatcherWrites,
                RunEnds, WriterDamps, PlannerCreates, PlannerDies, EmergencyDamp, vars
  <2>2. open' => life \in Lives
    BY <2>1 DEF TypeOK
  <2>3. open' => life'.mail = life.mail /\ life'.sel = life.sel
    <3>1. CASE Climb \/ Go \/ Hold \/ Retake \/ Damp \/ Recover
      BY <2>2, <3>1 DEF Climb, Go, Hold, Retake, Damp, DampTo, Recover, Lives
    <3>2. CASE RebuildShutdown \/ Poll
      BY <2>2, <3>2 DEF RebuildShutdown, Poll, Lives
    <3>3. CASE ResetForgets \/ BuildFails
      BY <2>1, <3>3 DEF ResetForgets, BuildFails, OpenInv
    <3>4. CASE UNCHANGED life
      BY <3>4
    <3> QED BY <1>2, <3>1, <3>2, <3>3, <3>4
            DEF Next, Keys, Building, World, Reconfigure, StopPlanner, TogglePlanner, Rebuild,
                ClimbUnbuilt, RebuildThen, ResetSim, StartPlanner, WaitSlots, WaitSlotsTimeout,
                RebuildClose, RebuildPlanner, WatcherMarks, WatcherWrites,
                RunEnds, WriterDamps, PlannerCreates, PlannerDies, EmergencyDamp, vars
  <2> QED BY <2>1, <2>3 DEF OwnPlanner
<1> QED BY <1>1, <1>2

-----------------------------------------------------------------------------
(* The record of an episode.                                                *)

(* While the watcher holds an episode that ended in HOLD on a robot, no    *)
(* step but its own moves what it writes down.                             *)
LEMMA WatchKeys ==
  ASSUME TypeOK, OpenInv, RestInv, WatchInv, Keys \/ Building
  PROVE  WatchInv'
<1>1. watcher' = watcher /\ config' = config
  BY DEF Keys, Building, Reconfigure, StopPlanner, TogglePlanner, Rebuild,
         ClimbUnbuilt, RebuildThen, Climb, Go, Hold, Retake, Damp, Recover, ResetSim,
         ResetForgets, StartPlanner, WaitSlots, WaitSlotsTimeout, RebuildShutdown,
         RebuildClose, RebuildPlanner, Build, BuildFails
<1>2. ASSUME watcher.step # "none", watcher.of.end = "hold", ~config.sim
      PROVE  open' /\ UNCHANGED <<life, selection>>
  <2>1. /\ open /\ life.build = watcher.build /\ life.state = "hold" /\ HasLifecycle
        /\ ~Unlocked
    BY <1>2 DEF WatchInv, TypeOK, Unlocked
  <2>2. ~CanReconfigure /\ worker \notin {"shutdown", "close", "restart", "build", "reset"}
    BY <2>1 DEF CanReconfigure, Owning, RestInv, OpenInv
  <2> QED BY <1>2, <2>1, <2>2
          DEF Keys, Building, Reconfigure, StopPlanner, TogglePlanner, Rebuild,
              ClimbUnbuilt, RebuildThen, Climb, Go, Hold, Retake, Damp, Recover, ResetSim,
              ResetForgets, StartPlanner, WaitSlots, WaitSlotsTimeout, RebuildShutdown,
              RebuildClose, RebuildPlanner, Build, BuildFails
<1> QED BY <1>1, <1>2 DEF WatchInv

LEMMA WatchWorld ==
  ASSUME TypeOK, RestInv, WatchInv, World
  PROVE  WatchInv'
<1>1. CASE Poll
  <2>1. PICK state \in {"fault", "hold"} : life' = [life EXCEPT !.state = state]
    BY <1>1 DEF Poll
  <2>2. HasLifecycle /\ open /\ watcher.step = "none" /\ UNCHANGED <<open, selection, config>>
    BY <1>1 DEF Poll
  <2>3. life'.state = state /\ life'.build = life.build
    BY <2>1, <2>2, LifeFields DEF States, Owning
  <2>4. CASE life.state = "running"
    <3>1. watcher' = [step |-> "mark", build |-> life.build, addr |-> life.addr,
                      of |-> Episode(life'.state)]
      BY <1>1, <2>4 DEF Poll
    <3>2. selection = life.sel
      BY <2>2, <2>4 DEF RestInv, Owning
    <3>3. /\ watcher'.step = "mark" /\ watcher'.build = life.build /\ ~watcher'.of.kept
          /\ watcher'.of.end = state /\ watcher'.of.sel = selection
      BY <2>3, <3>1, <3>2 DEF Episode
    <3> QED BY <2>2, <2>3, <3>3 DEF WatchInv
  <2>5. CASE life.state # "running"
    BY <1>1, <2>2, <2>5 DEF Poll, WatchInv
  <2> QED BY <2>4, <2>5
<1>2. CASE WatcherMarks
  <2>1. watcher \in Writing /\ watcher.of \in Record
    BY <1>2 DEF WatcherMarks, TypeOK, Writing, NotWriting
  <2>2. CASE watcher' = NotWriting
    BY <2>2 DEF NotWriting, WatchInv
  <2>3. CASE watcher' = [watcher EXCEPT !.step = "write", !.of.labels = {selection}]
    <3>1. /\ watcher'.of.kept = watcher.of.kept /\ watcher'.of.end = watcher.of.end
          /\ watcher'.of.sel = watcher.of.sel /\ watcher'.build = watcher.build
          /\ watcher'.of.labels = {selection}
      BY <2>1, <2>3 DEF Writing, Record
    <3> QED BY <1>2, <3>1 DEF WatcherMarks, WatchInv
  <2> QED BY <1>2, <2>2, <2>3 DEF WatcherMarks
<1>3. CASE WatcherWrites
  BY <1>3 DEF WatcherWrites, NotWriting, WatchInv
<1>4. CASE ~Poll /\ ~WatcherMarks /\ ~WatcherWrites
  <2>1. UNCHANGED <<watcher, life, open, selection, config>>
    BY <1>4 DEF World, RunEnds, WriterDamps, PlannerCreates, PlannerDies, EmergencyDamp
  <2> QED BY <2>1 DEF WatchInv
<1> QED BY <1>1, <1>2, <1>3, <1>4

LEMMA WatchNext == TypeOK /\ OpenInv /\ RestInv /\ WatchInv /\ [Next]_vars => WatchInv'
<1>1. WatchInv /\ UNCHANGED vars => WatchInv'
  BY DEF vars, WatchInv
<1> QED BY <1>1, WatchKeys, WatchWorld DEF Next

(* Four steps write an episode down.                                       *)
LEMMA HeldNext ==
  ASSUME TypeOK, RestInv, WatchInv, HeldEpisodeIsLabelled, [Next]_vars
  PROVE  HeldEpisodeIsLabelled'
<1>1. config' = config
  BY DEF Next, Keys, Building, World, Reconfigure, StopPlanner, TogglePlanner, Rebuild,
         ClimbUnbuilt, RebuildThen, Climb, Go, Hold, Retake, Damp, Recover, ResetSim,
         ResetForgets, StartPlanner, WaitSlots, WaitSlotsTimeout, RebuildShutdown,
         RebuildClose, RebuildPlanner, Build, BuildFails, Poll, WatcherMarks, WatcherWrites,
         RunEnds, WriterDamps, PlannerCreates, PlannerDies, EmergencyDamp, vars
<1>2. ASSUME NEW end \in {"hold", "fault", "damp"}, Written(end)
      PROVE  ended'.end = end /\ (ended'.kept => ended'.labels = {selection})
             /\ ended'.sel = life.sel
  BY <1>2 DEF Written, Episode
<1>3. CASE Hold
  <2>1. HasLifecycle /\ selection = life.sel
    BY <1>3 DEF Hold, IsBuilt, RestInv, Owning
  <2>2. \E end \in {"hold", "fault"} : Written(end)
    BY <1>3 DEF Hold
  <2> QED BY <1>1, <1>2, <2>1, <2>2 DEF HeldEpisodeIsLabelled
<1>4. CASE Damp
  <2>1. Written("damp") \/ UNCHANGED ended
    BY <1>4 DEF Damp, DampTo, EndsRun
  <2>2. Written("damp") => ended'.end = "damp"
    BY <1>2
  <2> QED BY <1>1, <2>1, <2>2 DEF HeldEpisodeIsLabelled
<1>5. CASE WatcherMarks
  <2>1. ended' = ended \/ (ended' = watcher.of /\ ~watcher.of.kept)
    BY <1>5 DEF WatcherMarks, WatchInv
  <2> QED BY <1>1, <2>1 DEF HeldEpisodeIsLabelled
<1>6. CASE WatcherWrites
  <2>1. watcher.of \in Record /\ watcher.step = "write"
    BY <1>6 DEF WatcherWrites, TypeOK, Writing, NotWriting
  <2>2. CASE ended' = watcher.of
    BY <1>1, <2>1, <2>2 DEF WatchInv, HeldEpisodeIsLabelled
  <2>3. CASE ended' = [watcher.of EXCEPT !.kept = TRUE, !.labels = @ \cup {selection}]
    <3>1. /\ ended'.end = watcher.of.end /\ ended'.sel = watcher.of.sel
          /\ ended'.labels = watcher.of.labels \cup {selection}
      BY <2>1, <2>3 DEF Record
    <3>2. watcher.of.end = "hold" /\ ~config.sim =>
            watcher.of.labels = {selection} /\ watcher.of.sel = selection
      BY <2>1 DEF WatchInv
    <3> QED BY <1>1, <3>1, <3>2 DEF HeldEpisodeIsLabelled
  <2> QED BY <1>6, <2>2, <2>3 DEF WatcherWrites
<1>7. CASE UNCHANGED ended
  BY <1>1, <1>7 DEF HeldEpisodeIsLabelled
<1> QED BY <1>3, <1>4, <1>5, <1>6, <1>7
    DEF Next, Keys, Building, World, Reconfigure, StopPlanner, TogglePlanner, Rebuild,
        ClimbUnbuilt, RebuildThen, Climb, Go, Retake, Recover, ResetSim, ResetForgets,
        StartPlanner, WaitSlots, WaitSlotsTimeout, RebuildShutdown, RebuildClose,
        RebuildPlanner, Build, BuildFails, Poll, RunEnds, WriterDamps, PlannerCreates,
        PlannerDies, EmergencyDamp, vars

-----------------------------------------------------------------------------
(* The theorems.                                                            *)

Inductive == TypeOK /\ IndInv

LEMMA InductiveInit == Init => Inductive
<1> SUFFICES ASSUME Init PROVE Inductive
  OBVIOUS
<1>1. TypeOK
  <2>1. selection \in Selections /\ builds \in 0..MaxBuilds /\ marker \in Markers
    BY BoundsAssumption DEF Init, Markers
  <2> QED BY <2>1 DEF Init, TypeOK, Markers
<1>2. IndInv
  BY DEF Init, IndInv, OpenInv, FreshInv, RestInv, WatchInv, OwnPlanner,
         HeldEpisodeIsLabelled, NotWriting, NoEpisode
<1> QED BY <1>1, <1>2 DEF Inductive

LEMMA InductiveNext == Inductive /\ [Next]_vars => Inductive'
BY TypeNext, OpenNext, FreshNext, RestNext, WatchNext, OwnNext, HeldNext
   DEF Inductive, IndInv

(* Every variable of the session keeps its type, whatever fails.           *)
THEOREM TypeCorrect == Spec => []TypeOK
<1>1. Inductive => TypeOK
  BY DEF Inductive
<1> QED BY <1>1, InductiveInit, InductiveNext, PTL DEF Spec

(* An open tracker is connected to mailboxes that its own planner made for *)
(* its own selection, and that no tracker before it has used: a rebuild    *)
(* never leaves it a predecessor's sequence numbers or start frame.        *)
THEOREM PlannerIsOwn == Spec => []OwnPlanner
<1>1. Inductive => OwnPlanner
  BY DEF Inductive, IndInv
<1> QED BY <1>1, InductiveInit, InductiveNext, PTL DEF Spec

(* An episode that ended in HOLD is filed under the selection it was run   *)
(* with, although the watcher writes it beside the operator's keys.        *)
THEOREM HeldIsLabelled == Spec => []HeldEpisodeIsLabelled
<1>1. Inductive => HeldEpisodeIsLabelled
  BY DEF Inductive, IndInv
<1> QED BY <1>1, InductiveInit, InductiveNext, PTL DEF Spec

(* rebuild never closes a tracker under joints that its writer holds or    *)
(* drives, whatever the watcher and the emergency do after its check.      *)
THEOREM RebuildClosesAtRest == Spec => ClosesAtRest
<1>1. Inductive /\ [Next]_vars
        => [worker = "close" /\ open => life.state \notin Owning /\ mode # "owns"]_vars
  BY DEF Inductive, IndInv, RestInv, TypeOK
<1> QED BY <1>1, InductiveInit, InductiveNext, PTL DEF Spec, ClosesAtRest
=============================================================================
