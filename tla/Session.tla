------------------------------ MODULE Session ------------------------------
(***************************************************************************)
(* The experiment session behind the operator console (robot/session.py),  *)
(* with the three Python threads that enter it: the worker that runs the   *)
(* keys one at a time, the key reader that stores an emergency damp past   *)
(* it (robot/tui.py), and the watcher that polls the lifecycle and writes  *)
(* down an episode that ended by itself (cli.py).                          *)
(*                                                                         *)
(* A build is a tracker with the lifecycle made for it.  The lifecycle is  *)
(* seen from outside: the class of its state, and what a request may make  *)
(* of it; the Lifecycle module has its gates.  A failed request leaves the *)
(* class as it is, which is always among the outcomes.                     *)
(***************************************************************************)
EXTENDS Naturals, FiniteSets

CONSTANTS Selections,  \* what can be selected: source, motion, frame, tracker
          Cheap,       \* those whose planner a key may start: oracle mode
          Addresses,   \* where a lifecycle object can lie: what id() returns
          MaxBuilds,   \* bound: builds in an afternoon
          MaxEpisodes  \* bound: episodes per build

ASSUME CheapAssumption == Cheap \subseteq Selections
ASSUME AddressesAssumption ==
  IsFiniteSet(Addresses) /\ Cardinality(Addresses) > 1
ASSUME BoundsAssumption == MaxBuilds \in Nat /\ MaxEpisodes \in Nat

Owning   == {"ladder", "running", "hold"}
States   == {"idle", "damp", "fault", "released", "restored"} \cup Owning
Nothing  == [made |-> FALSE]
Mailbox  == [made : {TRUE}, sel : Selections, used : BOOLEAN]
Planner  == [alive : {TRUE}, sel : Selections, made : BOOLEAN]
NoPlanner == [alive |-> FALSE, held |-> FALSE]  \* planner is None
Dead      == [alive |-> FALSE, held |-> TRUE]   \* a process that is no more
NoBuild  == [build |-> 0]

VARIABLES
  config,        \* [sim, autostart], fixed
  selection,     \* what the operator has chosen
  builtFor,      \* built_for, {} for None, else the set of one selection
  planner,       \* the planner process, NoPlanner for None
  mailboxes,     \* the slot files in /dev/shm
  builds,        \* how many trackers were built
  life,          \* the lifecycle, NoBuild for None
  open,          \* its tracker is not closed
  mode, running, \* the tracker's writer and control thread
  worker,        \* where the worker thread stands
  after,         \* the verb that follows a rebuild
  watcher,       \* the watcher while it writes an episode down
  marker,        \* _episode_written
  ended          \* history: the episode that ended last, and its record

built   == <<builtFor, builds, life, open>>
wire    == <<mode, running>>
process == <<planner, mailboxes>>
records == <<watcher, marker, ended>>
vars    == <<config, selection, built, process, wire, worker, after,
             records>>

NotWriting == [step |-> "none"]
NoEpisode  == [end |-> "none"]

Init ==
  /\ config \in [sim : BOOLEAN, autostart : BOOLEAN]
  /\ selection \in Selections /\ builtFor = {}
  /\ planner = NoPlanner /\ mailboxes = Nothing
  /\ builds = 0 /\ life = NoBuild /\ open = FALSE
  /\ mode = "off" /\ running = FALSE
  /\ worker = "idle" /\ after = "none"
  /\ watcher = NotWriting /\ marker = <<>> /\ ended = NoEpisode

HasLifecycle == life # NoBuild

\* The watcher holds the lock of a lifecycle while it writes its episode.
Unlocked == watcher.step # "none" => watcher.build # life.build

\* Bug: a held robot is taken for one that nobody owns.
CanReconfigureStopped ==
  HasLifecycle => (life.state \notin Owning \ {"hold"} /\ ~(open /\ running))

CanReconfigure ==
  HasLifecycle => (life.state \notin Owning /\ ~(open /\ running))

IsBuilt == HasLifecycle /\ builtFor = {selection}

Idle == worker = "idle"

-----------------------------------------------------------------------------
(* The end of an episode: on_transition, and what it writes down.           *)

Episode(end) ==
  [end |-> end, sel |-> life.sel, kept |-> FALSE, labels |-> {}]

Marker == <<life.addr, life.episode>>

\* The worker ends the run: nothing can come between.
Written(end) ==
  /\ marker' = Marker
  /\ ended' = IF marker = Marker THEN Episode(end)
              ELSE [Episode(end) EXCEPT !.kept = TRUE, !.labels = {selection}]

EndsRun(end) ==
  IF life.state = "running" THEN Written(end) ELSE UNCHANGED <<marker, ended>>

\* The watcher writes under the lock of the lifecycle and no other, and asks
\* the session for the rest.
WatcherMarks ==
  /\ watcher.step = "mark"
  /\ IF HasLifecycle /\ open /\ marker # Marker
       THEN /\ watcher' = [watcher EXCEPT !.step = "write",
                                         !.of.labels = {selection}]
            /\ UNCHANGED ended
       ELSE watcher' = NotWriting /\ ended' = watcher.of
  /\ marker' = IF HasLifecycle THEN Marker ELSE marker
  /\ UNCHANGED <<config, selection, built, process, wire, worker, after>>

WatcherWrites ==
  /\ watcher.step = "write" /\ watcher' = NotWriting
  /\ \/ ended' = [watcher.of EXCEPT !.kept = TRUE,
                                     !.labels = @ \cup {selection}]
     \/ ~open /\ ended' = watcher.of           \* its logs are gone
  /\ UNCHANGED <<config, selection, built, process, wire, worker, after,
                 marker>>

-----------------------------------------------------------------------------
(* The watcher's poll, and what happens below it.                           *)

\* The run ended, or its writer damped.
Poll ==
  /\ watcher.step = "none" /\ HasLifecycle /\ open
  /\ \/ /\ life.state \in Owning \ {"hold"} /\ mode = "damp"
        /\ life' = [life EXCEPT !.state = "fault"]
        /\ running' \in {running, FALSE}
        /\ UNCHANGED mode
     \/ /\ life.state = "running" /\ mode # "damp" /\ ~running
        /\ life' = [life EXCEPT !.state = "hold"]
        /\ UNCHANGED wire
  /\ IF life.state = "running"
       THEN watcher' = [step |-> "mark",
                        build |-> life.build, addr |-> life.addr,
                        of |-> Episode(life'.state)]
       ELSE UNCHANGED watcher
  /\ UNCHANGED <<config, selection, builtFor, builds, open, process, worker,
                 after, marker, ended>>

RunEnds ==
  /\ running /\ running' = FALSE
  /\ UNCHANGED <<config, selection, built, process, mode, worker, after,
                 records>>

WriterDamps ==
  /\ mode = "owns" /\ mode' = "damp"
  /\ UNCHANGED <<config, selection, built, process, running, worker, after,
                 records>>

MadeBy(worked) == [made |-> TRUE, sel |-> worked.sel, used |-> FALSE]

PlannerCreates ==
  /\ planner.alive /\ ~planner.made /\ mailboxes = Nothing
  /\ planner' = [planner EXCEPT !.made = TRUE]
  /\ mailboxes' = MadeBy(planner)
  /\ UNCHANGED <<config, selection, built, wire, worker, after, records>>

\* With or without the cleanup of its mailboxes.
PlannerDies ==
  /\ planner.alive
  /\ planner' = Dead
  /\ mailboxes' \in {mailboxes, Nothing}
  /\ UNCHANGED <<config, selection, built, wire, worker, after, records>>

-----------------------------------------------------------------------------
(* Selection and planner keys.                                              *)

Reconfigure ==
  /\ Idle /\ CanReconfigure
  /\ \E change \in Selections \ {selection} : selection' = change
  /\ UNCHANGED <<config, built, process, wire, worker, after, records>>

StopPlanner ==
  /\ Idle /\ planner.alive /\ CanReconfigure
  /\ planner' = NoPlanner
  /\ mailboxes' \in {mailboxes, Nothing}
  /\ UNCHANGED <<config, selection, built, wire, worker, after, records>>

\* p, when the planner is not alive.
TogglePlanner ==
  /\ Idle /\ ~planner.alive
  /\ worker' = "start" /\ after' = "planner"
  /\ UNCHANGED <<config, selection, built, process, wire, records>>

\* start_planner: the old mailboxes go, the process comes, or cannot.
StartPlanner ==
  /\ worker = "start"
  /\ mailboxes' = Nothing
  /\ \/ /\ planner' = [alive |-> TRUE, sel |-> selection, made |-> FALSE]
        /\ worker' = "wait" /\ UNCHANGED after
     \/ worker' = "idle" /\ after' = "none" /\ UNCHANGED planner
  /\ UNCHANGED <<config, selection, built, wire, records>>

WaitSlots ==
  /\ worker = "wait" /\ mailboxes # Nothing
  /\ IF after = "planner" THEN worker' = "idle" /\ after' = "none"
                          ELSE worker' = "build" /\ UNCHANGED after
  /\ UNCHANGED <<config, selection, built, process, wire, records>>

WaitSlotsTimeout ==
  /\ worker = "wait" /\ mailboxes = Nothing
  /\ planner' = Dead
  /\ \/ UNCHANGED mailboxes
     \/ /\ planner.alive /\ ~planner.made    \* made too late
        /\ mailboxes' = MadeBy(planner)
  /\ worker' = "idle" /\ after' = "none"
  /\ UNCHANGED <<config, selection, built, wire, records>>

-----------------------------------------------------------------------------
(* Building.                                                                *)

\* r, and every verb that finds the selection changed (ensure_built).
RebuildThen(verb) ==
  /\ CanReconfigure
  /\ worker' = "shutdown" /\ after' = verb
  /\ UNCHANGED <<config, selection, built, process, wire, records>>

Rebuild == Idle /\ RebuildThen("none")

\* What our writer does in a state, once a request has left it there.
WriterOf(state) ==
  CASE state \in {"damp", "fault"} -> "damp"
    [] state \in Owning -> "owns"
    [] OTHER -> "off"

\* Lifecycle.shutdown: damp, silence, restore, as far as it gets.
ShutdownTo(state) ==
  \/ state = life.state
  \/ /\ life.state \in Owning \cup {"fault", "damp"}
     /\ state \in {"damp", "released", "restored"}
  \/ life.state = "released" /\ state = "restored"

\* A closed tracker raises when shutdown has something to do.
RebuildShutdown ==
  /\ worker = "shutdown" /\ Unlocked
  /\ IF HasLifecycle /\ open
       THEN \E state \in States :
              /\ ShutdownTo(state)
              /\ life' = [life EXCEPT !.state = state]
              /\ mode' = IF state = life.state THEN mode ELSE WriterOf(state)
       ELSE UNCHANGED <<life, mode>>
  /\ IF HasLifecycle /\ ~open /\ life.state \in {"fault", "damp", "released"}
       THEN worker' = "idle" /\ after' = "none"
       ELSE worker' = "close" /\ UNCHANGED after
  /\ UNCHANGED <<config, selection, builtFor, builds, open, process, running,
                 records>>

RebuildClose ==
  /\ worker = "close" /\ worker' = "restart"
  /\ open' = FALSE /\ mode' = "off" /\ running' = FALSE
  /\ UNCHANGED <<config, selection, builtFor, builds, life, process, after,
                 records>>

\* Bug: a planner that is running is used as it is.
RebuildKeepsPlanner ==
  /\ worker = "restart"
  /\ IF planner.alive /\ mailboxes # Nothing
       THEN worker' = "build" /\ UNCHANGED <<after, process>>
       ELSE /\ planner' = NoPlanner /\ mailboxes' = Nothing
            /\ IF planner # NoPlanner \/ config.autostart \/ selection \in Cheap
                 THEN worker' = "start" /\ UNCHANGED after
                 ELSE worker' = "idle" /\ after' = "none"
  /\ UNCHANGED <<config, selection, built, wire, records>>

\* The planner restarts with the tracker, if a key may start it.
RebuildPlanner ==
  /\ worker = "restart"
  /\ planner' = NoPlanner /\ mailboxes' = Nothing
  /\ IF planner # NoPlanner \/ config.autostart \/ selection \in Cheap
       THEN worker' = "start" /\ UNCHANGED after
       ELSE worker' = "idle" /\ after' = "none"
  /\ UNCHANGED <<config, selection, built, wire, records>>

\* The tracker connects to the mailboxes there are.  A new lifecycle lies
\* where no living one does.
Build ==
  /\ worker = "build" /\ mailboxes # Nothing /\ builds < MaxBuilds
  /\ \E addr \in Addresses :
       /\ HasLifecycle => addr # life.addr
       /\ watcher.step # "none" => addr # watcher.addr
       /\ life' = [build |-> builds + 1, addr |-> addr, state |-> "idle",
                   episode |-> 0, sel |-> selection, mail |-> mailboxes]
  /\ builds' = builds + 1 /\ open' = TRUE /\ builtFor' = {selection}
  /\ mailboxes' = [mailboxes EXCEPT !.used = TRUE]
  /\ worker' = (IF after = "climb" THEN "climb" ELSE "idle")
  /\ after' = "none"
  /\ UNCHANGED <<config, selection, planner, wire, records>>

BuildFails ==
  /\ worker = "build"
  /\ life' = NoBuild
  /\ worker' = "idle" /\ after' = "none"
  /\ UNCHANGED <<config, selection, builtFor, builds, open, process, wire,
                 records>>

-----------------------------------------------------------------------------
(* The lifecycle's keys.                                                    *)

ClimbUnbuilt == Idle /\ ~IsBuilt /\ RebuildThen("climb")

\* PRECHECK counts the episode, and may lie behind.
Count ==
  {n \in {life.episode, life.episode + 1} :
     n <= MaxEpisodes /\ (n = life.episode => life.state = "idle" /\ n > 0)}

\* n, a: up the ladder, as far as the gates allow.  A closed tracker makes
\* the first of them raise.
Climb ==
  /\ worker = "climb" \/ (Idle /\ IsBuilt)
  /\ worker' = "idle" /\ Unlocked
  /\ \/ /\ life.state \in {"idle", "released", "restored"}
        /\ \E state \in {"idle", "ladder"}, writer \in {"off", "damp", "owns"},
              episode \in Count :
             /\ IF open THEN writer # (IF state = "idle" THEN "owns" ELSE "off")
                        ELSE state = "idle" /\ writer = mode
             /\ mode' = writer
             /\ life' = [life EXCEPT !.state = state, !.episode = episode]
        /\ UNCHANGED running
     \/ /\ life.state = "ladder" /\ open
        /\ running' \in BOOLEAN
        /\ UNCHANGED <<life, mode>>
     \/ UNCHANGED <<life, wire>>
  /\ UNCHANGED <<config, selection, builtFor, builds, open, process, after,
                 records>>

Go ==
  /\ Idle /\ IsBuilt /\ Unlocked /\ open
  /\ life.state = "ladder" /\ mode = "owns" /\ running
  /\ life' = [life EXCEPT !.state = "running"]
  /\ UNCHANGED <<config, selection, builtFor, builds, open, process, wire,
                 worker, after, records>>

Hold ==
  /\ Idle /\ IsBuilt /\ Unlocked /\ open /\ life.state = "running"
  /\ \E end \in IF mode = "damp" THEN {"fault"} ELSE {"hold"} :
       life' = [life EXCEPT !.state = end] /\ Written(end)
  /\ running' = FALSE
  /\ UNCHANGED <<config, selection, builtFor, builds, open, process, mode,
                 worker, after, watcher>>

Retake ==
  /\ Idle /\ IsBuilt /\ Unlocked /\ open
  /\ life.state = "hold" /\ mode = "owns" /\ life.episode < MaxEpisodes
  /\ life' = [life EXCEPT !.state = "ladder", !.episode = @ + 1]
  /\ UNCHANGED <<config, selection, builtFor, builds, open, process, wire,
                 worker, after, records>>

\* damp, which is always legal, and hands back if it can.
DampTo(state) ==
  /\ state \in {"damp", "released", "restored"}
  /\ life' = [life EXCEPT !.state = state]
  /\ mode' = WriterOf(state) /\ running' = FALSE
  /\ EndsRun("damp")

Damp ==
  /\ Idle /\ HasLifecycle /\ Unlocked /\ open
  /\ \E state \in States : DampTo(state)
  /\ UNCHANGED <<config, selection, builtFor, builds, open, process, worker,
                 after, watcher>>

\* recover, abort.
Recover ==
  /\ Idle /\ HasLifecycle /\ Unlocked /\ open
  /\ life.state \in {"ladder", "hold", "damp", "fault", "released"}
  /\ \E state \in {"damp", "released", "restored"} :
       /\ life.state = "released" => state = "restored"
       /\ life' = [life EXCEPT !.state = state]
       /\ mode' = WriterOf(state) /\ running' = FALSE
  /\ UNCHANGED <<config, selection, builtFor, builds, open, process, worker,
                 after, records>>

\* Bug: the reset forgets the lifecycle over an open tracker.
ResetSimOpen ==
  /\ Idle /\ config.sim /\ planner' = NoPlanner
  /\ worker' = "reset"
  /\ UNCHANGED <<config, selection, built, mailboxes, wire, after, records>>

\* R, in simulation only, and from any state: no lock is taken.
ResetSim ==
  /\ Idle /\ config.sim
  /\ open' = FALSE /\ mode' = "off" /\ running' = FALSE
  /\ planner' = NoPlanner /\ mailboxes' \in {mailboxes, Nothing}
  /\ worker' = "reset"
  /\ UNCHANGED <<config, selection, builtFor, builds, life, after,
                 records>>

ResetForgets ==
  /\ worker = "reset" /\ worker' = "idle"
  /\ life' = NoBuild /\ builtFor' = {} /\ marker' = <<>>
  /\ UNCHANGED <<config, selection, builds, open, process, wire, after,
                 watcher, ended>>

-----------------------------------------------------------------------------
\* Ctrl-D, in the thread that reads the keys: past the queue and the
\* lock.  An exception there ends the console.
EmergencyDamp ==
  /\ worker # "gone"
  /\ IF HasLifecycle /\ ~open
       THEN worker' = "gone" /\ UNCHANGED mode
       ELSE /\ mode' = (IF HasLifecycle THEN "damp" ELSE mode)
            /\ UNCHANGED worker
  /\ UNCHANGED <<config, selection, built, process, running, after,
                 records>>

Keys ==
  \/ Reconfigure \/ StopPlanner \/ TogglePlanner \/ Rebuild
  \/ ClimbUnbuilt \/ Climb \/ Go \/ Hold \/ Retake \/ Damp \/ Recover
  \/ ResetSim \/ ResetForgets

Building ==
  \/ StartPlanner \/ WaitSlots \/ WaitSlotsTimeout
  \/ RebuildShutdown \/ RebuildClose \/ RebuildPlanner \/ Build \/ BuildFails

World ==
  \/ Poll \/ WatcherMarks \/ WatcherWrites
  \/ RunEnds \/ WriterDamps \/ PlannerCreates \/ PlannerDies
  \/ EmergencyDamp

Next == Keys \/ Building \/ World

Spec == Init /\ [][Next]_vars

-----------------------------------------------------------------------------
Lives == [build : 1..MaxBuilds, addr : Addresses, state : States,
           episode : 0..MaxEpisodes, sel : Selections, mail : Mailbox]
Record == [end : {"hold", "fault", "damp"}, sel : Selections, kept : BOOLEAN,
           labels : SUBSET Selections]
Writing == [step : {"mark", "write"}, build : 1..MaxBuilds, addr : Addresses,
            of : Record]

TypeOK ==
  /\ selection \in Selections
  /\ builtFor = {} \/ \E sel \in Selections : builtFor = {sel}
  /\ planner \in Planner \cup {NoPlanner, Dead}
  /\ mailboxes \in Mailbox \cup {Nothing}
  /\ builds \in 0..MaxBuilds /\ life \in Lives \cup {NoBuild}
  /\ {open, running} \subseteq BOOLEAN
  /\ mode \in {"off", "damp", "owns"}
  /\ worker \in {"idle", "shutdown", "close", "restart", "start", "wait",
                 "build", "climb", "reset", "gone"}
  /\ after \in {"none", "climb", "planner"}
  /\ watcher \in Writing \cup {NotWriting}
  /\ marker \in (Addresses \X (0..MaxEpisodes)) \cup {<<>>}
  /\ ended \in Record \cup {NoEpisode}
  /\ open => HasLifecycle

(* "A fresh tracker numbers its requests from 1 again and an oracle worker  *)
(* serves one start frame" (rebuild): an open tracker was connected to       *)
(* mailboxes that its own planner made for its own selection, and that no   *)
(* tracker before it has used, whatever planners were stopped, started,     *)
(* died or came too late in between.                                        *)
OwnPlanner ==
  open => life.mail = [made |-> TRUE, sel |-> life.sel, used |-> FALSE]

(* rebuild never closes a tracker under joints that its writer holds or     *)
(* drives, although its check lies before the shutdown, and the watcher     *)
(* and the emergency go on meanwhile.                                       *)
ClosesAtRest ==
  [][worker = "close" /\ open => life.state \notin Owning /\ mode # "owns"]_vars

(* An episode that ended in HOLD is filed under the selection it was run    *)
(* with, although the watcher reads the selection while the operator's      *)
(* keys go on, on a robot that cannot be reset.                             *)
HeldEpisodeIsLabelled ==
  ended.end = "hold" /\ ended.kept /\ ~config.sim => ended.labels = {ended.sel}

-----------------------------------------------------------------------------
(* What makes those inductive.                                              *)

(* Where the worker may find an open tracker: a rebuild has closed the old  *)
(* one before it touches the planner, the p key alone has not.              *)
OpenInv ==
  /\ worker \in {"restart", "build", "reset"} => ~open
  /\ worker \in {"start", "wait"} /\ after # "planner" => ~open
  /\ worker \in {"shutdown", "close", "restart", "build"} => after # "planner"
  /\ worker = "climb" => HasLifecycle

(* The planner that the worker waits for is for the selection, and so are   *)
(* the mailboxes it made, which nobody has used.                            *)
FreshInv ==
  worker \in {"wait", "build"} =>
    /\ planner.alive => planner.sel = selection
    /\ mailboxes \in {Nothing, [made |-> TRUE, sel |-> selection, used |-> FALSE]}

(* The writer owns only under an owning state of an open tracker; a rebuild *)
(* is under way only under another; and nobody reconfigures under one.      *)
RestInv ==
  /\ mode = "owns" => open /\ life.state \in Owning
  /\ worker \in {"shutdown", "close"} /\ HasLifecycle => life.state \notin Owning
  /\ HasLifecycle => builtFor = {life.sel}
  /\ HasLifecycle /\ (life.state \in Owning \/ worker = "climb") => selection = life.sel

(* The watcher holds the lock of an episode that ended in HOLD until it is  *)
(* written: nothing moves its lifecycle, and so no key the selection.       *)
WatchInv ==
  watcher.step # "none" =>
    /\ ~watcher.of.kept
    /\ watcher.of.end = "hold" /\ ~config.sim =>
         /\ open /\ life.build = watcher.build /\ life.state = "hold"
         /\ watcher.of.sel = selection
         /\ watcher.step = "write" => watcher.of.labels = {selection}

IndInv ==
  /\ OpenInv /\ FreshInv /\ RestInv /\ WatchInv
  /\ OwnPlanner /\ HeldEpisodeIsLabelled

-----------------------------------------------------------------------------
(* What the documents say and the code does not do.                         *)

(* "Ctrl-D | damp | from anywhere, never gated" (robot_lifecycle.md:238):   *)
(* the chord never ends the console.                                        *)
DampAnswers == worker # "gone"

(* "Every episode that ends in HOLD writes episodes/epNNN"                  *)
(* (robot_lifecycle.md:255).                                                *)
HeldEpisodeIsKept == ended.end = "hold" /\ ~config.sim => ended.kept

(* The same label for an episode that ended in FAULT.                       *)
EpisodeIsLabelled ==
  ended.end # "none" /\ ended.kept /\ ~config.sim => ended.labels = {ended.sel}

(* "built" (ensure_built): the lifecycle that the verbs go to has a tracker. *)
BuiltIsUsable == Idle /\ IsBuilt => open

(* "Reconfiguring is only allowed while nothing owns the joints"            *)
(* (session.py:7).                                                          *)
ReconfiguresUnowned ==
  [][selection' # selection => ~(open /\ life.state \in {"fault", "damp"})]_vars

=============================================================================
