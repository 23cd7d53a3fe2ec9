------------------------------ MODULE EvalRun ------------------------------
(***************************************************************************)
(* One evaluation run (orchestration/runner.py): the host thread that      *)
(* launches the policy service, rolls the episodes out, stops everything   *)
(* and writes the run directory; the policy service, a process of its own  *)
(* that may be late, die, hang or be restarted by its owner; and, for a    *)
(* delegated rollout, the evaluator process that runs the episodes itself. *)
(*                                                                         *)
(* A policy that the run launches speaks HTTP; an external one speaks      *)
(* HTTP, OpenPI's websocket or GR00T's ZeroMQ, and the three clients fail  *)
(* in different ways.  Observations, actions and rewards are left out: an  *)
(* action is known by the episode it was asked for.                        *)
(***************************************************************************)
EXTENDS Naturals, Sequences

CONSTANTS Episodes,    \* rollout.num_episodes: one seed each
          MaxSteps,    \* rollout.max_steps_per_episode
          Horizon,     \* actions in a chunk, at most
          MaxRestarts  \* bound: restarts of an external service

\* Records are named by four digits, and sorted by name (delegated.py:160).
ASSUME BoundsAssumption ==
  /\ Episodes \in 1..10000 /\ MaxSteps \in Nat \ {0}
  /\ Horizon \in Nat \ {0} /\ MaxRestarts \in Nat

Ids      == 1..Episodes
Launches == {"local", "docker"}

\* seeds: an evaluator is given one for each episode, or those of
\* backend_config, which replace them: bound, no more than episodes.
Configs == {c \in [mode : {"stepped", "delegated"}, sim : Launches,
                   policy : Launches \cup {"http", "openpi", "gr00t"},
                   seeds : 0..Episodes] :
              c.mode = "stepped" => c.seeds = Episodes}

\* What write_* leaves in the run directory, in the order of the calls.
Report == <<"episodes", "metrics", "manifest", "status", "validation",
            "result">>
Setup  == {"job", "plan"}

VARIABLES
  config,   \* the job, fixed
  pc,       \* where run_eval stands
  fault,    \* what was raised in the try block: see Raise
  files,    \* artifacts in the run directory
  backend,  \* the in-process simulator
  service,  \* the policy service: its state, the episodes it has reset
  restarts, \* bound on its restarts
  calm,     \* history: the service has answered whenever it was asked
  socket,   \* OpenPI's websocket is open at both ends
  handle,   \* the supervisor holds a runtime handle
  sim,      \* the evaluator process: its state, its episode
  simLog,   \* what logs/sim.log holds of the evaluator's output
  roll,     \* _run_episode: its locals
  raw,      \* raw/episode_XXXX.json, by episode
  rows,     \* episodes: the EpisodeRecords
  left      \* history: what a stop was sent to and did not remove

world == <<service, restarts, calm, socket>>
child == <<sim, simLog>>
vars  == <<config, pc, fault, files, backend, world, handle, child, roll, raw,
           rows, left>>

Launched == config.policy \in Launches
Speaks   == IF Launched THEN "http" ELSE config.policy
Stepped  == config.mode = "stepped"
Over     == pc \in {"done", "raised", "killed"}

NoChunk == [of |-> 0, left |-> 0]
Fresh(ep) == [ep |-> ep, steps |-> 0, chunk |-> NoChunk, fallback |-> 0,
              done |-> FALSE, failed |-> FALSE]

Init ==
  /\ config \in Configs
  /\ pc = "backend" /\ fault = "none" /\ files = {} /\ backend = "none"
  /\ service = [state |-> IF Launched THEN "absent" ELSE "ready", reset |-> {}]
  /\ restarts = 0 /\ calm = TRUE /\ socket = FALSE /\ handle = FALSE
  /\ sim = [state |-> "none", ep |-> 1] /\ simLog = "none"
  /\ roll = Fresh(1) /\ raw = {} /\ rows = <<>> /\ left = {}

-----------------------------------------------------------------------------
(* The policy service.  It answers, cannot be reached, or keeps the         *)
(* connection and says nothing, which OpenPI's recv waits out for ever.     *)

Answers == service.state = "ready"
Gone    == service.state \in {"absent", "starting", "dead"}

\* urlopen and ZeroMQ's recv have a timeout; the latter opens a new socket.
HttpUnserved   == Gone \/ service.state = "mute"
Gr00tUnserved  == Gone \/ service.state = "mute"
OpenPIUnserved == Gone

Unserved == CASE Speaks = "http"   -> HttpUnserved
              [] Speaks = "gr00t"  -> Gr00tUnserved
              [] Speaks = "openpi" -> OpenPIUnserved

\* act() finds the episode unknown: the debug server keeps one RNG per reset.
Unknown(ep) == Speaks = "http" /\ ep \notin service.reset

ServiceReady ==
  /\ service.state = "starting" /\ service' = [service EXCEPT !.state = "ready"]
  /\ UNCHANGED <<config, pc, fault, files, backend, restarts, calm, socket,
                 handle, child, roll, raw, rows, left>>

ServiceFails ==
  /\ service.state \in {"starting", "ready", "mute"} /\ ~Over
  /\ \E state \in {"mute", "dead"} \ {service.state} :
       /\ service' = [service EXCEPT !.state = state]
       /\ socket' = (socket /\ state = "mute")
  /\ calm' = FALSE
  /\ UNCHANGED <<config, pc, fault, files, backend, restarts, handle, child,
                 roll, raw, rows, left>>

\* Its owner restarts an external service: it knows no episode.
ServiceRestarts ==
  /\ ~Launched /\ service.state \in {"mute", "dead"} /\ ~Over
  /\ restarts < MaxRestarts /\ restarts' = restarts + 1
  /\ service' = [state |-> "ready", reset |-> {}] /\ socket' = FALSE
  /\ UNCHANGED <<config, pc, fault, files, backend, calm, handle, child, roll,
                 raw, rows, left>>

-----------------------------------------------------------------------------
(* Exceptions.  A RunFailure goes to its handler and on to finally, any     *)
(* other Exception to a handler that reads the service's log, and an        *)
(* interrupt, which is no Exception, to finally alone.                      *)

Raise(kind) ==
  fault' = kind /\ pc' = IF kind = "error" THEN "handler" ELSE "stop"

\* Before the try block: nothing is closed, nothing written.
BuildBackend ==
  /\ pc = "backend"
  /\ \/ /\ pc' = "setup"
        /\ backend' = IF Stepped THEN "open" ELSE backend
     \/ Stepped /\ pc' = "raised" /\ UNCHANGED backend
  /\ UNCHANGED <<config, fault, files, world, handle, child, roll, raw, rows, left>>

\* build_plan, the run directory, the logger, the embodiment controller.
SetUp ==
  /\ pc = "setup"
  /\ \/ pc' = "launch" /\ files' = Setup
     \/ pc' = "raised" /\ files' \in SUBSET Setup
  /\ UNCHANGED <<config, fault, backend, world, handle, child, roll, raw, rows, left>>

\* A subprocess, or a container after the removal of its namesake.
Started == [state |-> "starting", reset |-> {}]

Launch ==
  /\ pc = "launch"
  /\ \/ /\ ~Launched /\ pc' = "health"
        /\ UNCHANGED <<fault, service, handle>>
     \/ /\ Launched /\ pc' = "health" /\ handle' = TRUE
        /\ service' = Started
        /\ UNCHANGED fault
     \/ Raise("error") /\ UNCHANGED <<service, handle>>  \* or no such client
  /\ UNCHANGED <<config, files, backend, restarts, calm, socket, child, roll,
                 raw, rows, left>>

Stopped == [service EXCEPT !.state = IF handle THEN "absent" ELSE @]

\* supervisor.stop(): the handle is given up whatever comes of it.  A process
\* may survive the wait after SIGKILL, a container the log that is read
\* before its removal; the exit code of docker rm is not looked at.
StopService(raised) ==
  /\ handle' = FALSE
  /\ raised => handle
  /\ \/ ~raised /\ service' = Stopped /\ UNCHANGED left
     \/ /\ raised \/ (handle /\ config.policy = "docker")
        /\ left' = left \cup {"service"} /\ UNCHANGED service

\* A service that does not come up is stopped, and its handler finds no handle.
WaitHealthy ==
  /\ pc = "health"
  /\ \/ /\ Answers /\ pc' = "describe"
        /\ UNCHANGED <<fault, service, handle, left>>
     \/ /\ ~Answers /\ Raise("error")
        /\ \E raised \in BOOLEAN : StopService(raised)
  /\ UNCHANGED <<config, files, backend, restarts, calm, socket, child, roll,
                 raw, rows>>

\* An action_dim that is not the environment's fails the run.
Describe ==
  /\ pc = "describe"
  /\ \/ /\ Answers /\ pc' = (IF Stepped THEN "reset" ELSE "simulate")
        /\ socket' = (Speaks = "openpi") /\ UNCHANGED fault
     \/ Answers /\ Raise("failure") /\ UNCHANGED socket
     \/ Unserved /\ Raise("error") /\ UNCHANGED socket
  /\ UNCHANGED <<config, files, backend, service, restarts, calm, handle, child,
                 roll, raw, rows, left>>

-----------------------------------------------------------------------------
(* The stepped rollout.                                                     *)

\* Bug: the reset of an episode is not sent to the service.
ResetEpisodeUnsent ==
  /\ pc = "reset" /\ pc' = "step" /\ roll' = Fresh(roll.ep)
  /\ UNCHANGED <<config, fault, files, backend, world, handle, child, raw, rows, left>>

\* Bug: one chunk scheduler for all episodes.
ResetEpisodeKeepsChunk ==
  /\ pc = "reset" /\ (Answers \/ Speaks = "openpi")
  /\ pc' = "step" /\ roll' = [Fresh(roll.ep) EXCEPT !.chunk = roll.chunk]
  /\ service' = [service EXCEPT !.reset = @ \cup {roll.ep}]
  /\ UNCHANGED <<config, fault, files, backend, restarts, calm, socket, handle,
                 child, raw, rows, left>>

\* OpenPI's reset sends nothing once the socket is open; the others ask.
ResetEpisode ==
  /\ pc = "reset"
  /\ \/ /\ Answers \/ Speaks = "openpi"
        /\ pc' = "step" /\ roll' = Fresh(roll.ep)
        /\ service' = [service EXCEPT !.reset =
                         IF Answers /\ Speaks # "openpi" THEN @ \cup {roll.ep}
                                                         ELSE @]
        /\ UNCHANGED fault
     \/ /\ Unserved /\ Speaks # "openpi" /\ Raise("error")
        /\ UNCHANGED <<roll, service>>
  /\ UNCHANGED <<config, files, backend, restarts, calm, socket, handle, child,
                 raw, rows, left>>

\* Bug: one step too many.
SteppingOver == pc = "step" /\ roll.steps <= MaxSteps /\ ~roll.done

Stepping == pc = "step" /\ roll.steps < MaxSteps /\ ~roll.done

\* A websocket that the service has closed is never opened again.
Reached == Answers /\ (Speaks = "openpi" => socket)

\* A chunk; of an external checkpoint's own length, which may be none.
Ask ==
  /\ Stepping /\ roll.chunk.left = 0
  /\ Reached /\ ~Unknown(roll.ep)
  /\ \E n \in (IF Launched THEN 1 ELSE 0)..Horizon :
       roll' = [roll EXCEPT !.chunk = [of |-> roll.ep, left |-> n]]
       /\ IF n = 0 THEN Raise("error") ELSE UNCHANGED <<pc, fault>>
  /\ UNCHANGED <<config, files, backend, world, handle, child, raw, rows, left>>

\* A PolicyClientError: the controller's fallback action for one step.
Fallback ==
  /\ Stepping /\ roll.chunk.left = 0
  /\ \/ Unserved /\ Speaks # "openpi" /\ UNCHANGED <<calm, socket>>
     \/ Answers /\ Unknown(roll.ep) /\ UNCHANGED <<calm, socket>>
     \/ /\ Reached /\ ~Launched /\ calm' = FALSE      \* an error reply, which
        /\ socket' \in {socket, FALSE}               \* may close the socket
  /\ \E done \in BOOLEAN :
       roll' = [roll EXCEPT !.steps = @ + 1, !.fallback = @ + 1, !.done = done]
  /\ UNCHANGED <<config, pc, fault, files, backend, service, restarts, handle,
                 child, raw, rows, left>>

\* A closed websocket raises an exception that is no PolicyClientError.
AskRaises ==
  /\ Stepping /\ roll.chunk.left = 0
  /\ Speaks = "openpi" /\ (Unserved \/ ~socket) /\ Raise("error")
  /\ UNCHANGED <<config, files, backend, world, handle, child, roll, raw, rows, left>>

\* One action of the chunk, and a step that may blow up.
Play ==
  /\ Stepping /\ roll.chunk.left > 0
  /\ \E done \in BOOLEAN :
       roll' = [roll EXCEPT !.steps = @ + 1, !.chunk.left = @ - 1,
                            !.done = done, !.failed = done]
  /\ UNCHANGED <<config, pc, fault, files, backend, world, handle, child, raw,
                 rows, left>>

\* decode_action, the simulator or the raw record raises.
StepRaises ==
  /\ pc = "step" /\ Raise("error")
  /\ UNCHANGED <<config, files, backend, world, handle, child, roll, raw, rows, left>>

Row == [ep |-> roll.ep, fallback |-> roll.fallback, blewUp |-> roll.done,
        status |-> IF roll.failed THEN "failed" ELSE "completed"]

FinishEpisode ==
  /\ pc = "step" /\ (roll.steps = MaxSteps \/ roll.done)
  /\ rows' = Append(rows, Row) /\ raw' = raw \cup {roll.ep}
  /\ IF roll.ep = Episodes THEN pc' = "stop" /\ UNCHANGED roll
                           ELSE pc' = "reset" /\ roll' = [roll EXCEPT !.ep = @ + 1]
  /\ UNCHANGED <<config, fault, files, backend, world, handle, child, left>>

-----------------------------------------------------------------------------
(* The delegated rollout.                                                   *)

LaunchSim ==
  /\ pc = "simulate"
  /\ \/ /\ pc' = "wait" /\ sim' = [sim EXCEPT !.state = "health"]
        /\ simLog' = (IF config.sim = "local" THEN "kept" ELSE simLog)
        /\ UNCHANGED fault
     \/ Raise("failure") /\ UNCHANGED child     \* no image, no entry point
     \/ Raise("error") /\ UNCHANGED child       \* docker run, Popen
  /\ UNCHANGED <<config, files, backend, world, handle, roll, raw, rows, left>>

SimRuns == sim.state \in {"health", "reset", "act", "stuck"}

SimMoves(state) ==
  /\ sim' = [sim EXCEPT !.state = state]
  /\ UNCHANGED <<config, pc, fault, files, backend, restarts, calm, socket,
                 handle, simLog, roll, rows, left>>

SimHealthy ==
  /\ sim.state = "health"
  /\ SimMoves(CASE ~Answers                      -> "failed"
                [] Answers /\ config.seeds = 0   -> "exited"
                [] Answers /\ config.seeds # 0   -> "reset")
  /\ UNCHANGED <<service, raw>>

SimReset ==
  /\ sim.state = "reset" /\ (Answers \/ Speaks = "openpi") /\ SimMoves("act")
  /\ service' = [service EXCEPT !.reset =
                   IF Answers /\ Speaks # "openpi" THEN @ \cup {sim.ep} ELSE @]
  /\ UNCHANGED raw

\* The whole episode is served and its record written; the last one ends it.
SimEpisode ==
  /\ sim.state = "act" /\ Answers /\ ~Unknown(sim.ep)
  /\ raw' = raw \cup {sim.ep}
  /\ sim' = IF sim.ep = config.seeds THEN [sim EXCEPT !.state = "exited"]
                                 ELSE [state |-> "reset", ep |-> sim.ep + 1]
  /\ UNCHANGED <<config, pc, fault, files, backend, world, handle, simLog, roll,
                 rows, left>>

\* Any exception ends the evaluator; its simulator may hang instead.
SimFails ==
  /\ \/ sim.state \in {"reset", "act"} /\ \E s \in {"failed", "stuck"} : SimMoves(s)
     \/ sim.state = "act" /\ Answers /\ Unknown(sim.ep) /\ SimMoves("failed")
  /\ UNCHANGED <<service, raw>>

\* stop() after the wait: docker's log is captured, then the container goes.
\* The failure message asks for the log again, and a removed container's log
\* is an error message, written over the captured one.
LogAfter(state) ==
  CASE config.sim = "local" -> "kept"
    [] state = "failed"     -> "lost"
    [] OTHER                -> "kept"

\* stop() of the evaluator: see StopService.
StopSim(raised) ==
  \/ /\ ~raised /\ sim' = [sim EXCEPT !.state = "gone"] /\ simLog' = "kept"
     /\ UNCHANGED left
  \/ /\ IF config.sim = "docker" THEN TRUE ELSE raised /\ sim.state = "stuck"
     /\ simLog' = (IF raised THEN simLog ELSE "kept")
     /\ left' = left \cup {"sim"} /\ UNCHANGED sim

\* A row for each record.
Records == [i \in raw |-> [ep |-> i, fallback |-> 0, blewUp |-> FALSE,
                           status |-> "completed"]]

\* Bug: the exit code of the evaluator is not looked at.
SimEndedUnchecked ==
  /\ pc = "wait" /\ sim.state \in {"exited", "failed"}
  /\ sim' = [sim EXCEPT !.state = "gone"] /\ simLog' = "kept"
  /\ pc' = "stop" /\ rows' = Records
  /\ UNCHANGED <<config, fault, files, backend, world, handle, roll, raw, left>>

\* The evaluator has written its records in order: their names sort so.
\* Docker's wait or log, or a record that cannot be read, raises.
SimEnded ==
  /\ pc = "wait" /\ sim.state \in {"exited", "failed"}
  /\ sim' = [sim EXCEPT !.state = "gone"]
  /\ \/ /\ sim.state = "exited" /\ rows' = Records /\ simLog' = "kept"
        /\ pc' = "stop" /\ UNCHANGED fault
     \/ /\ sim.state = "failed" /\ simLog' = LogAfter("failed")
        /\ Raise("failure") /\ UNCHANGED rows
     \/ /\ config.sim = "docker" \/ sim.state = "exited"
        /\ simLog' \in {simLog, "kept"}
        /\ Raise("error") /\ UNCHANGED rows
  /\ UNCHANGED <<config, files, backend, world, handle, roll, raw, left>>

\* Bug: the wait for the evaluator has no timeout.
SimNeverTimesOut == FALSE /\ UNCHANGED vars

\* sim.timeout_s is over, or docker's wait fails: the evaluator is stopped, and
\* what the stop raises takes the place of the timeout.
SimTimeout ==
  /\ pc = "wait" /\ SimRuns
  /\ \E raised \in BOOLEAN :
       /\ StopSim(raised)
       /\ \/ Raise("error") /\ (config.sim = "docker" \/ raised)
          \/ Raise("failure") /\ ~raised
  /\ UNCHANGED <<config, files, backend, world, handle, roll, raw, rows>>

-----------------------------------------------------------------------------
(* The end.                                                                 *)

\* SIGINT in the try block or its handlers: the wait's finally stops the
\* evaluator, and what that raises takes the place of the interrupt.
Interrupt ==
  /\ pc \in {"launch", "health", "describe", "reset", "step", "simulate",
             "wait", "handler"}
  /\ IF pc = "wait"
       THEN \E raised \in BOOLEAN :
              StopSim(raised) /\ Raise(IF raised THEN "error" ELSE "interrupt")
       ELSE Raise("interrupt") /\ UNCHANGED <<child, left>>
  /\ UNCHANGED <<config, files, backend, world, handle, roll, raw, rows>>

\* SIGTERM: no handler, no finally.
Killed ==
  /\ ~Over /\ pc' = "killed"
  /\ UNCHANGED <<config, fault, files, backend, world, handle, child, roll, raw,
                 rows, left>>

\* supervisor.logs(), which may itself raise: then the run is not reported.
Handle ==
  /\ pc = "handler" /\ pc' = "stop"
  /\ fault' \in IF handle THEN {fault, "escaped"} ELSE {fault}
  /\ UNCHANGED <<config, files, backend, world, handle, child, roll, raw, rows, left>>

\* Bug: a run that failed does not stop its service.
StopSucceededOnly ==
  /\ pc = "stop" /\ pc' = "close"
  /\ IF fault = "none" THEN service' = Stopped /\ handle' = FALSE
                       ELSE UNCHANGED <<service, handle>>
  /\ UNCHANGED <<config, fault, files, backend, restarts, calm, socket, child,
                 roll, raw, rows, left>>

\* What the stop raises leaves the backend open, and nothing is written.
Stop ==
  /\ pc = "stop"
  /\ \E raised \in BOOLEAN :
       /\ StopService(raised)
       /\ pc' = IF raised THEN "raised" ELSE "close"
  /\ UNCHANGED <<config, fault, files, backend, restarts, calm, socket, child,
                 roll, raw, rows>>

Close ==
  /\ pc = "close"
  /\ backend' = IF backend = "open" THEN "closed" ELSE backend
  /\ pc' = IF fault \in {"interrupt", "escaped"} THEN "raised" ELSE "write"
  /\ UNCHANGED <<config, fault, files, world, handle, child, roll, raw, rows, left>>

\* The report, in its order, or as much of it as the disk takes.
Write ==
  /\ pc = "write"
  /\ \E n \in 0..Len(Report) :
       /\ files' = files \cup {Report[i] : i \in 1..n}
       /\ pc' = IF n = Len(Report) THEN "done" ELSE "raised"
  /\ UNCHANGED <<config, fault, backend, world, handle, child, roll, raw, rows, left>>

Host ==
  \/ BuildBackend \/ SetUp \/ Launch \/ WaitHealthy \/ Describe
  \/ ResetEpisode \/ Ask \/ Fallback \/ AskRaises \/ Play \/ StepRaises
  \/ FinishEpisode \/ LaunchSim \/ SimEnded \/ SimTimeout
  \/ Handle \/ Stop \/ Close \/ Write

Evaluator == SimHealthy \/ SimReset \/ SimEpisode \/ SimFails

Next ==
  \/ Host \/ Evaluator \/ Interrupt \/ Killed
  \/ ServiceReady \/ ServiceFails \/ ServiceRestarts

\* Every wait of the host thread for the service and the evaluator has a
\* timeout but OpenPI's recv.  Docker's own commands have none: they are taken
\* to return.  Nothing is assumed of the service or of the evaluator.
Spec == Init /\ [][Next]_vars /\ WF_vars(Host)

-----------------------------------------------------------------------------
(* Properties.                                                              *)

Service == [state : {"absent", "starting", "ready", "mute", "dead"},
            reset : SUBSET Ids]
Sim     == [state : {"none", "health", "reset", "act", "stuck", "exited",
                     "failed", "gone"}, ep : Ids]
Roll    == [ep : Ids, steps : 0..MaxSteps,
            chunk : [of : 0..Episodes, left : 0..Horizon],
            fallback : Nat, done : BOOLEAN, failed : BOOLEAN]
Rows    == Seq([ep : Ids, fallback : Nat, blewUp : BOOLEAN,
                status : {"failed", "completed"}])

\* Every variable keeps its type.
TypeOK ==
  /\ config \in Configs
  /\ pc \in {"backend", "setup", "launch", "health", "describe", "reset", "step",
             "simulate", "wait", "handler", "stop", "close", "write", "done",
             "raised", "killed"}
  /\ fault \in {"none", "failure", "error", "interrupt", "escaped"}
  /\ files \subseteq Setup \cup {Report[i] : i \in DOMAIN Report}
  /\ backend \in {"none", "open", "closed"}
  /\ service \in Service /\ restarts \in 0..MaxRestarts
  /\ calm \in BOOLEAN /\ socket \in BOOLEAN /\ handle \in BOOLEAN
  /\ left \subseteq {"service", "sim"}
  /\ sim \in Sim /\ simLog \in {"none", "kept", "lost"}
  /\ roll \in Roll /\ roll.fallback <= roll.steps
  /\ raw \subseteq Ids /\ rows \in Rows /\ Len(rows) <= Episodes

\* A status on disk means that everything the run started was stopped first,
\* however it ended: what is still alive is what such a stop failed to remove.
\* A run that is reported as succeeded has left no evaluator and no process,
\* only a container whose removal failed in silence.
ReportedIsStopped ==
  "status" \in files =>
    /\ Launched /\ service.state # "absent" => "service" \in left
    /\ SimRuns => "sim" \in left
    /\ backend # "open"
    /\ fault = "none" =>
         "sim" \notin left /\ ("service" \in left => config.policy = "docker")

\* A run is reported as succeeded only with a record of every episode it was
\* to run, in order, whoever ran them.
SucceededIsWhole ==
  ("status" \in files /\ fault = "none") =>
    /\ Len(rows) = config.seeds
    /\ \A i \in 1..config.seeds : rows[i].ep = i

\* An action is executed in the episode whose observation it answers.
ChunkOfThisEpisode ==
  pc = "step" /\ roll.chunk.left > 0 => roll.chunk.of = roll.ep

\* A service that has always answered has served every step: an act of the
\* rollout finds its episode reset, and none falls back.
CalmIsServed ==
  calm => roll.fallback = 0 /\ \A i \in DOMAIN rows : rows[i].fallback = 0

\* A run ends, but for an OpenPI service that keeps the connection and never
\* answers.
Ends == <>(Over \/ (Speaks = "openpi" /\ service.state = "mute"))

-----------------------------------------------------------------------------
(* What makes those inductive.                                              *)

\* Without a handle the service is not there, but for a stop that failed, and
\* the same of the evaluator after the wait; a run is written down only when
\* everything was stopped, and nothing starts again after that.
StoppedInv ==
  /\ Launched /\ service.state # "absent" /\ "service" \notin left => handle
  /\ handle => pc \notin {"backend", "setup", "launch", "close", "write", "done"}
  /\ pc = "write" => backend # "open"
  /\ SimRuns /\ "sim" \notin left => pc \in {"wait", "killed"}
  /\ sim.state \notin {"none", "gone"} =>
       pc \notin {"backend", "setup", "launch", "health", "describe", "simulate"}
  /\ "status" \in files => pc \in {"done", "raised"} /\ ~handle
  /\ left # {} => pc \notin {"backend", "setup", "launch", "health", "describe",
                            "reset", "step", "simulate", "wait"}
  /\ "sim" \in left => fault # "none"
  /\ "service" \in left /\ fault = "none" =>
       config.policy = "docker" \/ (pc = "raised" /\ files \cap {"status"} = {})

\* A calm service stays up from its first answer, and knows the episode.
CalmInv ==
  calm =>
    /\ service.state \in {"absent", "starting", "ready"}
    /\ pc \in {"describe", "reset", "step"} => Answers
    /\ pc = "step" => ~Unknown(roll.ep)

\* The records so far are those of the episodes before this one.
WholeInv ==
  /\ \A i \in 1..Len(rows) : rows[i].ep = i
  /\ pc \in {"backend", "setup", "launch", "health", "describe", "simulate",
             "wait"} => rows = <<>>
  /\ pc \in {"backend", "setup", "launch", "health", "describe"} => roll.ep = 1
  /\ pc \in {"reset", "step"} => Len(rows) = roll.ep - 1
  /\ pc = "handler" => fault # "none"
  /\ pc \in {"stop", "close", "write", "done"} /\ fault = "none" =>
       Len(rows) = config.seeds
  /\ pc \in {"reset", "step"} => Stepped
  /\ pc \in {"backend", "setup", "launch", "health", "describe", "simulate"} =>
       raw = {} /\ sim = [state |-> "none", ep |-> 1]
  /\ sim.state = "health" => sim.ep = 1
  /\ sim.state \in {"reset", "act"} => sim.ep <= config.seeds
  /\ pc = "wait" =>
       raw = 1..(IF sim.state = "exited" THEN config.seeds ELSE sim.ep - 1)

IndInv ==
  /\ StoppedInv /\ CalmInv /\ WholeInv
  /\ ReportedIsStopped /\ SucceededIsWhole /\ ChunkOfThisEpisode /\ CalmIsServed

-----------------------------------------------------------------------------
(* What the documents and comments say and the code does not do.            *)

\* orchestration/supervisor.py:4: the supervisor tears the service down on stop.
TornDown == "status" \in files /\ Launched => service.state = "absent"

\* docs/design/eval_orchestration_interface.md:1211: a policy runtime that
\* exits unexpectedly fails the job.
DeadPolicyFailsRun ==
  (Launched /\ service.state = "dead" /\ roll.fallback > 0) =>
    ~(pc = "stop" /\ fault = "none")

\* runtime/docker.py:160: the run directory has the container's output.
SimLogKept == simLog # "lost"

\* artifacts/store.py:9: a status is always written, even on failure.
AlwaysReported == pc = "raised" => "status" \in files

\* runner.py:244: a state that blew up fails its episode.
BlowUpFails ==
  \A i \in DOMAIN rows : rows[i].blewUp => rows[i].status = "failed"

\* docs/design/eval_orchestration_interface.md:1073: one row per episode.
EveryEpisodeHasARow ==
  "status" \in files => raw \subseteq {rows[i].ep : i \in DOMAIN rows}
=============================================================================
