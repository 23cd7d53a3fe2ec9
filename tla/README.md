# Embodied-Control: a verification development

TLA+ modules of the parts of this repository that decide who commands a robot, when, and
on what evidence; TLC configurations that check them; and proofs that TLAPS checks.

    tlc -config UnitreeWriter_all.cfg MCUnitreeWriter     (a module with an MC module)
    tlc -config EvalRun_all.cfg EvalRun                   (one without)
    tlapm Lifecycle_proofs.tla                            (the other *_proofs.tla alike)

`<Module>_all.cfg` are the runs of section 3, `<Module>_more.cfg` check the type invariant
and further properties of the same instance, and each property in `<Module>_claims.cfg` is
a claim, most of them of a document or a comment, that TLC refutes (section 5).

Paths below are relative to `src/`; `robot/`, `lowlevel/`, `orchestration/` and the other
packages are under `src/src/embodied_control/`, `native/` is `src/native/ec_native/src/`.

## 1. The system

A Unitree G1 is driven in one of two ways: by the vendor's own controller (the *motion
service*) or by this program, which publishes `rt/lowcmd` itself. The program takes the
joints over from the vendor, ramps them to a pose, runs a learned whole-body policy whose
commands come from a planner in another process, and gives the joints back. The same
policies are evaluated in simulation by a Python loop and by an orchestrator that knows
nothing of the robot.

| Component | State it keeps | Operations | Talks to |
|---|---|---|---|
| rt/lowcmd writer (`native/unitree_backend.cpp`) | mode, gate, vendor_released, latched fault and two fault counters, ramp target, the last state and the last command with their ages | `open_damp_gate release_vendor begin_initialization engage_control hold damp force_damp close_gate restore_vendor`; the DDS callback; the 500 Hz loop | lifecycle (calls), control runtime (calls), motion service (RPC), robot (DDS) |
| Lifecycle (`robot/lifecycle.py`, `gates.py`, `base.py`) | state, hoist and lower acknowledgements, planner and tracker references, transition log | `advance auto go hold damp emergency_damp recover abort retake ack_* poll shutdown`; one gate handler per state | writer and control runtime (calls), base client (RPC), operator (keys), session |
| Control runtime (`native/native_fake_runtime.cpp`) | mode, fault, tick count, reference index, the active command, the plan and its slot, the outstanding request, countdowns | `start wait request_stop set_reference_paused`, the tick | writer or simulation (calls), mailbox (two slots) |
| Planner workers (`lowlevel/publishers/native_pull.py`, `native_oracle.py`, `stdio_chunk_relay.py`) | the last request taken, the last prediction, the head's process | take the newest request, ask the head or the reference, publish; close and report | mailbox, head (lines of JSON) |
| Shared-memory mailbox (`native/shm_command_slot.hpp`) | sequence word, packet words | `publish snapshot`, create, connect, unlink | both sides of it |
| Tracker core (`native/native_tracker_core.cpp`, `onnx_engine.cpp`, `lowlevel/tracker.py`, `decoders.py`) | history buffers | observe, infer, decode | runtime |
| Simulation backend (`native/native_backend.cpp`) | physics thread, damp request, two seqlocks | `start stop reset write_target damp healthy` | runtime |
| DDS plant and vendor (`native/mujoco_dds_plant.cpp`, `plant_vendor.cpp`) | owned, fsm_id, hoist mode, reset generations, the last command, holding | three RPC services, the `rt/lowcmd` callback, the physics loop | writer (DDS), base client (RPC) |
| Experiment session (`robot/session.py`) | selection, planner, lifecycle, tracker, episode evidence | `select start_planner stop_planner rebuild ensure_built reset_sim poll close` | lifecycle, planner process |
| Operator console and command line (`robot/tui.py`, `console.py`, `shell.py`, `cli.py`) | keys read, the prompt, one queue, one worker thread, the exit code | keys, Ctrl-D, Ctrl-C, quit; a served run; a scripted lifecycle | session, lifecycle, control runtime |
| Rehearsal gate (`robot/rehearsal.py`) | reports on disk | find the newest matching rehearsal and judge it | lifecycle (PRECHECK) |
| Models and bundles (`models/store.py`, `pin.py`, `lowlevel/bundle.py`) | a bundle's directory, its pin, the repository's revisions | `verify materialize ensure_model fetch_and_pin push_model`, `PolicyBundle.load` | every command that loads a bundle |
| Python loop and publishers (`lowlevel/loop.py`, `command_buffer.py`, `observation.py`, `safety.py`, `publishers/*.py`, `latent.py`) | the publisher's cursor and queue, the newest packet, watchdog counts, observation histories | one tick: check, publish, snapshot, track; reset per episode | GR00T service, a process that pushes |
| Orchestration (`orchestration/*.py`) | running processes, episode results | stepped and delegated evaluation, fallback, cleanup | transport, runtimes, artifact store |
| Transport and runtimes (`transport/*.py`, `runtime/*.py`) | server process or container, chunk cursor | launch, wait until healthy, infer, chunk, stop | policy server |
| Artifacts and metrics | files of a run directory | write, aggregate | orchestration |

### What is hard in it

* **Five threads share the writer's mode** (operator, UI thread, DDS callback, control
  thread, 500 Hz loop). Every store is atomic, almost every decision is a load, a check and
  a store, and `force_damp` deliberately takes no lock.
* **The lifecycle believes things about other threads and about the world** (the mode of
  the writer, whether the vendor is active, whether the robot hangs in its straps), and
  each belief may be old by the time a gate acts on it. Handlers fail in the middle.
* **The runtime runs on a clock, the planner does not.** Replies are late, reordered
  against a restart, of another episode, or never come; plans have to be executed at the
  ticks they were predicted for.
* **Numbers decide what is new.** Buffers, workers and slots each keep the last number
  they saw, and publishers, controllers and episodes restart.
* **Two processes share memory without a lock**, and either may be killed and replaced.
* **Files are evidence.** A directory is fetched, pinned, loaded and overwritten by several
  commands, and a robot is let loose on what a record of an earlier run says.
* **Cleanup**: evaluation, sessions, consoles and containers have to stop what they started
  on every path, also when stopping fails or Ctrl-C lands in it.

### What makes each component correct

Writer: it drives only after a release; an open gate is never mute; nothing overrides an
emergency damp; a fault or a silent policy damps. Lifecycle: one controller at a time; the
state is true of the machine under it; after a fault nothing drives before a precheck; every
run is left. Runtime: only commands of this episode reach the joints, at the ticks they were
meant for; a silent planner stops the robot. Workers: what is published answers the request
whose number it bears, and the newest request is answered. Mailbox: a reader never sees half a
packet, never an older one after a newer one, and sees the last one in the end. Plant: frames
count only while the vendor does not own the robot. Session: a tracker is only connected to a
planner started for it, is never closed under joints it drives, and each episode is recorded
once, under what it was run with. Console: a Ctrl-D is answered, no process leaves joints
driven, an exit code of zero is a success. Rehearsal gate and models: a robot is driven only
behind a clean run of the plant with the same identity, from the bytes that were pinned. Python
loop: the newest command of this episode is played, on its schedule, and a robot without one is
damped. Orchestration: what was started is stopped; an action is executed in its own episode; a
run ends.

## 2. The modules

| Module | Models | Depends on |
|---|---|---|
| `UnitreeWriter` (`MCUnitreeWriter`, `WriterAndLoop_proofs`) | the writer at the grain of its atomic loads and stores | |
| `Lifecycle` (`MCLifecycle`, `Lifecycle_proofs`) | every key, gate handler, poll and emergency over the native calls | refines `Handover` |
| `Handover` | what a hand-over of the joints is | |
| `PolicyRuntime` (`MCPolicyRuntime`, `PolicyRuntime_proofs`) | the control thread's tick, its requests and plans, and the planner worker | uses a latest-wins cell in both directions |
| `PlannerWorkers` (`MailboxAndWorkers_proofs`) | the processes at the other end of those cells, with the head behind them | |
| `Mailbox` | that cell | |
| `ShmSlot` (`MailboxAndWorkers_proofs`) | the seqlock, word by word, with writers that die | refines `Mailbox` |
| `DdsPlant` (`MCDdsPlant`, `PlantAndConsole_proofs`) | the simulated robot behind `rt/lowcmd`: vendor services, gantry, physics loop | the other end of `UnitreeWriter`'s wire |
| `Session` (`MCSession`, `Session_proofs`) | the experiment session under the console's worker, key reader and watcher, and the planner process | sees `Lifecycle` from outside |
| `OperatorConsole` (`PlantAndConsole_proofs`) | the commands in front of a robot, from their start to the end of their process | sees `Session` and `Lifecycle` from outside |
| `HardwareGate` (`MCHardwareGate`, `HardwareGate_proofs`) | what stands between a checkpoint and the hardware: model store, bundle, rehearsal records | the evidence behind `Lifecycle`'s PRECHECK |
| `ControlLoop` (`WriterAndLoop_proofs`) | `ec lowlevel run`: publishers, buffers, tracker and watchdogs of the Python loop | |
| `EvalRun` (`EvalRun_proofs`) | one evaluation run: policy service, stepped or delegated rollout, cleanup, report | |

The layers meet at their calls. `UnitreeWriter` shows what happens *inside* the native
calls; `Lifecycle` takes each native call as one step and looks at the order of calls;
`PolicyRuntime` takes the two shared-memory slots as cells, `ShmSlot` shows that they
are, and `PlannerWorkers` has the process on the other side in full. Definitions under a
comment that starts with "Bug" are not the code: each is a plausible error of the
definition that follows it, which a property detects.

### UnitreeWriter

Variables: `mode`, `gate`, `released` (the three atomics), `latched` and `link` (the
callback's fault and the age of the last state), `command` (the age of the last target),
`target` and the ramp, the vendor's service, and one program counter per thread. An
operation of the code that loads, checks and later stores is one action for the check and
one for each store, so that every other thread's store fits between (`Hold`, `HoldMode`;
`EngageControl`, `EngageControlMode`; `BeginInitialization`, `BeginInitRpc`,
`BeginInitTarget`, `BeginInitMode`, `BeginInitCheck`, `BeginInitGate`; ...). The 500 Hz
loop is `WriterWake` (the loads), `WriterGuard` (the watchdogs), the ramp's three outcomes
and the gate and send steps. Poses are model values; ages are "none", "fresh", "stale".

Merged or left out: consecutive loads of one thread with no store between them; CRC
errors, frames of another machine mode, `writes_enabled` false and real-time scheduling.
`skip_motion_switcher` is only used after the release, as the tools use it. Timing enters
at one point: the 100 ms and longer sleeps of the callers outlast a 2 ms writer tick that
is in flight (`CloseGateSleep`).

### Lifecycle

`pc` is where the request that holds the lock stands, `goals` what it still has to
attempt; a gate handler is one step per stretch between two waits. The keys are
`Advance RequestAuto Go RequestHold RequestDamp RequestRecover Abort Retake AckHoisted AckLowered
Shutdown`; the watcher is `PollFault`, `PollHold`; the handlers have the code's names
(`EnterPrecheck` ...); `EmergencyDamp` takes no lock. What a gate measures is a free
outcome. The native threads act between steps: `HardwareFault WriterWatchdog RampEnds
ThreadEnds RuntimeFault`. The configuration is a variable that never changes, so that one
run covers every `auto_ack` and `end_state`. The defaults `require_vendor`,
`damp_hands_back`, `retake_precheck` and `slack_on_run` are taken as they stand. Four
history variables (`faulted`, `threw`, `tripped`, `strap`) exist for the properties, and
`unheard` for the refinement.

`Handover` is the abstract specification: whether the vendor's service holds the joints and
what our writer sends (nothing, damp frames, or it drives). The service is let go only while
our damp frames are on the wire, our writer drives only when the service was let go, and the
service comes back only after our writer is silent. One thing it does not promise, because
the code does not keep it: the release throws `CheckMode`'s result away
(`native/unitree_backend.cpp:638`, `:650`), so that a switcher that does not answer leaves the
name empty, as it is without a service. Such a service is there `unheard`, our writer may drive
beside it, and it is heard of again when `vendor_mode` answers or it is selected.
`Lifecycle` implements `Handover` under the mapping given with `HandsOver`, where `unheard` is
a history variable; `ConfirmedIsReleased` (section 5) is the claim that is false because of it.

### PolicyRuntime

One step `Tick` is one control period, and the only thing that moves the clock; it runs
the functions of `one_tick` on the record `loop` in the code's order: `Read` (a reply),
`Scheduled` (accept a plan, step it, ask ahead), `Absent` and `Driven` (watchdogs and the
command). `Start`, `Handshake`, `Wait`, `ThreadEnds` bracket an episode; `Take`, `Reply`,
`PlannerDies`, `PlannerRestarts` are the worker, `Push` the publisher that is not asked.
`setup` chooses the kind (plan, chunk, oracle block, pushed command) and its sizes. A packet
with the tag of a direct command drives at once in every setup but the oracle's, as in
`read_response`. What may fail in a tick is its input: the state or the mailbox before the
reply is read (`Before`), the encoder or the tracker after it (`Later`). The code gives a
broken reply, a mailbox that cannot be read and an encoder that fails one fault; the module
keeps them apart. `HandshakeFails` is a mailbox that cannot be read while `start` waits.
`prompt` is the assumption that a reply is there by the time the runtime's lead has
passed; without it the worker is as late as it likes. Stopping by request and by the tick
limit are both `ThreadEnds`. Not modelled: windows a service selected itself, and the
memory order of the counters a user interface reads.

### DdsPlant

The other end of the wire: the simulated robot. Four kinds of threads share its atomics:
the `rt/lowcmd` callback (`LowCmdHandler`, `LowCmdHandlerStore`), the RPC servers of the
sport service (`SetFsmId`), the motion switcher (`ReleaseMode`, `SelectMode`) and the plant
service (`Hoist Lower Slack Reset`), and the physics loop (`Wake`, then `ResetData
ResetPrevOwned MarkResetApplied`, or `HandOver Capture Pull Drive`). Every store of a server
and every load of the loop is a step of its own; a server handles one call at a time, which
`sport`, `switcher` and `plant` say. `Start Stop WaitForStop ResetStopped` are the owner's.

What a frame says is abstract. Its age is "now", "before" (the joints changed hands since
it passed the callback's check) or "foreign" (and the loop has noticed that). Two
assumptions come from outside the two files: `Brief`, a callback in flight (microseconds)
meets at most one wake-up of the 2 ms or slower loop and one hand-over, so that the words of
the frame slot need no steps of their own; and `Resetting`, the client of `Reset` waits until
the reset is applied or for two seconds (`lowlevel/native_core.py:724`), and its caller
does not take or give the joints meanwhile. Without `Brief` a callback that is held up
across a hand-over and back could store a foreign frame over the emptied slot. Left
out: MuJoCo's dynamics, sensor noise and the state log, real-time configuration.

### Session

Three threads enter the session. The worker runs one key at a time; a key that waits for
another process is several steps: `Rebuild` or `ClimbUnbuilt`, then `RebuildShutdown
RebuildClose RebuildPlanner StartPlanner`, then `WaitSlots` or `WaitSlotsTimeout`, then
`Build` or `BuildFails`; a reset of the simulation is `ResetSim ResetForgets`. The watcher
polls (`Poll`) and, if that ended a run, files the episode (`WatcherMarks WatcherWrites`)
under the lock of the lifecycle, which is not a lock of the session. The key reader stores
the emergency damp (`EmergencyDamp`) past queue and lock. Beside them the run ends, the
writer damps, the planner makes its mailboxes (`PlannerCreates`) or dies.

`life` is the lifecycle seen from outside: the class of its state ("ladder" stands for the
owning states up to PRIMED, "running" for BLEND_IN and RUNNING), its episode count, and
where the object lies, since `id()` is the marker of a filed episode. What a request
reaches is a free outcome among those the `Lifecycle` module allows, so that a failed gate
is always possible. `life.sel` and `life.mail` remember what the tracker was built for and
the mailboxes it was connected to; `ended` is the episode that ended last and the
selections its record was labelled with. A record reads the selection several times: once
in `WatcherMarks`, again in `WatcherWrites`.

Left out: `close` at the console's exit, a session without mailboxes, an episode record
that fails for the disk's sake, the prompt, the diagnosis and the drawing. A planner that
is stopped and started with `p` while a tracker is open leaves the tracker connected to the
old mailboxes until the next rebuild; `OwnPlanner` speaks of what it was connected to.

### ShmSlot

`word[0]` to `word[Words]` are the packet's own number and its payload, `sequence` the
seqlock. `Publish`, `StoreWord`, `Finish` are the writer; `Snapshot`, `LoadWord`,
`LoadSequence`, `CheckOld`, `CopyWord`, `Deliver` or `GiveUp` the reader. `Crash` kills
the writer, inside `publish` only if `CrashInside`; `Restart` is its successor. The words
are atomics in release/acquire order in the code, so that a step per word is exact.

### PlannerWorkers

The loops of `run()` of the chunk worker, the latent-plan worker and the oracle worker, and the
older relay, in one state machine whose `config` says which: `Poll` (a number that is new, then
the tag), `AskHead` and `ReadHead` (one line written, one line read), `PublishResponse`, or
`Oracle`, which builds a block from the reference. `main` is the command around it (`Start`,
`Leave`, `Ended`, `Close` with its report). The head (`HeadAnswers`, `HeadFails`) may write a
line that is no JSON before its answer or after it, answer twice, answer wrongly, hang or die;
`service.twice` remembers that it has answered a line twice. The controller (`Asks`,
`Restarts`) asks faster than it is answered, `Lead` ticks ahead of where it is, or from where
its reference is pinned; it starts new runs, which go on numbering, and is restarted as a
process, which numbers from 1 again on the same mailboxes. A prediction is known by the request
it answers and the one that seeded it. The relay skips noise, publishes what it can reshape and
takes any other number for news, as its code does.

### ControlLoop

One tick is `CheckState`, then for a publisher of this process `Tick` (`Playback`, `Encode`
or `Gr00t`) or `TickFails`, then `Unavailable` or `Track`; `Reset` starts an episode,
`EndTick` and `EndEpisode` end it, `Report` closes and writes. `job` chooses the publisher
(reference playback, onboard encoder, latent source, GR00T service, or packets that another
process pushes over ZMQ or shared memory) with its options. `Push PusherRestarts` are that
process, `ServiceHangs ServiceDies` the GR00T service. A latent is known by the episode,
tick and goal it was asked for; an observation's history is the ring of one term, whose
frames are episode and tick. A latent job runs the same publisher, buffer and tracker
without the safety envelope, which `Playground` says. The goal of a latent is the episode's,
or from `job.switch` on that of a `goal_schedule`, which wins (`Goal`). A snapshot of shared
memory may be none although packets were published (`MayGiveUp`: it met a `publish` in each
of its attempts; `Locked`: the pusher died inside one), and that tick then has no observation:
`hist.seen` is the history of the ticks that had one. A GR00T service answers each request
once here; one that answers twice is a case of `PlannerWorkers`.

Simulated time moves only in `write_command`, so that a state is never old when the loop
looks at it: `state_absent` cannot occur with the two backends the runner builds, and the
module has no step for it. Left out: what a latent says, decoding, metrics, and
`AsyncChunkPullClient`, which only the tests construct.

### EvalRun

`pc` is where `run_eval` stands: `BuildBackend SetUp Launch WaitHealthy Describe`, then the
stepped rollout (`ResetEpisode`, `Ask` or `Fallback` or `AskRaises`, `Play`,
`FinishEpisode`, `StepRaises`) or the delegated one (`LaunchSim`, `SimEnded`, `SimTimeout`,
with the evaluator process `SimHealthy SimReset SimEpisode SimFails`), then `Handle Stop
Close Write`. `Raise` sends each kind of exception where the code's handlers send it: a
`RunFailure` and a handled error to the report, an interrupt past it. `Interrupt` is a
SIGINT anywhere in the try block, `Killed` a SIGTERM anywhere. The service is a process
that answers, cannot be reached, or keeps the connection and says nothing; the three
transports fail differently in the last two cases, and `Unserved`, `Unknown` and the
disjuncts of `Fallback` say how. Actions are known by the episode they were asked for.
A stop (`StopService`, `StopSim`) gives the handle up whatever comes of it: it may raise (a
process that survives the wait after SIGKILL, a container whose log cannot be read before
`rm -f`) or, for a container, fail in silence, since `rm`'s exit code is not looked at.
`left` is history: what a stop was sent to and did not remove. OpenPI's socket, once closed,
stays closed. An evaluator may be given fewer seeds than episodes (`backend_config`).
Left out: encodings, image building, the validation's rules, averages.

### OperatorConsole

Six commands (`cmd.kind`): the lifecycle console with its curses screen and its worker thread
(`HandleTui`, `Take Begin Succeeds Raises WorkerEnds`), the plain one and the two shells that
run an action where they read the key (`HandleKey`), a tracker that serves without an operator
(`Engage CommandTimeout ServeEnds`, `ControlTicks ControlEnds`), and the scripted lifecycle
(`Climb Go Climbed Ran Recover`), which climbs to the target of `--until` (a rung, PRIMED, or a
state beyond the ladder) and goes only in PRIMED. `wire` is what an action makes of the joints
and whether the tracker is open and the vendor reached; `tty`, `prompt` and `queue` are the
keys on their way. Each command's own clean-up is `Join CloseSession CloseTracker CloseRobot
CloseNative`, its exit code `Code`, and `Interrupt` is a Ctrl-C anywhere, clean-up included,
where it ends the process (`Killed`): the native destructor damps, unless a daemon thread (the
worker in an action, the watcher in a poll) still holds the runtime. Which gate an action takes
is left to `Lifecycle` and `Session`. A process that is killed without an exception is not
modelled: there the writer dies with it and the robot's own watchdog has to act.

### HardwareGate

A bundle is two files, the manifest and the weights it hashes; a file's content is the
export it comes from, or part of one: `copyfile` truncates first. `Checkpoint` gives the
`checkpoint_sha256` in each export's manifest, which exports may share and which may be empty:
that hash, the motion and the job's `command_source` are the identity that a record carries
and the gate compares (`RunIdentity`, `Matches`). The model store is `Start` (`ensure_model`),
`FetchFile CopyFile VerifyAgain` (`materialize`) and, from another terminal, `Command
FetchCopies FetchPins PushUploads PushPins CommandEnds` (`ec models fetch`, `push` and the
local pin). `LoadManifest HashWeights` are `PolicyBundle.load`; `Build` makes tracker and
identity. A lifecycle is reduced to how far it got: `Climb` with the gate
(`RehearsalEvidence`), `Fault`, `HandBack`, and `Quit` or `Rebuild`, which write the record
over the one in the same directory; `Kill` writes nothing; `Day` makes records older.
`rehearsed` and `lapsed` are history, of what was really run: the first holds manifest, weights,
motion, source and mode (`Ran`) of the runs that the plant finished cleanly, the weights as
the tracker read them at `Build`; the second the identities whose last run was not like that.

## 3. The runs

Deadlock checking is off in all runs: each specification ends with its run or its process,
or has bounds in its guards (`UnitreeWriter` and `Lifecycle` have none, but a lifecycle
that was shut down stops).

| Run | Shows | Distinct states |
|---|---|---|
| `writer` (UnitreeWriter_all) | `DriveNeedsRelease`, `OpenGateSpeaks`, `EmergencySticks`; under fairness `FaultDamps` | 237 thousand |
| `lifecycle` (Lifecycle_all) | `OwningHasGate`, `FaultNeedsPrecheck`, refinement `HandsOver`, under fairness `RunningEnds` | 1.1 million |
| `policy` (PolicyRuntime_all) | `CommandOfThisRun`, `PlanIsAligned`, `PromptPlannerServes`, `SilenceStops` | 9.4 million |
| `workers` (PlannerWorkers_all) | `AnswersItsRequest`, `BlockCovers`, under fairness `NewestAnswered` | 1.9 million |
| `slot` (ShmSlot_all) | `ConsistentView`, refinement `IsMailbox`, under fairness `Fresh` | 59 thousand |
| `plant` (DdsPlant_all) | `CleanSlot`, `ResetIsDone`, `HoldsWhereHoisted` | 5.5 million |
| `session` (Session_all) | `OwnPlanner`, `HeldEpisodeIsLabelled`, `ClosesAtRest` | 8.1 million |
| `console` (OperatorConsole_all) | `LeavesLimp`, `ZeroIsSuccess`, under fairness `DampIsAnswered`, `RunsEnd` | 165 thousand |
| `gate` (HardwareGate_all) | `RehearsedFirst`, `PinnedBytesLoad` | 3.4 million |
| `loop` (ControlLoop_all) | `PlayedOnTime`, `AskedInThisEpisode`, `RecentHistory`, `UnfedStops`, `PlaysNewest`, under fairness `Ends` | 2.8 million |
| `eval` (EvalRun_all) | `ReportedIsStopped`, `ChunkOfThisEpisode`, `CalmIsServed`, under fairness `Ends` | 927 thousand |
| `writer_emergency` (UnitreeWriter_EmergencyDampLands) | a comment that the code contradicts (section 5) | |

Some of these say less, or other things, than a reader might expect.

* `RehearsedFirst`: what drives a robot has been rehearsed as far as the gate can tell, that
  is by its identity; by those very bytes only while nobody uses `ec models` on the directory.
  `ExactBundleRehearsed` and `ModeRehearsed` (section 5) are what the documents say.
* `ReportedIsStopped`: a status on disk means that everything the run started was sent a stop
  before; what is still alive is in `left`. `TornDown` (section 5) is the stronger claim.
* `AnswersItsRequest` holds as long as the head has answered no line twice: a worker pairs
  lines with numbers by their order alone, and one answer too many shifts every later one.
* `BlockCovers`: with the default's slack of a hold, a block lasts through a reply that is a
  hold late and through the release of a pinned reference. The shortest block that
  `--horizon` may ask for has no slack and lasts only where neither happens.
* `AskedInThisEpisode` speaks of the goal in force at the tick of the request, the episode's
  or the schedule's. `RecentHistory` is about consecutive ticks, but over shared memory about
  the last ticks whose snapshot was one.
* `LeavesLimp` has two exceptions: a shell whose last damp the vendor refused, and a console
  that a Ctrl-C cuts in its close while a daemon thread holds the runtime (a first Ctrl-C
  or `q`, the two seconds of `join` over a busy worker, a Ctrl-C then).
* `ZeroIsSuccess`: a script that exits with 0 stands where it was to come: at its target, and
  behind the run only if the target is PRIMED. `--until PRECHECK --go` does not go and
  exits with 0.
* `HandsOver` excludes two controllers except where the motion switcher did not answer.
* `DampIsFinal`: a damp is not left in its episode but by a direct command (`DampLatches`).

`CalmIsServed` is about the protocol of
three transports: a service that always answered finds every episode it is asked for reset,
so that a fallback action is never the client's own doing. `DampIsAnswered` says that a
Ctrl-D gets its action or the console's end behind any queue and any exception; that it
does not *wait* is false of the plain consoles (`DampNeverWaits`, section 5).

The `_more` configurations hold of the same instances: type invariants (the plant's stands in
`DdsPlant_claims.cfg`), the inductive
invariants that a component's module states for its proofs (`IndInv` of the lifecycle, the
control runtime, the session and the evaluation run, `EmergencyInv` of the writer, `LoopInv`,
`WorkersInv`, `ConsoleInv`), and
`StaleCommandLeavesControl` (writer); `HandedBackSilent`, `PolicyRunsInTheRun`,
`HoldJoined` (lifecycle); `RunningOutAsks`, `NothingOverrun`, `PlaysTheReference`,
`DampIsFinal` (policy); `SucceededIsWhole` (eval); `ReportIsWhole` (loop);
`ReapedAndReported` (workers, a part of `WorkersInv`).

**Bounds.** The writer and the lifecycle are finite by nature: no counter, every order of
calls of any length. One pose suffices for the properties of `writer`, two for the
question which target is published. `PolicyRuntime` has `MaxTicks = 6` control
periods in a behaviour and two episodes: two holds of a plan, a request with its late answer
and the exhaustion of the plan fit into one episode, and a second episode is needed to meet
a reply of the first. Plan shapes cover a hold of one tick, a lead longer than a hold, and
more than two slots. `DdsPlant` has three hoist generations (the
initial one, one before a reset and the reset's own), two resets that may overlap, and a
strap that is paid out in one step. `Session` has two builds of
at most two episodes, one selection whose planner a key may start and one it may not, on a
robot and in simulation, with and without autostart: an episode of the first build can still
be filed during the second, and a planner of either selection can outlive a build. Two
addresses tell whether two lifecycles lie at the same place; they are symmetric.
`ShmSlot` has a packet of three words besides its number (a packet of one word cannot
be torn in the middle), two attempts (the code's eight differ only in how often the reader
starts again) and four packets (two that overlap a copy, one before, one after).

`PlannerWorkers`: three requests per controller process (one being answered, one superseded,
one newest), two runs and one restart; a window of two frames two apart, a hold of three with a
lead of two and a motion of three frames let a block end inside the motion and beyond it, and
let a pinned reference be released ahead of its block. `OperatorConsole`: four keys (a verb,
another queued behind it, a Ctrl-D, a quit) and two interrupts, the second of which lands in
the clean-up of the first. `EmergencyDamp` never raises here; that it does on a closed tracker
is `Session`'s `DampAnswers` (section 5). `HardwareGate`: two consoles, two artifact
directories, two motions, two exports with checkpoints of their own and jobs for the plant and
the robot with two command sources, two starts and one event (a command on the directory, a
rebuild, a kill or a day that passes the age limit); consoles and directories are symmetric.
`HardwareGate_claims.cfg` has exports that share a checkpoint. `ControlLoop`: two episodes of
seven ticks, four frames with a window of two beyond the first, a hold and two slots of two
ticks (so that an episode asks for three latents and outlives a prediction), a history of two
frames two apart, a goal schedule that switches at tick two (`Switches`; its later entries are
like the first), an absence of two ticks, and three pushed packets across one restart of the
pusher. `EvalRun`: two episodes of three steps with chunks of at most two, so that a chunk
outlives its episode, and one restart of an external service. Records sort by their names, of
four digits, in the order of the episodes (`Episodes <= 10000`).

**Fairness.** *Writer*: the 500 Hz thread runs, and a callback that has loaded the mode
stores it. Nothing is assumed of the operator or the network. *Lifecycle*: weak fairness
of the handlers, since every wait in them has a timeout, and of the poll, which gets the
lock whenever no request holds it (requests are finite, an operator's keys are not an
infinite stream). *PolicyRuntime* states its deadlines as invariants over ticks and needs
none; *DdsPlant*, *Session* and *HardwareGate* have safety properties only. *ShmSlot*: a
writer inside `publish` goes on, a reader polls and goes on; `Fresh`
also needs the writer to stop publishing, which the bound on packets brings about. A reader
against a writer that never pauses may give up for ever, and the code says so by its
eight attempts. *PlannerWorkers*: the worker's thread, its command's end and close, and a
head that is up and was asked; none of a head that hangs. *OperatorConsole*: the threads of
the command, each of whose waits has a limit, and the control thread once it has had a
first tick, since it then ends with its budget; none of the operator or the planner.
*ControlLoop*: the loop itself; a GR00T service that never answers stops it, since
`readline` has no timeout, and `Ends` excepts it. *EvalRun*: the host thread; nothing of
service and evaluator, and OpenPI's `recv`, which waits for ever, is excepted. The commands of
docker (`run`, `logs`, `rm`) have no timeout and are taken to return.

`PromptPlannerServes` needs room to ask (`RoomToAsk`). A plan must be longer than twice the
lead; the constructor (`native_fake_runtime.cpp:112`) only demands a lead shorter than the
plan. With a lead between half and the whole of a plan even a prompt planner may be late:
the shape is accepted and the watchdog has to catch it. An oracle block must have frames to
spare for the lead and all but one tick of a hold: the frame that the request names is
looked up when the block is taken, up to a lead later, and the block is read to the end of
the hold that began then. An earlier form of the condition that asked for less held at the
sizes TLC is given; the proof did not go through with it.

## 4. The proofs

TLAPS proves the following for every value of the constants, under no assumptions but the
named ones of each module: bounds are natural numbers, `NONE` is none of the values it stands
beside, a set of configurations has only
configurations that the code accepts (`SetupAssumption` is the checks of the runtime's
constructor), two lifecycles can lie at two addresses, and a bundle's export has none of the
reserved names (`NamesAssumption`). The bounds of section 3 are those of TLC: the theorems
hold for any number of ticks, builds, episodes, packets, consoles and steps.

| Theorem about | States | Needs |
|---|---|---|
| `UnitreeWriter`: `OpenGateAlwaysSpeaks`, `DrivingNeedsRelease`, `EmergencyDampSticks` | `OpenGateSpeaks`, `DriveNeedsRelease`, `EmergencySticks` | `GateInv`, `ReleaseInv`, `EmergencyInv` |
| `Lifecycle`: `OwningIsGated`, `FaultIsPrechecked`, `HandoverHolds` | `OwningHasGate`, `FaultNeedsPrecheck`, the refinement `HandsOver` | `LockInv`, `GateInv`, `ServiceInv`, `FaultInv` |
| `PolicyRuntime`: `OwnCommandsOnly`, `SilentPlannerStops`, `PlansStayAligned`, `PromptIsServed` | `CommandOfThisRun`, `SilenceStops`, `PlanIsAligned`, `PromptPlannerServes` | `Shape`, `Own`, `MailInv`, `SilenceInv`, `Aligned`, `WholeInv`, `Punctual`, `FedInv` |
| `ShmSlot`: `NoTornPacket`, `SlotIsMailbox` | `ConsistentView`, the refinement `IsMailbox` | `WordCounts`, `SlotIsWritten`, `CopyIsCurrent` |
| `DdsPlant`: `AcknowledgedIsReset`, `StrapsHoldWhereHoisted`, `ForeignNeverDrives` | `ResetIsDone`, `HoldsWhereHoisted`, `CleanSlot` | `ResetInv`, `StrapInv`, `FrameInv`, `PendingInv` |
| `Session`: `PlannerIsOwn`, `HeldIsLabelled`, `RebuildClosesAtRest` | `OwnPlanner`, `HeldEpisodeIsLabelled`, the action property `ClosesAtRest` | `OpenInv`, `FreshInv`, `RestInv`, `WatchInv` |
| `HardwareGate`: `RehearsedFirstHolds`, `PinnedBytesLoadHolds` | `RehearsedFirst`, `PinnedBytesLoad` | `IInv`, `PinInv` |
| `EvalRun`: `ReportedRunIsStopped`, `SuccessIsWhole`, `ChunkIsOwn`, `CalmServiceServes` | `ReportedIsStopped`, `SucceededIsWhole`, `ChunkOfThisEpisode`, `CalmIsServed` | `StoppedInv`, `WholeInv`, `CalmInv` |
| `ControlLoop`: `Watchdog`, `OnTime`, `OwnEpisode`, `HistoryIsRecent`, `NewestIsPlayed` | `UnfedStops`, `PlayedOnTime`, `AskedInThisEpisode`, `RecentHistory`, the action property `PlaysNewest` | `Unfed`, `Planned`, `Recorded`, `Pushed` (`LoopInv`) |
| `PlannerWorkers`: `AnswersOwn`, `Covers`, `Reaped` | `AnswersItsRequest`, `BlockCovers`, `ReapedAndReported` | `OneLineOut` and the rest of `WorkersInv` |
| `OperatorConsole`: `EndsLimp`, `SuccessIsTrue` | `LeavesLimp`, `ZeroIsSuccess` | `SuccessInv` and the rest of `ConsoleInv` |

So every safety property that a run of section 3 passes is a theorem. A proof module is about
one component, or about two that share no state (section 2 says which).

All but the gate also have a theorem for the module's type invariant (`TypeCorrect`;
`LoopTyped`, `WorkersTyped`, `ConsoleTyped`), for which the lifecycle needs `LockInv`, the
runtime `Shape`, the plant `FrameInv` and the bounds of calls under way, the session
`OpenInv`, and the evaluation run `WholeInv`. `LoopInduction`, `WorkersInduction` and
`ConsoleInduction` are the inductive invariants themselves, which the `_more` configurations
check. Of the properties in the table only `ChunkOfThisEpisode`, `ReapedAndReported` and
`LeavesLimp` (with what holds before there is a connection) are inductive beside the types.
What the strengthenings say, and why they are needed:

* *Writer.* `ReleaseInv` adds what each thread between its check and its store knows: an
  operator who has passed the release check of `begin_initialization` stands behind a
  released vendor, and nobody else can withdraw it. `GateInv` adds the same of the threads
  that are about to store a mode: none of them, loop and callback included, can store
  DISABLED behind an open gate. `EmergencyInv` adds that behind an emergency damp which met
  no store in flight none comes into flight: every thread checks the mode first.
* *Lifecycle.* `LockInv` says what a request that holds the lock may still attempt: the rungs
  above its state in order, or the way down, on which the damping comes before anything that
  closes the gate. Without it a handler's step could be taken from any state. `GateInv` ties
  the state to the writer's gate, with the one window (`SAFE.publish`) in which the gate is
  open before the state says so. `ServiceInv` says where the vendor is known to be gone, or was
  taken to be (`Left`); the refinement of `Handover` rests on it. `FaultInv` says in which
  states a faulted lifecycle can stand until a precheck passes. The refinement needs no more
  than these: each step of the lifecycle is a step of the handover or leaves the service and
  the wire as they are.
* *Control runtime.* The tick is a chain of functions on one record, so the invariants are
  predicates of a record that are carried through the chain, one lemma per function:
  `Own` (what is in use, pending or asked for belongs to this run), with `MailInv` (a
  sequence number names one request wherever it is found), so that comparing numbers compares
  requests; `Aligned(l, d)` and `Punctual(l, d)`, the properties `d` ticks on, since some of
  the functions run before the clock moves and some after it; `SilenceInv`, the stale limit as
  long as the mailbox drives. `Punctual` is the schedule's argument: a request goes out when
  exactly the lead is left, and what is left shrinks as the request ages. `FedInv` is the same
  of the frames of an oracle block; `WholeInv` says that a prompt planner's replies have the
  slots that were asked for.
* *Slot.* `Inductive` of `ShmSlot`: the sequence word counts the stores (`WordCounts`), the
  slot's words are those of the packet before the writer's cursor and of the last packet
  after it (`SlotIsWritten`), and what the reader has copied is current as long as the
  sequence word is still the one it loaded (`CopyIsCurrent`), which is the seqlock's argument.
  It assumes that no writer dies inside `publish` (`CrashInside = FALSE`; otherwise the
  property is false, section 5).
* *Plant.* `ResetInv`: the generation the loop has seen is covered by the reset it has just
  done while it stands before the acknowledgement. `StrapInv`: a strap whose target is out
  of date has a generation the loop has not seen yet. `FrameInv`: a frame changes hands once
  in its flight, and while a foreign one is in the slot or in a callback the loop still
  remembers that the vendor had the joints (`prevOwned`); it needs `PendingInv`, that a reset
  the loop is at has not been acknowledged, because a client that waits for it takes no joints.
* *Session.* `OpenInv` and `FreshInv` follow a rebuild: the old tracker is closed before the
  planner is touched, and the mailboxes the worker waits for are of the selection and unused.
  `RestInv`: the writer owns only under an owning state of an open tracker, and nobody
  reconfigures under one. `WatchInv`: an episode that ended in HOLD stays in HOLD under the
  selection it ran with from the watcher's mark to its write, which is why the second reading
  of the selection agrees with the first; in FAULT it need not (section 5, `EpisodeIsLabelled`).
* *Gate.* The gate reads records, and records are overwritten and outlived. `IInv` adds: a
  record that is there and passes vouches for a run of its identity that the plant really
  finished (`RecordsAreTrue`); a tracker's identity is that of the bundle it loaded, the
  motion it was built for and its job's source (`Built`); and a robot that was driven stays
  covered through a fault, from which its joints are damped again (`Driven`). `PinInv` says
  what holds until the first `ec models` command: repository and pin agree, and what a console
  has verified in a directory that others write to is from then on right or half-way through
  a copy, which the hashes of the manifest refuse. So all that is loaded before that command
  is one export, which is why what was rehearsed is then what drives, byte for byte.
* *Evaluation run.* `StoppedInv`: without a handle there is no service but one whose stop
  failed, which `left` remembers, and nothing starts again after the clean-up: a report is
  only reached with the handle given up.
  `WholeInv` counts the records with the episodes on the stepped and on the delegated path.
  `CalmInv`: a calm service stays up and knows the episode that the rollout is in.
* *Python loop.* `Unfed` makes the watchdog's limit a count: while the robot still stands as it
  was posed, every tick of the episode was one without a command. `Recorded` says what the
  whole ring holds, the frames between two strides too: each tick writes one slot and moves the
  cursor, so that the frame a term will show `Stride` ticks from now is already there. It also
  says that a history that has begun has a packet behind it, so that no tick is missing from
  the ring but, over shared memory, one whose snapshot gave up. `Planned` is the schedule of a
  local publisher: the ticks since its latent was asked for are the holds of the latents before
  it and those it has been held; what the prediction has left continues it slot by slot; the
  latent and its seed are this episode's and its goal was in force at its tick, which a reset
  restores by emptying the plan; and the buffer accepts each packet, because its highest number
  is the publisher's. `Pushed` is the same of a process that was not restarted: on the wire the
  numbers go up, beyond all that the buffer has seen, whatever was dropped, so that the last
  message read is the newest. The induction of `Recorded` needs arithmetic on the ring's
  positions and that of `Pushed` the maximum of the positions taken; both are lemmas (`Around`,
  `Turns`, `HasMax`, `MaxIn`).
* *Planner workers.* `OneLineOut`: as long as the head has answered no line twice, nothing
  between a worker and its head answers anything while the worker polls, asks or publishes,
  and while it waits there is one line, or one answer to it, of the request it waits for, with
  any noise around it. A worker asks again only when it has published what it waited for, and
  a line it does not expect ends it, so that nothing of one request is left to be taken
  for the answer to the next. `BlockCovers` is arithmetic on the horizon, from
  `WorkersInv`: an oracle's response is the block of its request.
* *Commands.* `SuccessInv` says what the exit code is made of while the command still runs: an
  interrupt has left its mark, the control thread runs only where its fault will still be
  read, and a script that has not failed has come as far on the way to its own target as its
  thread says. An interrupt that
  falls into a clean-up is why it speaks of every place of the main thread.

Model-checked only:

* All liveness (`FaultDamps`, `RunningEnds`, `NewestAnswered`, `Fresh`, `DampIsAnswered`,
  `RunsEnd`, and `Ends` of two modules): fairness is out of the prover's reach.
* The further properties of the `_more` configurations that no theorem above states (among them
  `ReportIsWhole` of the Python loop, which does not hold for a reference of one frame), and
  everything in section 5, where the counterexample is the point.

## 5. Where the code and its documents disagree

`writer_emergency` / `EmergencyDampLands` is a run of its own: `lifecycle.py:496-498`
promises that an emergency damp lands now. A thread that has checked the mode before it (the
end of a ramp, `engage_control`, `hold`, `begin_initialization`) stores over it after it.

The following are stated as properties beside the others and listed in
`<Module>_claims.cfg`; TLC stops at the first it refutes, so leave one of them in the file.
The exception is `ConsistentView` of `ShmSlot`, whose configuration is `ShmSlot_crash.cfg`.

| Module | Property | What the code does |
|---|---|---|
| `UnitreeWriter` | `HeldRobotStays` | `damp()` loads CONTROL, `hold()` stores HOLD, `damp()` stores DAMP: the held robot drops, which the comment at `unitree_backend.cpp:490` excludes. |
| | `WaitsWhereRampEnded` | A `begin_initialization` called in WAIT writes the new target before it stores INITIALIZE; the WAIT branch publishes it in one step (`unitree_backend.hpp:116-120`). |
| | `DrivesAlone` | A `restore_vendor` whose confirmation times out leaves `vendor_released_` true with the service active; so does a release whose `CheckMode` fails, since its result is not looked at (`unitree_backend.cpp:742`, `:650`). |
| `Lifecycle` | `PrecheckForgetsFaults` | A fault of an earlier episode must not block the next (`lifecycle.py:873`); the precheck reads a counter nobody resets. |
| | `ConfirmedIsReleased` | The result of `CheckMode` is thrown away: one that fails leaves the name empty, and USER_CONTROL_CONFIRMED, "vendor released; our damp frames own the joints", is reached with the service active (`lifecycle.py:1014`; `unitree_backend.cpp:638`, `:650`). |
| | `FaultIsThisRamp` | `ramp_faults` is never reset: after one trip every later ramp of the tracker is faulted (`lifecycle.py:1036`). |
| | `RetakeAnswers` | `retake` calls the link evidence outside `_attempt`; `set_hold_gain_scale` throws in HOLD and the exception leaves the request (`lifecycle.py:601`). |
| | `PrimedRests` | A blend-in that times out leaves PRIMED with the policy running and the writer in CONTROL (`lifecycle.py:1253`). |
| | `NextEpisodeCanStart` | A control thread that ended by itself is not joined on the way through DAMP or FAULT, and the next `start` throws (`lifecycle.py:1359`). |
| | `HandsBackTaut` | The hoist acknowledgement survives a lowering, so that a damp hands a standing robot to a limp vendor (`lifecycle.py:706`). |
| | `GateOnlyWhereOwned` | A gate that fails after `open_damp_gate` leaves the gate open in a state from which nothing closes it (`lifecycle.py:970`). |
| | `SteppingIsNoFault` | The watcher faults the two rungs whose writer damps by design (`lifecycle.py:642`). |
| `PolicyRuntime` | `StaleReplyHarmless` | A reply to a request before the last stop is stale, not a broken contract (`native_fake_runtime.cpp:441`); before the first request of the new episode there is nothing to compare it with, and it damps. |
| | `DampLatches` | A pushed command ends a damp (`native_fake_runtime.cpp:519`). |
| `ShmSlot` | `ConsistentView` | After a publisher that was killed inside `publish` the parity of the word is inverted for good, and readers accept torn packets (`shm_command_slot.hpp:109`). |
| `PlannerWorkers` | `RestartedAnswered` | A rebuilt tracker numbers its requests from 1, which is why a session restarts its planner with it (`docs/design/robot_lifecycle.md:607`); a worker started by hand goes on and skips them as old (`native_pull.py:82`). |
| | `SeedOfThisRun` | RTC seeds a run's first prediction with the last one of the run before; the in-process client forgets it at every reset (`native_pull.py:117`, `gr00t_service.py:19`). |
| | `PairedResponse` | A head that answers a line twice has each later answer published under the number of the request after its own (`native_pull.py:336-349`; `stdio_chunk_relay.py:4` "the paired response"). |
| | `ShortestCovers` | "The offset reaches `hold_steps` on the tick a new chunk is due": with a lead of two or more it reaches `lead + hold - 1` when the reference was pinned at the request and released before the reply, and the shortest block ends before that (`native_oracle.py:79`; `native_fake_runtime.cpp:398-400`, `:660-666`). |
| `DdsPlant` | `ReleasedInDamp` | `ReleaseMode` and the sport server's `SetFsmId` are a check and a store each on two threads: the service can be let go while its FSM leaves damp (`plant_vendor.hpp:18`). |
| | `NobodyTakesOver` | `Reset` stores `owned` in a plant started with a gantry but no vendor; no `ReleaseMode` is served there, and all of `rt/lowcmd` is rejected from then on (`plant_vendor.cpp:233`, `docs/design/robot_lifecycle.md:360`). |
| | `TightensWhereHoisted` | A `Hoist` between the load of the generation and the load of the mode pulls for one tick at full gain to the old target (`mujoco_dds_plant.cpp:709-726`, `plant_vendor.hpp:45`). |
| `Session` | `DampAnswers` | Ctrl-D between the close of the old tracker and the new lifecycle (up to the twenty seconds the mailboxes may take), or after a rebuild that failed there, calls `force_damp` on a closed tracker; the exception leaves the key reader and ends the console (`tui.py:1266`; `docs/design/robot_lifecycle.md:238` "from anywhere, never gated"). |
| | `BuiltIsUsable` | A rebuild that fails before the new tracker leaves the old lifecycle beside no tracker, and `ensure_built` answers "built" (`session.py:449`). |
| | `ReconfiguresUnowned` | `can_reconfigure` is true in DAMP and FAULT, where the writer still sends damp frames; the next verb then rebuilds (`session.py:295`; `session.py:7` "only allowed while nothing owns the joints"). |
| | `EpisodeIsLabelled` | In FAULT the selection can be changed while the watcher files the episode, whose start frame, directory and label then differ (`session.py:515`). |
| | `HeldEpisodeIsKept` | The marker of a filed episode is `id(lifecycle)` and the episode number; a later build at the same address has the marker of an earlier one, and its episode is not filed (`session.py:498`; `docs/design/robot_lifecycle.md:255` "Every episode that ends in `HOLD` writes `episodes/`"). |
| `OperatorConsole` | `DampNeverWaits` | The plain console and the shells run an action in the thread that reads the keys: a Ctrl-D stands behind it (`console.py:92`; `docs/design/robot_lifecycle.md:238`). |
| | `QuitWaits` | The worker is busy only a moment after it has taken an action from the queue; a `q` then, or with an action still queued, quits (`tui.py:1286` "busy"). |
| | `ClosedMeansDamped` | `G1Runtime.close` passes over a damp that the vendor refuses, and the shell says it is damped (`robot/g1.py:127`, `cli.py:2179`). |
| | `ExitDamps` | "Console exit: damp": a Ctrl-C in the close of a console, while a daemon thread holds the runtime, ends the process before the damp and without the destructor (`lifecycle.py:646`; `tui.py:1226`, `:1453`). |
| `HardwareGate` | `FaultedDoesNotVouch` | A fault is recorded as a transition that worked and is handed back like any run, so that the record passes (`lifecycle.py:758-764`; `tests/test_rehearsal_gate.py:94`, which builds its record by hand, and `rehearsal.py:9`). |
| | `NewestIsJudged` | A run in the same artifact directory overwrites the record of a failed rehearsal; an older clean one then vouches (`tests/test_rehearsal_gate.py:119`). |
| | `ExactBundleRehearsed` | "This exact bundle, on this motion": the gate compares the checkpoint hash of the manifest, which exports may share and which may be empty, and not the weights, which the tracker reads again (`rehearsal.py:7`; `cli.py:1106`). |
| | `ModeRehearsed` | The command source that has to agree is the job's; a console selects another, and the identity keeps the job's (`rehearsal.py:37`; `cli.py:1109`, `:1361`). |
| | `PinnedBytesRun` | The tracker reads the weights again when it is built; an `ec models fetch` between load and build changes them unseen (`README.md:404`). |
| `ControlLoop` | `SilentPusherDamps` | The buffer keeps its packet, so that a pushing process that falls silent is followed for ever (`safety.py:49`; `safety.py:1` "freshness watchdogs"). |
| | `RestartedIsHeard` | A pushing process that restarts numbers from 1; over ZMQ its packets are dropped until it overtakes itself (`command_buffer.py:175`; `:24` claims the same semantics for all buffers). |
| | `NoneBeforeTheFirst` | A snapshot is none also when it gives up beside a publish, after many packets: the tick has no observation and the history a gap (`shm_command_slot.hpp:130`, `:137-183`; `native_buffer.py:75`). |
| | `RanItsGoal` | `episode_goals.json` names the goal of the episode; a `goal_schedule` overrides it from its tick on and is not recorded (`runner.py:195`; `gr00t_service.py:151`). |
| | `LastIsHeld` | The last latent of a sequence is played for one tick, not for its hold (`latent_perturbation.py:242`). |
| | `RaisesDamped` | What leaves the loop otherwise than by a `SafetyFault`, `RuntimeError` or `ValueError` leaves the last joint command in force (`loop.py:114`; `loop.py:45`). |
| `EvalRun` | `DeadPolicyFailsRun` | A launched policy that dies is served by the fallback action and the run succeeds (`runner.py:221`; `docs/design/eval_orchestration_interface.md:1211`). |
| | `TornDown` | "Tears it down on stop": a stop that raises has given the handle up, so that the stop of the run does nothing and the status is written with the service alive; the exit code of `docker rm -f` is not looked at (`supervisor.py:4`, `:84-88`; `docker.py:162`). |
| | `SimLogKept` | The failure message asks for the log of a container that was just removed and writes the error over the captured log (`delegated.py:140`; `docker.py:160`). |
| | `AlwaysReported` | An interrupt, an error in the handler or in the clean-up leaves no status (`artifacts/store.py:9` "always"). |
| | `BlowUpFails` | A state that blows up while a fallback is played is recorded as completed (`runner.py:227`, `:244`). |
| | `EveryEpisodeHasARow` | Episodes that a failed or timed-out evaluator has recorded have no row (`docs/design/eval_orchestration_interface.md:1073`). |

Smaller observations made on the way, without a property: a `FAILED_PRECONDITION` of the
policy, which `eval_orchestration_interface.md:689` lets fail the job, is played over by the
fallback; a failed health wait stops the service before its log is read, so that
`policy_log_tail` is empty; `_matches` (`rehearsal.py:54`) ignores the start frame and the
ticks, a record without `finished_at` has no age, and a rehearsal that never reached the policy
vouches too; `fetch_and_pin` pins files of an earlier revision that still lie in the directory,
and `push_model` hashes before it uploads; a GR00T client whose service is not ready leaves the
child behind (`gr00t_service.py:102`), and its `readline` has no timeout (`:142`); playback and
encoder publishers never play the last frame of their reference.

## 6. Not modelled, and why

* Numerical code (observations' terms, ONNX inference, decoders, maths, MuJoCo's dynamics):
  no control state; its results are free outcomes where they decide something.
* Drawing, argument parsing, Python bindings, metrics, containers, notebooks and scripts.
* The motion service, the base client, DDS, the model repository, the policy heads: external.
  They are modelled by what the code calls and what it can get back, including RPCs that time
  out and processes that hang.
* `AsyncChunkPullClient` (`publishers/pull_client.py`): only tests construct it.
* Creation, connection and removal of the shared-memory segment; real-time scheduling, CPU
  isolation, memory order finer than a word.
* `native_backend.cpp`, the in-process native simulation: next in the plan.

## 7. Plan

1. **Native simulation backend** (`native_backend.cpp`): its schedule and stop protocol.
2. **Proofs**: the further properties of the `_more` configurations; every safety property of
   a run is proved.
3. **Composition**: `Session` over `Lifecycle`'s own gates instead of its view of them, and
   `PolicyRuntime` with the chunk and latent-plan workers of `PlannerWorkers` in place of
   its own worker.
