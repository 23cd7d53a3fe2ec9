---------------------------- MODULE OperatorConsole ----------------------------
(****************************************************************************)
(* The commands in front of a robot, from their start to the end of their   *)
(* process: the lifecycle console with its curses screen (LifecycleTui) or  *)
(* plain (KeyConsole), the tracker console, the robot shell, a tracker that *)
(* serves without a console, and the scripted lifecycle.                    *)
(*                                                                          *)
(* KeyConsole runs a key's action where it read the key.  LifecycleTui has  *)
(* a worker for the actions and stores a damp in the writer before that.    *)
(* An action is what it may do to the joints: the Lifecycle and Session     *)
(* modules have its gates.                                                  *)
(****************************************************************************)
EXTENDS Naturals, Sequences, SequencesExt

CONSTANTS
    MaxKeys,       \* keys the operator presses (bound)
    MaxInterrupts, \* Ctrl-C (bound)
    NONE

ASSUME ConsoleAssumption == MaxKeys \in Nat /\ MaxInterrupts \in Nat /\ NONE \notin Nat

VARIABLES
    cmd,     \* the command with its flags
    main,    \* where its main thread stands
    tty,     \* the keys pressed and not read
    prompt,  \* the text of the command line; NONE when it is closed
    queue,   \* the worker's queue
    worker,  \* the action that runs, and how far it is
    wire,    \* who drives the joints; whether the tracker is open, the vendor reached
    control, \* the control thread
    result,  \* what the command will say of itself
    typed    \* how many keys and interrupts there were

input       == <<tty, typed>>
console     == <<prompt, queue, worker>>
consoleVars == <<cmd, main, input, console, wire, control, result>>

Kinds    == {"tui", "plain", "tracker", "robot", "serve", "script"}
Sessions == {"tui", "plain"}
Consoles == Sessions \cup {"tracker", "robot"}
Natives  == Kinds \ {"robot"}  \* their process owns the 500 Hz writer

\* n takes a gate or a ramp, p the planner, a pose or a diagnosis.
Verbs == {"n", "p", "damp"}
Keys  == {"n", "p", "q", "/", "enter", "^D"}

Idle == [verb |-> NONE, at |-> "idle"]

\* until names a rung below PRIMED, PRIMED, or a state that is above the ladder.
Targets  == {"rung", "primed", "beyond"}
Commands == [kind : Kinds, writes : BOOLEAN, go : BOOLEAN, recover : BOOLEAN, until : Targets]

ConsoleInit ==
    /\ cmd \in {c \in Commands :
                  /\ ~c.writes => c.kind = "serve"
                  /\ c.go \/ c.recover \/ c.until # "primed" => c.kind = "script"}
    /\ main = "build"
    /\ tty = <<>> /\ typed = [keys |-> 0, ints |-> 0]
    /\ prompt = NONE /\ queue = <<>> /\ worker = Idle
    /\ wire = [joints |-> "vendor", open |-> TRUE, link |-> TRUE]
    /\ control = [running |-> FALSE, ticked |-> FALSE, engaged |-> FALSE, fault |-> FALSE]
    /\ result = [failed |-> FALSE, interrupted |-> FALSE, life |-> "idle", code |-> NONE,
                 damped |-> TRUE]

\* force_damp: the joints that this process drives go limp.
Limp(w) == [w EXCEPT !.joints = IF @ = "driven" THEN "limp" ELSE @]

\* lifecycle.damp and shutdown: the damp frames first, then perhaps the hand-back.
HandedBack(w) == {Limp(w)} \cup IF w.joints = "vendor" THEN {} ELSE {[w EXCEPT !.joints = "vendor"]}

--------------------------------------------------------------------------------
(* Start *)

\* The command's objects are built, or it fails before it has touched anything.
Build ==
    /\ main = "build"
    /\ \/ /\ main' = CASE cmd.kind = "script"                     -> "climb"
                       [] cmd.kind \in {"serve", "tracker"}       -> "ramp"
                       [] OTHER                                   -> "keys"
          /\ UNCHANGED result
       \/ main' = "gone" /\ result' = [result EXCEPT !.code = 2]
    /\ UNCHANGED <<cmd, input, console, wire, control>>

\* _cmd_lowlevel_unitree before its console or its loop: the initialization ramp,
\* which may be refused or not reach WAIT.
Ramp ==
    /\ main = "ramp"
    /\ \/ /\ cmd.writes /\ wire.joints # "driven"
          /\ wire' = [wire EXCEPT !.joints = "driven"]
          /\ UNCHANGED <<main, result, control>>
       \/ /\ cmd.writes => wire.joints = "driven"
          /\ main' = IF cmd.kind = "serve" THEN "serve" ELSE "keys"
          /\ control' = [control EXCEPT !.running = cmd.kind = "serve",
                                        !.engaged = ~cmd.writes]
          /\ UNCHANGED <<wire, result>>
       \/ /\ main' = "gone"
          /\ wire' = Limp(wire)
          /\ result' = [result EXCEPT !.code = 1]
          /\ UNCHANGED control
    /\ UNCHANGED <<cmd, input, console>>

--------------------------------------------------------------------------------
(* Keys *)

Press ==
    /\ main \in {"keys", "act"} /\ typed.keys < MaxKeys
    /\ \E k \in IF cmd.kind = "tui" THEN Keys ELSE {"n", "q", "^D"} : tty' = Append(tty, k)
    /\ typed' = [typed EXCEPT !.keys = @ + 1]
    /\ UNCHANGED <<cmd, main, console, wire, control, result>>

\* LifecycleTui.handle for a key that is no text; an action is refused while
\* another one runs, and so is q.
Asked(k) ==
    /\ main' = IF k = "q" /\ worker.at # "running" THEN "join" ELSE main
    /\ queue' = IF k \in Verbs /\ worker.at # "running" THEN Append(queue, k) ELSE queue

\* Ctrl-D goes past the prompt, the queue and the worker; the vendor's damp follows
\* behind what is queued.
EmergencyDamp ==
    /\ prompt' = NONE
    /\ wire' = Limp(wire)
    /\ queue' = Append(queue, "damp")
    /\ UNCHANGED main

\* A key in the command line is text up to Enter, which is the key of its command.
Edit(k) ==
    /\ UNCHANGED wire
    /\ IF k = "enter"
       THEN prompt' = NONE /\ Asked(prompt)
       ELSE prompt' = (IF prompt = "" THEN k ELSE "unknown") /\ UNCHANGED <<main, queue>>

HandleTui ==
    /\ main = "keys" /\ cmd.kind = "tui" /\ tty # <<>>
    /\ tty' = Tail(tty)
    /\ LET k == Head(tty) IN
       CASE k = "^D"       -> EmergencyDamp
         [] k # "^D" /\ prompt # NONE -> Edit(k)
         [] k = "/" /\ prompt = NONE  -> prompt' = "" /\ UNCHANGED <<main, queue, wire>>
         [] OTHER          -> Asked(k) /\ UNCHANGED <<prompt, wire>>
    /\ UNCHANGED <<cmd, typed, worker, control, result>>

\* KeyConsole.handle: the reader is the one that runs the action.
HandleKey ==
    /\ main = "keys" /\ cmd.kind \in Consoles \ {"tui"} /\ tty # <<>>
    /\ tty' = Tail(tty)
    /\ IF Head(tty) = "q"
       THEN main' = "close" /\ UNCHANGED worker
       ELSE /\ main' = "act"
            /\ worker' = [verb |-> IF Head(tty) = "^D" THEN "damp" ELSE Head(tty),
                          at |-> "running"]
    /\ UNCHANGED <<cmd, typed, prompt, queue, wire, control, result>>

--------------------------------------------------------------------------------
(* Actions: the worker of LifecycleTui, or the reader of KeyConsole *)

\* _work takes the next action, also one more while it is told to quit; it is busy
\* only a moment later.
Take ==
    /\ cmd.kind = "tui" /\ worker = Idle /\ queue # <<>> /\ main \in {"keys", "join"}
    /\ worker' = [verb |-> Head(queue), at |-> "taken"]
    /\ queue' = Tail(queue)
    /\ UNCHANGED <<cmd, main, input, prompt, wire, control, result>>

Begin ==
    /\ worker.at = "taken"
    /\ worker' = [worker EXCEPT !.at = "running"]
    /\ UNCHANGED <<cmd, main, input, prompt, queue, wire, control, result>>

Done(w) == [verb |-> NONE, at |-> IF cmd.kind = "tui" /\ main # "keys" THEN "ended" ELSE "idle"]

After == main' = IF main = "act" THEN "keys" ELSE main

\* What an action makes of the joints: n may drive them, damp makes them limp and
\* may give them back, through the vendor if it is reached.
Outcomes(verb) ==
    CASE verb = "p" -> {wire}
      [] verb # "p" /\ cmd.kind = "robot" ->
           IF wire.link THEN {[wire EXCEPT !.joints = IF verb = "n" THEN "driven" ELSE "limp"]}
                        ELSE {}
      [] verb = "n" /\ cmd.kind # "robot" ->
           IF wire.open THEN {[wire EXCEPT !.joints = "driven"], wire} ELSE {}
      [] verb = "damp" /\ cmd.kind = "tracker" -> {Limp(wire)}
      [] verb = "damp" /\ cmd.kind \in Sessions -> IF wire.open THEN HandedBack(wire) ELSE {}

Succeeds ==
    /\ worker.at = "running" /\ main # "gone"
    /\ wire' \in Outcomes(worker.verb)
    /\ worker' = Done(worker) /\ After
    /\ UNCHANGED <<cmd, input, prompt, queue, control, result>>

\* Bug: an exception ends the worker's thread.
RaisesOut ==
    /\ worker.at = "running" /\ main # "gone"
    /\ worker' = [verb |-> NONE, at |-> "ended"] /\ After
    /\ UNCHANGED <<cmd, input, prompt, queue, wire, control, result>>

\* A refusal or any other exception is a line in the log.
Raises ==
    /\ worker.at = "running" /\ main # "gone"
    /\ worker' = Done(worker) /\ After
    /\ UNCHANGED <<cmd, input, prompt, queue, wire, control, result>>

\* The vendor's service comes and goes.
Link ==
    /\ cmd.kind = "robot" /\ main # "gone"
    /\ wire' = [wire EXCEPT !.link = ~@]
    /\ UNCHANGED <<cmd, main, input, console, control, result>>

--------------------------------------------------------------------------------
(* Serving without a console *)

\* The first tick needs a planner's command.  The thread ends with its budget, or
\* with a fault, which damps.
ControlTicks ==
    /\ control.running /\ ~control.ticked
    /\ control' = [control EXCEPT !.ticked = TRUE]
    /\ UNCHANGED <<cmd, main, input, console, wire, result>>

ControlEnds ==
    /\ control.running
    /\ \/ control.ticked /\ control' = [control EXCEPT !.running = FALSE] /\ UNCHANGED wire
       \/ control' = [control EXCEPT !.running = FALSE, !.fault = TRUE] /\ wire' = Limp(wire)
    /\ UNCHANGED <<cmd, main, input, console, result>>

\* force_damp before stop.
Abandon(outcome) ==
    /\ main' = "close"
    /\ wire' = Limp(wire)
    /\ control' = [control EXCEPT !.running = FALSE]
    /\ result' = outcome

Engage ==
    /\ main = "serve" /\ control.running /\ ~control.engaged /\ control.ticked
    /\ \/ /\ control' = [control EXCEPT !.engaged = TRUE]
          /\ UNCHANGED <<main, wire, result>>
       \/ Abandon([result EXCEPT !.failed = TRUE])
    /\ UNCHANGED <<cmd, input, console>>

\* Bug: the command is waited for without a limit.
CommandTimeoutNever ==
    /\ main = "serve" /\ control.running /\ ~control.engaged /\ control.fault
    /\ Abandon([result EXCEPT !.failed = TRUE])
    /\ UNCHANGED <<cmd, input, console>>

CommandTimeout ==
    /\ main = "serve" /\ control.running /\ ~control.engaged /\ ~control.ticked
    /\ Abandon([result EXCEPT !.failed = TRUE])
    /\ UNCHANGED <<cmd, input, console>>

ServeEnds ==
    /\ main = "serve" /\ ~control.running
    /\ main' = "close"
    /\ UNCHANGED <<cmd, input, console, wire, control, result>>

--------------------------------------------------------------------------------
(* The scripted lifecycle *)

\* auto(until): the target, or a gate that fails on the way, before the joints are
\* taken or after.  From PRIMED it does not climb on.
Climb ==
    /\ main = "climb" /\ result.life = "idle"
    /\ \/ /\ cmd.until # "rung"
          /\ result' = [result EXCEPT !.life = "primed", !.failed = cmd.until = "beyond"]
          /\ wire' = [wire EXCEPT !.joints = "driven"]
       \/ /\ \E short \in BOOLEAN :
               /\ cmd.until # "rung" => short
               /\ result' = [result EXCEPT !.life = "rung", !.failed = short]
          /\ wire' \in {wire, [wire EXCEPT !.joints = "driven"]}
    /\ UNCHANGED <<cmd, main, input, console, control>>

\* go is for PRIMED and for nothing else.
Goes == cmd.go /\ result.life = "primed" /\ ~result.failed

Go ==
    /\ main = "climb" /\ Goes
    /\ \/ /\ main' = "run"
          /\ result' = [result EXCEPT !.life = "running"]
          /\ control' = [control EXCEPT !.running = TRUE, !.ticked = TRUE]
       \/ /\ main' = "recover"
          /\ result' = [result EXCEPT !.failed = TRUE]
          /\ UNCHANGED control
    /\ UNCHANGED <<cmd, input, console, wire>>

Climbed ==
    /\ main = "climb" /\ result.life # "idle" /\ ~Goes
    /\ main' = "recover"
    /\ UNCHANGED <<cmd, input, console, wire, control, result>>

\* Bug: the state is not polled again after the run.
RanUnpolled ==
    /\ main = "run" /\ ~control.running
    /\ main' = "recover"
    /\ result' = [result EXCEPT !.life = "hold"]
    /\ UNCHANGED <<cmd, input, console, wire, control>>

\* The polls while it runs and the one after it: a fault is a failure.
Ran ==
    /\ main = "run" /\ ~control.running
    /\ main' = "recover"
    /\ result' = IF control.fault THEN [result EXCEPT !.life = "fault", !.failed = TRUE]
                                  ELSE [result EXCEPT !.life = "hold"]
    /\ UNCHANGED <<cmd, input, console, wire, control>>

Recover ==
    /\ main = "recover" /\ main' = "close"
    /\ IF cmd.recover /\ result.life \in {"hold", "fault"}
       THEN \/ /\ wire' = [wire EXCEPT !.joints = "vendor"]
               /\ result' = [result EXCEPT !.life = "restored"]
            \/ /\ wire' = Limp(wire)
               /\ result' = [result EXCEPT !.failed = TRUE]
       ELSE UNCHANGED <<wire, result>>
    /\ UNCHANGED <<cmd, input, console, control>>

--------------------------------------------------------------------------------
(* The end *)

\* run(): the worker is waited for, two seconds long.
WorkerEnds ==
    /\ cmd.kind = "tui" /\ main \in {"join", "close", "shut"} /\ worker = Idle
    /\ worker' = [verb |-> NONE, at |-> "ended"]
    /\ UNCHANGED <<cmd, main, input, prompt, queue, wire, control, result>>

Join ==
    /\ main = "join" /\ main' = "close"
    /\ UNCHANGED <<cmd, input, console, wire, control, result>>

\* session.close: shutdown takes the lock of the lifecycle, which an action holds.
CloseSession ==
    /\ main = "close" /\ cmd.kind \in Sessions
    /\ worker.at = "running" => worker.verb = "p"
    /\ wire' \in HandedBack(wire)
    /\ main' = "shut"
    /\ UNCHANGED <<cmd, input, console, control, result>>

\* Bug: the writer's destructor stops it as it is.
DestroyAsItIs(w) == [w EXCEPT !.open = FALSE]

\* ~NativeUnitreeBackend: damp, then the writer's end.
Destroy(w) == [Limp(w) EXCEPT !.open = FALSE]

CloseTracker ==
    /\ main = "shut" /\ main' = "gone"
    /\ wire' = Destroy(wire)
    /\ result' = [result EXCEPT !.code = 0]
    /\ UNCHANGED <<cmd, input, console, control>>

\* G1Runtime.close: a damp that the vendor does not take is passed over.
CloseRobot ==
    /\ main = "close" /\ cmd.kind = "robot" /\ main' = "gone"
    /\ wire' = IF wire.link THEN [wire EXCEPT !.joints = "limp"] ELSE wire
    /\ result' = [result EXCEPT !.code = 0, !.damped = wire.link]
    /\ UNCHANGED <<cmd, input, console, control>>

\* A script has only what it polled; a served run reads the control thread's fault.
Code ==
    CASE cmd.kind = "tracker" -> 0
      [] cmd.kind = "serve"   -> IF result.failed \/ result.interrupted \/ control.fault THEN 1 ELSE 0
      [] cmd.kind = "script"  -> IF result.failed \/ result.life = "fault" THEN 1 ELSE 0

\* finally: the tracker console, a served run and the script.  A script that
\* recovers does not shut down.
CloseNative ==
    /\ main = "close" /\ cmd.kind \in {"tracker", "serve", "script"}
    /\ main' = "gone"
    /\ wire' \in IF cmd.kind = "script" /\ ~cmd.recover THEN {Destroy(w) : w \in HandedBack(wire)}
                                                          ELSE {Destroy(wire)}
    /\ control' = [control EXCEPT !.running = FALSE]
    /\ result' = [result EXCEPT !.code = Code]
    /\ UNCHANGED <<cmd, input, console>>

\* The process ends where it is.  Its runtime is destroyed with it, but for one that a
\* daemon thread still holds: the worker with its action, or the watcher in its poll.
Killed ==
    CASE cmd.kind = "robot"                               -> {wire}
      [] cmd.kind \in Sessions /\ main \in {"close", "shut"} ->
           {wire} \cup IF worker.at \in {"taken", "running"} THEN {} ELSE {Destroy(wire)}
      [] OTHER                                            -> {Destroy(wire)}

\* Ctrl-C, wherever the main thread is.  The consoles, a served run and the script
\* catch it once they are up; before that and while they close it ends the process.
Interrupt ==
    /\ main # "gone" /\ typed.ints < MaxInterrupts
    /\ typed' = [typed EXCEPT !.ints = @ + 1]
    /\ \/ /\ main \in {"keys", "act", "join"}
          /\ main' = IF main = "keys" /\ cmd.kind = "tui" THEN "join" ELSE "close"
          /\ worker' = IF main = "act" THEN Idle ELSE worker
          /\ UNCHANGED <<wire, control, result>>
       \/ /\ main = "serve" /\ Abandon([result EXCEPT !.interrupted = TRUE])
          /\ UNCHANGED worker
       \/ /\ main \in {"climb", "run", "recover"}
          /\ main' = "close"
          /\ wire' \in HandedBack(wire)
          /\ result' = [result EXCEPT !.failed = TRUE]
          /\ UNCHANGED <<control, worker>>
       \/ /\ main \in {"build", "ramp", "close", "shut"}
          /\ main' = "gone"
          /\ wire' \in Killed
          /\ result' = [result EXCEPT !.code = 1, !.damped = ~wire'.open]
          /\ control' = [control EXCEPT !.running = FALSE]
          /\ UNCHANGED worker
    /\ UNCHANGED <<cmd, tty, prompt, queue>>

--------------------------------------------------------------------------------

Handle == HandleTui \/ HandleKey
Act    == Take \/ Begin \/ Succeeds \/ Raises \/ WorkerEnds
Serve  == Engage \/ CommandTimeout \/ ServeEnds
Script == Climb \/ Go \/ Climbed \/ Ran \/ Recover
Close  == Join \/ CloseSession \/ CloseTracker \/ CloseRobot \/ CloseNative

ConsoleNext ==
    \/ Build \/ Ramp \/ Press \/ Handle \/ Act \/ Link
    \/ ControlTicks \/ ControlEnds \/ Serve \/ Script \/ Close \/ Interrupt

\* Every wait of these threads has a limit, but for the operator's; a thread that
\* has had its first tick ends with its budget.
ConsoleSpec ==
    /\ ConsoleInit /\ [][ConsoleNext]_consoleVars
    /\ WF_consoleVars(Build) /\ WF_consoleVars(Ramp) /\ WF_consoleVars(Handle)
    /\ WF_consoleVars(Act) /\ WF_consoleVars(Serve) /\ WF_consoleVars(Script)
    /\ WF_consoleVars(Close) /\ WF_consoleVars(control.ticked /\ ControlEnds)

--------------------------------------------------------------------------------
(* Properties *)

\* Where the main thread of each command can stand.
Mains ==
    {"build", "gone"} \cup
      CASE cmd.kind = "tui"     -> {"keys", "join", "close", "shut"}
        [] cmd.kind = "plain"   -> {"keys", "act", "close", "shut"}
        [] cmd.kind = "robot"   -> {"keys", "act", "close"}
        [] cmd.kind = "tracker" -> {"ramp", "keys", "act", "close"}
        [] cmd.kind = "serve"   -> {"ramp", "serve", "close"}
        [] cmd.kind = "script"  -> {"climb", "run", "recover", "close"}

Pressed  == IF cmd.kind = "tui" THEN Keys ELSE {"n", "q", "^D"}
Typed    == [keys : 0 .. MaxKeys, ints : 0 .. MaxInterrupts]
Workers  == [verb : Verbs \cup {NONE}, at : {"idle", "taken", "running", "ended"}]
Wire     == [joints : {"vendor", "driven", "limp"}, open : BOOLEAN, link : BOOLEAN]
Control  == [running : BOOLEAN, ticked : BOOLEAN, engaged : BOOLEAN, fault : BOOLEAN]
Lives    == {"idle", "rung", "primed", "running", "hold", "fault", "restored"}
Result   == [failed : BOOLEAN, interrupted : BOOLEAN, damped : BOOLEAN, life : Lives,
             code : {NONE, 0, 1, 2}]

\* Each command keeps its own course, and what runs is an action of its console.
ConsoleTypeOK ==
    /\ cmd \in Commands /\ (cmd.go \/ cmd.recover => cmd.kind = "script")
    /\ main \in Mains
    /\ typed \in Typed /\ tty \in Seq(Pressed) /\ queue \in Seq(Verbs)
    /\ worker \in Workers
    /\ worker.at \in {"taken", "running"} => worker.verb \in Verbs /\ cmd.kind \in Consoles
    /\ wire \in Wire /\ control \in Control /\ result \in Result

\* Where a script without a failure has come, once it has climbed and run.
Reached ==
    CASE cmd.until = "rung"                -> {"rung"}
      [] cmd.until = "primed" /\ ~cmd.go   -> {"primed"}
      [] cmd.until = "primed" /\ cmd.go    -> {"hold", "restored"}
      [] cmd.until = "beyond"              -> {}

\* What makes a success one: the code is written last; until then the control
\* thread runs only where its fault will still be read, an interrupt leaves its
\* mark, and a script that did not fail has come as far as its thread says.
SuccessInv ==
    /\ main # "gone" => result.code = NONE
    /\ cmd.kind \in {"serve", "script"} =>
         /\ main \in {"build", "ramp", "climb", "recover", "gone"} => ~control.running
         /\ typed.ints > 0 => result.failed \/ result.interrupted \/ result.code = 1
         /\ result.interrupted => cmd.kind = "serve"
    /\ cmd.kind = "script" =>
         /\ control.running \/ control.fault => main = "run" \/ result.failed
         /\ main = "build" => result.life = "idle"
         /\ main \in {"build", "climb"} /\ result.life = "idle" => ~result.failed
         /\ main = "climb" /\ ~result.failed =>
              \/ result.life = "idle"
              \/ result.life = IF cmd.until = "rung" THEN "rung" ELSE "primed"
         /\ main = "climb" /\ ~result.failed /\ cmd.until = "beyond" => result.life = "idle"
         /\ main = "run" => cmd.go /\ cmd.until = "primed" /\ result.life = "running"
         /\ main \in {"recover", "close"} /\ ~result.failed => result.life \in Reached

\* Whatever ends a command, and wherever it is cut, no process leaves joints that it
\* drove but limp or with the vendor.  Two may: a shell whose last damp was refused,
\* and a console that Ctrl-C cuts in its close before its runtime is destroyed.
LeavesLimp ==
    main = "gone" =>
        \/ wire.joints # "driven"
        \/ cmd.kind = "robot" /\ ~result.damped
        \/ cmd.kind \in Sessions /\ typed.ints > 0 /\ wire.open

\* A Ctrl-D is answered: the action of its key runs, whatever was asked before it
\* and however that ended, or the console closes.
DampIsAnswered ==
    /\ "^D" \in Range(tty) ~> "^D" \notin Range(tty) \/ main \notin {"keys", "act"}
    /\ "damp" \in Range(queue) ~> worker.verb = "damp" \/ main \notin {"keys", "act"}

\* A served run and a script end by themselves, however long their planner is silent
\* and whatever gate refuses.
RunsEnd == (cmd.kind \in {"serve", "script"} /\ cmd.writes) ~> main = "gone"

\* Their exit code is a success only if the policy did not fault, nobody interrupted
\* them, and a script stands where it was to come: at its target, or behind the run
\* when that is PRIMED and it was to go.
ZeroIsSuccess ==
    result.code = 0 /\ cmd.kind \in {"serve", "script"} =>
        /\ ~control.fault /\ typed.ints = 0
        /\ cmd.kind = "script" => result.life \in Reached

\* LeavesLimp and ZeroIsSuccess by induction.
ConsoleInv ==
    /\ main = "build" => wire.joints = "vendor" /\ worker = Idle
    /\ main # "gone" => wire.open
    /\ LeavesLimp /\ SuccessInv /\ ZeroIsSuccess

\* robot_lifecycle.md:238: damp is from anywhere, never gated.  No action is between
\* the operator's Ctrl-D and the console.
DampNeverWaits == main = "act" => "^D" \notin Range(tty)

\* tui.py:1286: busy, wait for the action to finish.  The quit key leaves no action
\* that was asked for behind.
QuitWaits ==
    [][main = "keys" /\ main' = "join" /\ tty' # tty => queue = <<>> /\ worker = Idle]_consoleVars

\* lifecycle.py:646: Console exit: damp, silence the wire, give the vendor back.
ExitDamps == main = "gone" /\ cmd.kind \in Sessions => wire.joints # "driven"

\* cli.py:2179: console closed (robot damped).
ClosedMeansDamped ==
    main = "gone" /\ cmd.kind = "robot" /\ result.code = 0 => wire.joints # "driven"
=============================================================================
