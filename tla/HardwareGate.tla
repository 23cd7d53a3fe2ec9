----------------------------- MODULE HardwareGate -----------------------------
(****************************************************************************)
(* What stands between a checkpoint and the hardware: the model store makes *)
(* a bundle's directory hold the bytes its pin records, PolicyBundle.load   *)
(* hashes them, and PRECHECK asks the artifacts of earlier runs whether the *)
(* plant has already run this bundle on this motion.                        *)
(*                                                                          *)
(* Consoles are lifecycle commands, on the plant or on the robot; beside    *)
(* them somebody uses ec models on the same directory.  A bundle is two     *)
(* files, the manifest and the weights that it hashes; a file's content is  *)
(* the export it comes from.  A lifecycle is only how far its run has got.  *)
(****************************************************************************)
EXTENDS Naturals, Sequences

CONSTANTS
    Consoles,   \* processes of ec lifecycle
    Motions,
    JobMotion,  \* the motion that the job names
    Jobs,       \* job files: the network and the command_source that each one names
    Modes,      \* where the commands of a selection come from
    Dirs,       \* artifact directories under one rehearsal root
    Exports,    \* bundles that somebody has exported
    Checkpoint, \* the checkpoint_sha256 in each one's manifest; "" if it has none
    MaxAge,     \* rehearsal_max_age_days, in the days of Day
    MaxStarts,  \* lifecycle commands (bound)
    MaxEvents,  \* ec models commands, rebuilds, kills and days (bound)
    NONE

ASSUME GateAssumption == MaxAge \in Nat /\ MaxStarts \in Nat /\ MaxEvents \in Nat
\* A truncated file is no export, and the absence of a value is not a value.
ASSUME NamesAssumption ==
    "part" \notin Exports /\ NONE \notin Exports \cup {"part", "fetch", "push"}

VARIABLES
    dir,       \* the bundle's directory: what each file holds
    pin,       \* its model.pin.json
    repo,      \* the files of each revision in the repository
    console,
    shell,     \* the ec models command that runs
    runs,      \* the lifecycle.json of each artifact directory
    newer,     \* which directory's record is newer than which other's
    rehearsed, \* what the plant has really run, to an accepted end and cleanly
    lapsed,    \* the identities whose last run on the plant was not like that
    count      \* commands started

disk    == <<dir, pin>>
records == <<runs, newer, rehearsed, lapsed>>
vars    == <<disk, repo, console, shell, records, count>>

Files == {"manifest", "weights"}
Order == <<"manifest", "weights">>

Off   == [at |-> "off", net |-> NONE, source |-> NONE, artifacts |-> NONE, pin |-> NONE,
          left |-> <<>>, manifest |-> NONE, core |-> NONE, identity |-> NONE, life |-> "none",
          log |-> [failed |-> FALSE, fault |-> FALSE]]
Quiet == [verb |-> NONE, rev |-> NONE, left |-> <<>>, filling |-> FALSE, sums |-> NONE]

Init ==
    /\ repo = [r \in Exports |-> [f \in Files |-> r]]
    /\ \E e \in Exports :
          /\ pin \in {NONE, [rev |-> e, sums |-> repo[e]]}
          /\ dir \in {[f \in Files |-> NONE], [manifest |-> e, weights |-> "part"]}
                    \cup {repo[x] : x \in Exports}
    /\ console = [c \in Consoles |-> Off] /\ shell = Quiet
    /\ runs = [a \in Dirs |-> NONE] /\ newer = {}
    /\ rehearsed = {} /\ lapsed = {}
    /\ count = [starts |-> 0, events |-> 0, commands |-> 0]

Event == count.events < MaxEvents /\ count' = [count EXCEPT !.events = @ + 1]

Goes(c, new) == console' = [console EXCEPT ![c] = new]
Step(c, at)  == Goes(c, [console[c] EXCEPT !.at = at])

--------------------------------------------------------------------------------
(* The model store *)

\* Bug: a file that is there is right.
VerifyThere(p) == {f \in DOMAIN p.sums : dir[f] = NONE}

\* verify: the pinned files that are missing or have the wrong bytes.
Verify(p) == {f \in DOMAIN p.sums : dir[f] # p.sums[f]}

InOrder(files) == SelectSeq(Order, LAMBDA f : f \in files)

\* ensure_model: an unpinned directory is taken as it is; a caller that is offline
\* is refused where something has to be fetched.
Start(c) ==
    /\ console[c].at = "off" /\ count.starts < MaxStarts
    /\ count' = [count EXCEPT !.starts = @ + 1]
    /\ \E job \in Jobs, a \in Dirs :
          LET k     == [Off EXCEPT !.at = "load", !.net = job.net, !.source = job.source,
                                   !.artifacts = a, !.pin = pin]
              wrong == IF pin = NONE THEN {} ELSE Verify(pin) IN
          \/ wrong = {} /\ Goes(c, k)
          \/ wrong # {} /\ Goes(c, [k EXCEPT !.at = "fetch", !.left = InOrder(wrong)])
          \/ wrong # {} /\ UNCHANGED console
    /\ UNCHANGED <<disk, repo, shell, records>>

\* materialize, one missing file: the download, and the copy that first truncates.
FetchFile(c) ==
    /\ console[c].at = "fetch" /\ console[c].left # <<>>
    /\ LET f == Head(console[c].left) IN
       \/ Goes(c, Off) /\ UNCHANGED dir
       \/ /\ repo[console[c].pin.rev][f] # NONE
          /\ dir' = [dir EXCEPT ![f] = "part"]
          /\ Step(c, "copy")
    /\ UNCHANGED <<pin, repo, shell, records, count>>

CopyFile(c) ==
    /\ console[c].at = "copy"
    /\ LET f == Head(console[c].left) IN
       dir' = [dir EXCEPT ![f] = repo[console[c].pin.rev][f]]
    /\ Goes(c, [console[c] EXCEPT !.at = "fetch", !.left = Tail(@)])
    /\ UNCHANGED <<pin, repo, shell, records, count>>

VerifyAgain(c) ==
    /\ console[c].at = "fetch" /\ console[c].left = <<>>
    /\ IF Verify(console[c].pin) = {} THEN Step(c, "load") ELSE Goes(c, Off)
    /\ UNCHANGED <<disk, repo, shell, records, count>>

\* validate_interface refuses what is not a whole manifest of one export.
Readable(manifest) == manifest \in Exports

\* PolicyBundle.load: the manifest is read, and then the files are hashed.
LoadManifest(c) ==
    /\ console[c].at = "load"
    /\ IF Readable(dir["manifest"])
       THEN Goes(c, [console[c] EXCEPT !.at = "hash", !.manifest = dir["manifest"]])
       ELSE Goes(c, Off)
    /\ UNCHANGED <<disk, repo, shell, records, count>>

HashWeights(c) ==
    /\ console[c].at = "hash"
    /\ IF dir["weights"] = console[c].manifest
       THEN Goes(c, [console[c] EXCEPT !.at = "loaded", !.core = dir["weights"]])
       ELSE Goes(c, Off)
    /\ UNCHANGED <<disk, repo, shell, records, count>>

--------------------------------------------------------------------------------
(* ec models, from another terminal *)

Hashed == [f \in {g \in Files : dir[g] # NONE} |-> dir[f]]

Command ==
    /\ shell = Quiet /\ count.events < MaxEvents
    /\ count' = [count EXCEPT !.events = @ + 1, !.commands = @ + 1]
    /\ \/ \E r \in DOMAIN repo :
             /\ shell' = [Quiet EXCEPT !.verb = "fetch", !.rev = r,
                                       !.left = InOrder({f \in Files : repo[r][f] # NONE})]
             /\ UNCHANGED pin
       \/ /\ DOMAIN Hashed # {} /\ "pushed" \notin DOMAIN repo
          /\ shell' = [Quiet EXCEPT !.verb = "push", !.sums = Hashed]
          /\ UNCHANGED pin
       \* pin_local_directory, against the head commit
       \/ /\ DOMAIN Hashed # {}
          /\ \E r \in DOMAIN repo : pin' = [rev |-> r, sums |-> Hashed]
          /\ UNCHANGED shell
    /\ UNCHANGED <<dir, repo, console, records>>

\* fetch_and_pin copies the snapshot over what is there and hashes the directory.
FetchCopies ==
    /\ shell.verb = "fetch" /\ shell.left # <<>>
    /\ LET f == Head(shell.left) IN
       IF shell.filling
       THEN /\ dir' = [dir EXCEPT ![f] = repo[shell.rev][f]]
            /\ shell' = [shell EXCEPT !.filling = FALSE, !.left = Tail(@)]
       ELSE /\ dir' = [dir EXCEPT ![f] = "part"]
            /\ shell' = [shell EXCEPT !.filling = TRUE]
    /\ UNCHANGED <<pin, repo, console, records, count>>

FetchPins ==
    /\ shell.verb = "fetch" /\ shell.left = <<>> /\ DOMAIN Hashed # {}
    /\ pin' = [rev |-> shell.rev, sums |-> Hashed]
    /\ shell' = Quiet
    /\ UNCHANGED <<dir, repo, console, records, count>>

\* push_model hashes, uploads, and then pins the commit the upload made.
PushUploads ==
    /\ shell.verb = "push" /\ shell.rev = NONE
    /\ repo' = [r \in DOMAIN repo \cup {"pushed"} |-> IF r = "pushed" THEN dir ELSE repo[r]]
    /\ shell' = [shell EXCEPT !.rev = "pushed"]
    /\ UNCHANGED <<disk, console, records, count>>

PushPins ==
    /\ shell.verb = "push" /\ shell.rev # NONE
    /\ pin' = [rev |-> shell.rev, sums |-> shell.sums]
    /\ shell' = Quiet
    /\ UNCHANGED <<dir, repo, console, records, count>>

\* The command fails or is killed.
CommandEnds ==
    /\ shell # Quiet /\ shell' = Quiet
    /\ UNCHANGED <<disk, repo, console, records, count>>

--------------------------------------------------------------------------------
(* Runs and their records *)

\* Bug: the identity of the job, whatever the console has selected since.
JobIdentity(c, motion) ==
    [bundle_sha |-> Checkpoint[console[c].manifest], motion |-> JobMotion,
     command_source |-> console[c].source, network |-> console[c].net]

\* The checkpoint that the manifest names, the motion selected and the job's source.
RunIdentity(c, motion) ==
    [bundle_sha |-> Checkpoint[console[c].manifest], motion |-> motion,
     command_source |-> console[c].source, network |-> console[c].net]

\* The tracker reads the weights again; the identity is built with it.
Build(c) ==
    /\ console[c].at = "loaded" /\ dir["weights"] \in Exports
    /\ \E m \in Motions, mode \in Modes :
          Goes(c, [console[c] EXCEPT !.at = "up", !.life = "idle", !.core = dir["weights"],
                       !.identity = [run |-> RunIdentity(c, m), motion |-> m, mode |-> mode]])
    /\ UNCHANGED <<disk, repo, shell, records, count>>

Matches(r, identity) ==
    /\ r.run.network = "lo"
    /\ r.run.bundle_sha = identity.bundle_sha /\ r.run.motion = identity.motion
    /\ r.run.command_source = identity.command_source

\* rehearsal_evidence: the newest matching record reached the end, without a failed
\* gate, not too long ago.
RehearsalEvidence(identity) ==
    LET same == {a \in Dirs : runs[a] # NONE /\ Matches(runs[a], identity)} IN
    \E a \in same : /\ \A b \in same : <<b, a>> \notin newer
                    /\ runs[a].passed /\ runs[a].age <= MaxAge

Owning == {"owned", "damp"}

\* The ladder from PRECHECK to PRIMED, or a gate of it that fails.
Climb(c) ==
    /\ console[c].life \in {"idle", "restored"}
    /\ \/ /\ console[c].net = "robot" => RehearsalEvidence(console[c].identity.run)
          /\ Goes(c, [console[c] EXCEPT !.life = "owned"])
       \/ Goes(c, [console[c] EXCEPT !.life = "idle", !.log.failed = TRUE])
    /\ UNCHANGED <<disk, repo, shell, records, count>>

\* _fault: a transition like any other, and ok.
Fault(c) ==
    /\ console[c].life = "owned"
    /\ Goes(c, [console[c] EXCEPT !.life = "fault", !.log.fault = TRUE])
    /\ UNCHANGED <<disk, repo, shell, records, count>>

\* DAMP, RELEASED, VENDOR_RESTORED, as far as their gates pass.
HandedBack(c) ==
    IF console[c].life \in Owning \cup {"fault"}
    THEN {[console[c] EXCEPT !.life = "restored"],
          [console[c] EXCEPT !.life = "damp", !.log.failed = TRUE]}
    ELSE {console[c]}

HandBack(c) ==
    /\ console[c].life \in Owning \cup {"fault"}
    /\ \E new \in HandedBack(c) : Goes(c, new)
    /\ UNCHANGED <<disk, repo, shell, records, count>>

\* What a console really runs: the bytes, the motion and where the commands come from.
Ran(k) == [manifest |-> k.manifest, core |-> k.core, source |-> k.source,
           motion |-> k.identity.motion, mode |-> k.identity.mode]

\* What of a run the gate can tell: two runs that agree on it vouch for each other.
Identity(r) == <<Checkpoint[r.manifest], r.motion, r.source>>

\* Shutdown, and the record in lifecycle.json over the one that was there.
Finish(c, new, next) ==
    LET clean == new.life = "restored" /\ ~new.log.failed IN
    /\ runs' = [runs EXCEPT ![new.artifacts] =
                   [run |-> new.identity.run, passed |-> clean, fault |-> clean /\ new.log.fault,
                    age |-> 0]]
    /\ newer' = {p \in newer : new.artifacts \notin {p[1], p[2]}}
                   \cup {<<new.artifacts, a>> : a \in Dirs \ {new.artifacts}}
    /\ rehearsed' = rehearsed \cup (IF new.net = "lo" /\ clean THEN {Ran(new)} ELSE {})
    /\ lapsed' = CASE new.net # "lo" -> lapsed
                   [] clean -> lapsed \ {Identity(Ran(new))}
                   [] OTHER -> lapsed \cup {Identity(Ran(new))}
    /\ Goes(c, next)

Quit(c) ==
    /\ console[c].at = "up"
    /\ \E new \in HandedBack(c) : Finish(c, new, Off)
    /\ UNCHANGED <<disk, repo, shell, count>>

\* A rebuild for another selection, in a state that does not own the joints; the log
\* of the session goes on.
Rebuild(c) ==
    /\ console[c].at = "up" /\ console[c].life \notin Owning
    /\ Event
    /\ \E new \in HandedBack(c) :
          Finish(c, new, [new EXCEPT !.at = "loaded", !.life = "none", !.identity = NONE])
    /\ UNCHANGED <<disk, repo, shell>>

\* Killed: nothing is written.
Kill(c) ==
    /\ console[c].at # "off" /\ Goes(c, Off) /\ Event
    /\ UNCHANGED <<disk, repo, shell, records>>

Day ==
    /\ \E a \in Dirs : runs[a] # NONE /\ runs[a].age <= MaxAge
    /\ Event
    /\ runs' = [a \in Dirs |-> IF runs[a] = NONE THEN NONE
                               ELSE [runs[a] EXCEPT !.age = IF @ > MaxAge THEN @ ELSE @ + 1]]
    /\ UNCHANGED <<disk, repo, console, shell, newer, rehearsed, lapsed>>

--------------------------------------------------------------------------------

Prepare(c) == FetchFile(c) \/ CopyFile(c) \/ VerifyAgain(c)
                \/ LoadManifest(c) \/ HashWeights(c)
Operate(c) == Build(c) \/ Climb(c) \/ Fault(c) \/ HandBack(c)
                \/ Rebuild(c) \/ Quit(c) \/ Kill(c)
Models     == Command \/ FetchCopies \/ FetchPins \/ PushUploads \/ PushPins \/ CommandEnds

Next == (\E c \in Consoles : Start(c) \/ Prepare(c) \/ Operate(c)) \/ Models \/ Day

Spec == Init /\ [][Next]_vars

--------------------------------------------------------------------------------
(* Properties *)

\* A robot is taken.
Drives(c) == /\ console[c].net = "robot" /\ console[c].life # "owned"
             /\ console'[c].life = "owned"

\* A robot is driven only after the plant has really run, to an accepted end and without
\* a failed gate, a bundle of the same checkpoint on the same motion under a job of the
\* same source, whatever was selected, rebuilt, overwritten or killed since; and the very
\* bytes that now drive, as long as nobody has used ec models on the directory.
RehearsedFirst ==
    \A c \in Consoles : LET k == console[c] IN
        k.net = "robot" /\ k.life \in Owning =>
            \E r \in rehearsed : /\ Identity(r) = Identity(Ran(k))
                                 /\ count.commands = 0 => /\ r.core = k.core
                                                          /\ r.manifest = k.manifest

\* While nobody edits the pin, a console has the bytes that it records, whoever else
\* fetches them and is killed half-way through a copy.
PinnedBytesLoad ==
    \A c \in Consoles : LET k == console[c] IN
        count.commands = 0 /\ k.at \in {"loaded", "up"} /\ k.pin # NONE =>
            k.core = k.pin.sums["weights"] /\ k.manifest = k.pin.sums["manifest"]

\* test_rehearsal_gate.py:94: a rehearsal that faulted does not count.
FaultedDoesNotVouch ==
    [][\A c \in Consoles : Drives(c) =>
         \E a \in Dirs : /\ runs[a] # NONE /\ ~runs[a].fault
                         /\ Matches(runs[a], console[c].identity.run)]_vars

\* test_rehearsal_gate.py:119: the newest rehearsal is the one judged.
NewestIsJudged ==
    [][\A c \in Consoles : Drives(c) =>
         Identity(Ran(console[c])) \notin lapsed]_vars

\* rehearsal.py:7: "this exact bundle, on this motion".
ExactBundleRehearsed ==
    \A c \in Consoles : LET k == console[c] IN
        k.net = "robot" /\ k.life \in Owning =>
            \E r \in rehearsed : r.core = k.core /\ r.motion = k.identity.motion

\* rehearsal.py:37: a run that vouches for another agrees with it on the command source.
ModeRehearsed ==
    \A c \in Consoles : LET k == console[c] IN
        k.net = "robot" /\ k.life \in Owning =>
            \E r \in rehearsed : r.motion = k.identity.motion /\ r.mode = k.identity.mode

\* README.md:404: the robot runs the bytes the pin records.
PinnedBytesRun ==
    \A c \in Consoles : LET k == console[c] IN
        k.at = "up" /\ k.pin # NONE => k.core = k.pin.sums["weights"]
===============================================================================
