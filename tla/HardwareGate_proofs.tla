-------------------------- MODULE HardwareGate_proofs --------------------------
(****************************************************************************)
(* A robot is driven only by what the plant has really run, for any number  *)
(* of commands, directories, bundles, jobs and motions, and for any way in  *)
(* which exports share a checkpoint.  The gate reads records,               *)
(* and a record may be overwritten and be older than what it speaks for: so *)
(* the invariant says what every record that is there vouches for.          *)
(****************************************************************************)
EXTENDS HardwareGate, TLAPS

Fields == {"at", "net", "source", "artifacts", "pin", "left", "manifest", "core", "identity", "life",
           "log"}

\* The consoles and the records have their fields, whatever is in them.
Shape ==
    /\ DOMAIN console = Consoles /\ \A c \in Consoles : DOMAIN console[c] = Fields
    /\ DOMAIN runs = Dirs

\* A bundle that was hashed has a manifest, and a tracker the identity of what it was
\* built for.
Built(k) ==
    /\ k.at \in {"hash", "loaded", "up"} => k.manifest \in Exports
    /\ k.at = "up" <=> k.life # "none"
    /\ k.at = "up" => /\ k.identity.run.bundle_sha = Checkpoint[k.manifest]
                      /\ k.identity.run.motion = k.identity.motion
                      /\ k.identity.run.command_source = k.source
                      /\ k.identity.run.network = k.net

Vouched(id) == \E r \in rehearsed : Identity(r) = id

\* A robot is driven, or has faulted and is damped again, on an identity that a run on
\* the plant vouches for.
Driven(k) ==
    k.net = "robot" /\ k.life \in Owning \cup {"fault"} => Vouched(Identity(Ran(k)))

\* A record of the plant that passes is of a run that did.
RecordsAreTrue ==
    \A a \in Dirs : runs[a] # NONE /\ runs[a].passed /\ runs[a].run.network = "lo" =>
        Vouched(<<runs[a].run.bundle_sha, runs[a].run.motion, runs[a].run.command_source>>)

IInv == /\ Shape /\ RecordsAreTrue
        /\ \A c \in Consoles : Built(console[c]) /\ Driven(console[c])

--------------------------------------------------------------------------------

\* Nothing has been loaded, run or recorded.
LEMMA InitIInv == Init => IInv
<1> SUFFICES ASSUME Init PROVE IInv
    OBVIOUS
<1>1. \A c \in Consoles : console[c] = Off
    BY DEF Init
<1>2. Shape
  <2>1. DOMAIN console = Consoles /\ DOMAIN runs = Dirs
    BY DEF Init
  <2>2. DOMAIN Off = Fields
    BY DEF Off, Fields
  <2> QED BY <1>1, <2>1, <2>2 DEF Shape
<1>3. RecordsAreTrue
    BY DEF Init, RecordsAreTrue
<1>4. Off.at = "off" /\ Off.life = "none"
    BY DEF Off
<1>5. \A c \in Consoles : Built(console[c]) /\ Driven(console[c])
    BY <1>1, <1>4 DEF Built, Driven, Owning
<1> QED BY <1>2, <1>3, <1>5 DEF IInv

\* A step of one console that writes no record keeps the invariant if it keeps its own
\* part of it.
LEMMA OneGoes ==
    ASSUME IInv, NEW c \in Consoles, NEW new, DOMAIN new = Fields,
           Built(new), Driven(new), Goes(c, new), UNCHANGED records
    PROVE  IInv'
<1>1. console'[c] = new /\ DOMAIN console' = Consoles
    BY DEF IInv, Shape, Goes
<1>2. \A d \in Consoles \ {c} : console'[d] = console[d]
    BY DEF IInv, Shape, Goes
<1>3. \A d \in Consoles : DOMAIN console'[d] = Fields
    BY <1>1, <1>2 DEF IInv, Shape
<1>4. runs' = runs /\ rehearsed' = rehearsed
    BY DEF records
<1>5. \A d \in Consoles : Built(console'[d]) /\ Driven(console'[d])
    BY <1>1, <1>2 DEF IInv
<1>6. \A d \in Consoles : Built(console[d])' /\ Driven(console[d])'
    BY <1>4, <1>5 DEF Built, Driven, Vouched
<1>7. Shape' /\ RecordsAreTrue'
    BY <1>1, <1>3, <1>4 DEF IInv, Shape, RecordsAreTrue, Vouched
<1> QED BY <1>6, <1>7 DEF IInv

\* A console without a tracker satisfies its part as soon as what it hashed is a bundle.
LEMMA Preparing ==
    ASSUME IInv, NEW c \in Consoles, NEW new, DOMAIN new = Fields,
           new.at # "up", new.life = "none",
           new.at \in {"hash", "loaded"} => new.manifest \in Exports,
           Goes(c, new), UNCHANGED records
    PROVE  IInv'
<1>1. Built(new) /\ Driven(new)
    BY DEF Built, Driven, Owning
<1> QED BY <1>1, OneGoes

\* The state of an idle console.
LEMMA OffPrepares == DOMAIN Off = Fields /\ Off.at = "off" /\ Off.life = "none"
BY DEF Off, Fields

\* The model store and the days touch no console; the days only make records older.
LEMMA Elsewhere ==
    ASSUME IInv, UNCHANGED console, UNCHANGED rehearsed, DOMAIN runs' = Dirs,
           \A a \in Dirs : runs'[a] # NONE =>
              /\ runs[a] # NONE
              /\ runs'[a].passed = runs[a].passed /\ runs'[a].run = runs[a].run
    PROVE  IInv'
<1>1. Shape' /\ RecordsAreTrue'
    BY DEF IInv, Shape, RecordsAreTrue, Vouched
<1>2. \A c \in Consoles : Built(console[c])' /\ Driven(console[c])'
    BY DEF IInv, Built, Driven, Vouched
<1> QED BY <1>1, <1>2 DEF IInv

\* Writing the record of a run over another: what was rehearsed stays rehearsed, and the
\* new record speaks for this run.
LEMMA Finishing ==
    ASSUME IInv, NEW c \in Consoles, NEW new, NEW next, DOMAIN next = Fields,
           Built(new), new.at = "up", Built(next), next.life \notin Owning \cup {"fault"},
           Finish(c, new, next)
    PROVE  IInv'
<1> DEFINE clean == new.life = "restored" /\ ~new.log.failed
<1>1. rehearsed' = rehearsed \cup (IF new.net = "lo" /\ clean THEN {Ran(new)} ELSE {})
    BY DEF Finish
<1>4. \A id : Vouched(id) => Vouched(id)'
    BY <1>1 DEF Vouched, Identity
<1>5. clean /\ new.net = "lo" => Vouched(Identity(Ran(new)))'
  <2> SUFFICES ASSUME clean, new.net = "lo" PROVE Ran(new) \in rehearsed'
      BY DEF Vouched, Identity, Ran
  <2> HIDE DEF clean
  <2> QED BY <1>1
<1>6. \A a \in Dirs \ {new.artifacts} : runs'[a] = runs[a]
    BY DEF Finish, IInv, Shape
<1>7. new.artifacts \in Dirs =>
         /\ runs'[new.artifacts].run = new.identity.run
         /\ runs'[new.artifacts].passed => clean
    BY DEF Finish, IInv, Shape
<1>8. RecordsAreTrue'
  <2> SUFFICES ASSUME NEW a \in Dirs, runs'[a] # NONE, runs'[a].passed,
                      runs'[a].run.network = "lo"
               PROVE  Vouched(<<runs[a].run.bundle_sha, runs[a].run.motion,
                                runs[a].run.command_source>>)'
      BY DEF RecordsAreTrue
  <2>1. CASE a = new.artifacts
    <3>1. clean /\ runs'[a].run = new.identity.run
        BY <1>7, <2>1
    <3>2. <<runs'[a].run.bundle_sha, runs'[a].run.motion, runs'[a].run.command_source>>
            = Identity(Ran(new)) /\ new.net = "lo"
        BY <3>1 DEF Built, Identity, Ran
    <3> HIDE DEF clean
    <3> QED BY <1>5, <3>1, <3>2 DEF Vouched
  <2>2. CASE a # new.artifacts
      BY <1>4, <1>6, <2>2 DEF IInv, RecordsAreTrue
  <2> QED BY <2>1, <2>2
<1>9. DOMAIN runs' = Dirs /\ DOMAIN console' = Consoles /\ console'[c] = next
    BY DEF Finish, Goes, IInv, Shape
<1>10. \A d \in Consoles \ {c} : console'[d] = console[d]
    BY DEF Finish, Goes, IInv, Shape
<1>11. Shape'
    BY <1>9, <1>10 DEF IInv, Shape
<1>12. \A d \in Consoles : Built(console[d])'
    BY <1>9, <1>10 DEF IInv, Built
<1>13. \A d \in Consoles : Driven(console[d])'
    BY <1>4, <1>9, <1>10 DEF IInv, Driven, Identity, Ran
<1> QED BY <1>8, <1>11, <1>12, <1>13 DEF IInv

--------------------------------------------------------------------------------

\* The store and the bundle: only HashWeights lets a manifest through, and it was read
\* from a bundle.
LEMMA StartPreserves == ASSUME IInv, NEW c \in Consoles, Start(c) PROVE IInv'
<1>1. CASE UNCHANGED console
    BY <1>1, Elsewhere DEF Start, records, IInv, Shape
<1>2. CASE ~UNCHANGED console
  <2>1. PICK job \in Jobs, a \in Dirs :
           LET k == [Off EXCEPT !.at = "load", !.net = job.net, !.source = job.source,
                                !.artifacts = a, !.pin = pin] IN
           \/ Goes(c, k)
           \/ Goes(c, [k EXCEPT !.at = "fetch", !.left = InOrder(Verify(pin))])
      BY <1>2 DEF Start
  <2> DEFINE k == [Off EXCEPT !.at = "load", !.net = job.net, !.source = job.source,
                              !.artifacts = a, !.pin = pin]
             f == [k EXCEPT !.at = "fetch", !.left = InOrder(Verify(pin))]
  <2>2. DOMAIN k = Fields /\ k.at = "load" /\ k.life = "none"
      BY DEF Off, Fields
  <2>3. DOMAIN f = Fields /\ f.at = "fetch" /\ f.life = "none"
    <3> HIDE DEF k
    <3> QED BY <2>2 DEF Fields
  <2>4. UNCHANGED records /\ (Goes(c, k) \/ Goes(c, f))
      BY <2>1 DEF Start
  <2> HIDE DEF k, f
  <2> QED BY <2>2, <2>3, <2>4, Preparing
<1> QED BY <1>1, <1>2

\* A console before its tracker has no life.
LEMMA NoLife ==
    ASSUME IInv, NEW c \in Consoles, console[c].at # "up"
    PROVE  console[c].life = "none" /\ DOMAIN console[c] = Fields
BY DEF IInv, Shape, Built

LEMMA PreparePreserves == ASSUME IInv, NEW c \in Consoles, Prepare(c) PROVE IInv'
<1> DEFINE k == console[c]
<1>0. k.life = "none" /\ DOMAIN k = Fields /\ UNCHANGED records
    BY NoLife DEF Prepare, FetchFile, CopyFile, VerifyAgain, LoadManifest, Readable, HashWeights
<1>1. CASE Goes(c, Off)
    BY <1>0, <1>1, OffPrepares, Preparing
<1>2. CASE FetchFile(c) /\ ~Goes(c, Off)
  <2>1. Goes(c, [k EXCEPT !.at = "copy"])
      BY <1>2 DEF FetchFile, Step
  <2> QED BY <1>0, <2>1, Preparing DEF Fields
<1>3. CASE CopyFile(c)
  <2>1. Goes(c, [k EXCEPT !.at = "fetch", !.left = Tail(k.left)])
      BY <1>3 DEF CopyFile
  <2> QED BY <1>0, <2>1, Preparing DEF Fields
<1>4. CASE VerifyAgain(c) /\ ~Goes(c, Off)
  <2>1. Goes(c, [k EXCEPT !.at = "load"])
      BY <1>4 DEF VerifyAgain, Step
  <2> QED BY <1>0, <2>1, Preparing DEF Fields
<1>5. CASE LoadManifest(c) /\ ~Goes(c, Off)
  <2>1. /\ dir["manifest"] \in Exports
        /\ Goes(c, [k EXCEPT !.at = "hash", !.manifest = dir["manifest"]])
      BY <1>5 DEF LoadManifest, Readable
  <2> QED BY <1>0, <2>1, Preparing DEF Fields
<1>6. CASE HashWeights(c) /\ ~Goes(c, Off)
  <2>1. k.at = "hash" /\ Goes(c, [k EXCEPT !.at = "loaded", !.core = dir["weights"]])
      BY <1>6 DEF HashWeights
  <2>2. k.manifest \in Exports
      BY <2>1 DEF IInv, Built
  <2> QED BY <1>0, <2>1, <2>2, Preparing DEF Fields
<1> QED BY <1>1, <1>2, <1>3, <1>4, <1>5, <1>6 DEF Prepare

--------------------------------------------------------------------------------

\* The tracker's identity is of the manifest that was loaded.
LEMMA BuildPreserves == ASSUME IInv, NEW c \in Consoles, Build(c) PROVE IInv'
<1> DEFINE new(m, mode) ==
             [console[c] EXCEPT !.at = "up", !.life = "idle", !.core = dir["weights"],
                 !.identity = [run |-> RunIdentity(c, m), motion |-> m, mode |-> mode]]
<1>1. PICK m \in Motions, mode \in Modes : Goes(c, new(m, mode))
    BY DEF Build
<1>2. DOMAIN console[c] = Fields /\ console[c].manifest \in Exports /\ UNCHANGED records
    BY DEF Build, IInv, Shape, Built
<1>3. DOMAIN new(m, mode) = Fields /\ Built(new(m, mode)) /\ Driven(new(m, mode))
    BY <1>2 DEF Fields, Built, Driven, RunIdentity, Owning
<1> HIDE DEF new
<1> QED BY <1>1, <1>2, <1>3, OneGoes

\* The gate passes a robot by a record of the plant for this bundle and motion, and the
\* records are true.
LEMMA ClimbPreserves == ASSUME IInv, NEW c \in Consoles, Climb(c) PROVE IInv'
<1> DEFINE k == console[c]
           up == [k EXCEPT !.life = "owned"]
           back == [k EXCEPT !.life = "idle", !.log.failed = TRUE]
<1>1. /\ DOMAIN k = Fields /\ Built(k) /\ k.at = "up" /\ UNCHANGED records
      /\ \/ Goes(c, up) /\ (k.net = "robot" => RehearsalEvidence(k.identity.run))
         \/ Goes(c, back)
    BY DEF Climb, IInv, Shape, Built
<1>2. CASE Goes(c, up) /\ (k.net = "robot" => RehearsalEvidence(k.identity.run))
  <2>1. ASSUME k.net = "robot" PROVE Vouched(Identity(Ran(k)))
    <3>1. PICK a \in Dirs : /\ runs[a] # NONE /\ Matches(runs[a], k.identity.run)
                            /\ runs[a].passed
        BY <1>2, <2>1 DEF RehearsalEvidence
    <3>2. <<runs[a].run.bundle_sha, runs[a].run.motion, runs[a].run.command_source>>
            = Identity(Ran(k))
        BY <1>1, <3>1 DEF Matches, Built, Identity, Ran
    <3> QED BY <3>1, <3>2 DEF IInv, RecordsAreTrue, Matches
  <2>2. DOMAIN up = Fields /\ Built(up) /\ Driven(up)
      BY <1>1, <2>1 DEF Fields, Built, Driven, Identity, Ran
  <2> HIDE DEF up
  <2> QED BY <1>1, <1>2, <2>2, OneGoes
<1>3. CASE Goes(c, back)
  <2>1. DOMAIN back = Fields /\ Built(back) /\ Driven(back)
      BY <1>1 DEF Fields, Built, Driven, Owning
  <2> HIDE DEF back
  <2> QED BY <1>1, <1>3, <2>1, OneGoes
<1> QED BY <1>1, <1>2, <1>3

LEMMA FaultPreserves == ASSUME IInv, NEW c \in Consoles, Fault(c) PROVE IInv'
<1> DEFINE new == [console[c] EXCEPT !.life = "fault", !.log.fault = TRUE]
<1>1. /\ DOMAIN console[c] = Fields /\ Built(console[c]) /\ Driven(console[c])
      /\ console[c].life = "owned" /\ UNCHANGED records /\ Goes(c, new)
    BY DEF Fault, IInv, Shape
<1>2. DOMAIN new = Fields /\ Built(new) /\ Driven(new)
    BY <1>1 DEF Fields, Built, Driven, Owning, Identity, Ran
<1> HIDE DEF new
<1> QED BY <1>1, <1>2, OneGoes

\* Handing back changes the state and the log, and leaves what a damped robot was
\* driven by.
LEMMA HandingBack ==
    ASSUME IInv, NEW c \in Consoles, console[c].at = "up", NEW new \in HandedBack(c)
    PROVE  /\ DOMAIN new = Fields /\ Built(new) /\ Driven(new) /\ new.at = "up"
           /\ new.life # "owned"
<1> DEFINE k == console[c]
<1>1. DOMAIN k = Fields /\ Built(k) /\ Driven(k)
    BY DEF IInv, Shape
<1>2. CASE k.life \notin Owning \cup {"fault"}
    BY <1>1, <1>2 DEF HandedBack, Owning
<1>3. CASE k.life \in Owning \cup {"fault"}
  <2>1. CASE new = [k EXCEPT !.life = "restored"]
      BY <1>1, <2>1 DEF Fields, Built, Driven, Owning
  <2>2. CASE new = [k EXCEPT !.life = "damp", !.log.failed = TRUE]
    <3>1. DOMAIN new = Fields /\ Built(new) /\ new.at = "up" /\ new.life # "owned"
        BY <1>1, <2>2 DEF Fields, Built
    <3>2. new.net = k.net /\ Ran(new) = Ran(k)
        BY <1>1, <2>2 DEF Fields, Ran
    <3>3. Driven(new)
        BY <1>1, <1>3, <3>2 DEF Driven
    <3> QED BY <3>1, <3>3
  <2> QED BY <1>3, <2>1, <2>2 DEF HandedBack
<1> QED BY <1>2, <1>3

LEMMA HandBackPreserves == ASSUME IInv, NEW c \in Consoles, HandBack(c) PROVE IInv'
<1>1. console[c].at = "up" /\ UNCHANGED records
    BY DEF HandBack, IInv, Built, Owning
<1>2. PICK new \in HandedBack(c) : Goes(c, new)
    BY DEF HandBack
<1> QED BY <1>1, <1>2, HandingBack, OneGoes

LEMMA QuitPreserves == ASSUME IInv, NEW c \in Consoles, Quit(c) PROVE IInv'
<1>1. PICK new \in HandedBack(c) : Finish(c, new, Off)
    BY DEF Quit
<1>2. Built(new) /\ new.at = "up"
    BY HandingBack DEF Quit
<1>3. Built(Off) /\ Off.life \notin Owning \cup {"fault"} /\ DOMAIN Off = Fields
    BY OffPrepares DEF Built, Owning
<1> QED BY <1>1, <1>2, <1>3, Finishing

LEMMA RebuildPreserves == ASSUME IInv, NEW c \in Consoles, Rebuild(c) PROVE IInv'
<1> DEFINE again(new) == [new EXCEPT !.at = "loaded", !.life = "none", !.identity = NONE]
<1>1. PICK new \in HandedBack(c) : Finish(c, new, again(new))
    BY DEF Rebuild
<1>2. DOMAIN new = Fields /\ Built(new) /\ new.at = "up"
    BY HandingBack DEF Rebuild
<1>3. /\ DOMAIN again(new) = Fields /\ Built(again(new))
      /\ again(new).life \notin Owning \cup {"fault"}
    BY <1>2 DEF Fields, Built, Owning
<1> HIDE DEF again
<1> QED BY <1>1, <1>2, <1>3, Finishing

LEMMA KillPreserves == ASSUME IInv, NEW c \in Consoles, Kill(c) PROVE IInv'
BY OffPrepares, Preparing DEF Kill

LEMMA ModelsPreserves == ASSUME IInv, Models PROVE IInv'
<1>1. UNCHANGED console /\ UNCHANGED records
    BY DEF Models, Command, FetchCopies, FetchPins, PushUploads, PushPins, CommandEnds
<1> QED BY <1>1, Elsewhere DEF records, IInv, Shape

\* Only the age of a record changes.
LEMMA DayPreserves == ASSUME IInv, Day PROVE IInv'
<1>1. /\ UNCHANGED console /\ UNCHANGED rehearsed
      /\ runs' = [a \in Dirs |-> IF runs[a] = NONE THEN NONE
                      ELSE [runs[a] EXCEPT !.age = IF @ > MaxAge THEN @ ELSE @ + 1]]
    BY DEF Day
<1>2. ASSUME NEW a \in Dirs, runs'[a] # NONE
      PROVE  /\ runs[a] # NONE
             /\ runs'[a].passed = runs[a].passed /\ runs'[a].run = runs[a].run
    BY <1>1, <1>2
<1> QED BY <1>1, <1>2, Elsewhere

LEMMA StutterPreserves == ASSUME IInv, UNCHANGED vars PROVE IInv'
BY Elsewhere DEF vars, records, IInv, Shape

LEMMA NextPreserves == IInv /\ [Next]_vars => IInv'
<1> SUFFICES ASSUME IInv, [Next]_vars PROVE IInv'
    OBVIOUS
<1>1. ASSUME NEW c \in Consoles, Operate(c) PROVE IInv'
    BY <1>1, BuildPreserves, ClimbPreserves, FaultPreserves, HandBackPreserves,
       QuitPreserves, RebuildPreserves, KillPreserves DEF Operate
<1> QED BY <1>1, StartPreserves, PreparePreserves, ModelsPreserves, DayPreserves,
           StutterPreserves DEF Next

--------------------------------------------------------------------------------
(* The pinned bytes.  Before the first ec models command nobody but the     *)
(* consoles writes the directory, and they write what the one pin records:  *)
(* what was once verified is from then on right or half-way through a copy. *)

\* What a console that has verified the directory may still find in it.
PinnedDir(d, p) == \A f \in Files : d[f] \in {p.rev, "part"}

\* The export that is all there is, as far as anybody can have loaded one.
Export(d, p) == IF p # NONE THEN p.rev ELSE d["weights"]

PinnedConsole(k, d, p) ==
    /\ k.at # "off" => k.pin = p
    /\ k.at \in {"fetch", "copy"} => p # NONE
    /\ k.at \in {"load", "hash", "loaded", "up"} /\ p # NONE => PinnedDir(d, p)
    /\ k.at = "hash" /\ p # NONE => k.manifest = p.rev
    /\ k.at \in {"loaded", "up"} => k.manifest = Export(d, p) /\ k.core = Export(d, p)

Untouched ==
    /\ repo = [r \in Exports |-> [f \in Files |-> r]] /\ shell = Quiet
    /\ DOMAIN dir = Files
    /\ pin # NONE => pin.rev \in Exports /\ pin.sums = [f \in Files |-> pin.rev]
    /\ \A c \in Consoles : PinnedConsole(console[c], dir, pin)
    /\ \A r \in rehearsed : r.manifest = Export(dir, pin) /\ r.core = Export(dir, pin)

PinInv ==
    /\ count \in [starts : Nat, events : Nat, commands : Nat]
    /\ count.commands = 0 => Untouched

LEMMA InitPinInv == Init => PinInv
<1> SUFFICES ASSUME Init PROVE PinInv
    OBVIOUS
<1>1. repo = [r \in Exports |-> [f \in Files |-> r]] /\ shell = Quiet
    BY DEF Init
<1>2. PICK e \in Exports :
         /\ pin \in {NONE, [rev |-> e, sums |-> repo[e]]}
         /\ dir \in {[f \in Files |-> NONE], [manifest |-> e, weights |-> "part"]}
                   \cup {repo[x] : x \in Exports}
    BY DEF Init
<1>3. DOMAIN dir = Files
    BY <1>1, <1>2 DEF Files
<1>4. pin # NONE => pin.rev \in Exports /\ pin.sums = [f \in Files |-> pin.rev]
    BY <1>1, <1>2
<1>5. \A c \in Consoles : PinnedConsole(console[c], dir, pin)
  <2>1. \A c \in Consoles : console[c].at = "off"
      BY DEF Init, Off
  <2> QED BY <2>1 DEF PinnedConsole
<1>6. count \in [starts : Nat, events : Nat, commands : Nat]
    BY DEF Init
<1>7. rehearsed = {}
    BY DEF Init
<1> QED BY <1>1, <1>3, <1>4, <1>5, <1>6, <1>7 DEF PinInv, Untouched

\* A console writes what the pin records, or truncates.
Writes == \/ UNCHANGED dir
          \/ pin # NONE /\ \E f, b : dir' = [dir EXCEPT ![f] = b] /\ (f \in Files => b \in {"part", pin.rev})

LEMMA PinGoes ==
    ASSUME IInv, Untouched, NEW c \in Consoles, NEW new, Goes(c, new), Writes,
           UNCHANGED <<pin, repo, shell>>, PinnedConsole(new, dir', pin'),
           \A r \in rehearsed' : r \in rehearsed \/ \E k : PinnedConsole(k, dir, pin)
                                   /\ k.at = "up" /\ r.manifest = k.manifest /\ r.core = k.core
    PROVE  Untouched'
<1>1. /\ DOMAIN dir' = Files /\ (PinnedDir(dir, pin) => PinnedDir(dir', pin))
      /\ Export(dir', pin') = Export(dir, pin)
    BY DEF Untouched, Writes, PinnedDir, Export
<1>2. \A d \in Consoles : PinnedConsole(console[d], dir, pin)
    BY DEF Untouched
<1>3. \A d \in Consoles \ {c} : console'[d] = console[d]
    BY DEF Goes, IInv, Shape
<1>4. console'[c] = new
    BY DEF Goes, IInv, Shape
<1>5. \A d \in Consoles \ {c} : PinnedConsole(console'[d], dir', pin')
    BY <1>1, <1>2, <1>3 DEF PinnedConsole
<1>6. \A d \in Consoles : PinnedConsole(console'[d], dir', pin')
    BY <1>4, <1>5
<1>7. \A r \in rehearsed' : r.manifest = Export(dir', pin') /\ r.core = Export(dir', pin')
    BY <1>1 DEF Untouched, PinnedConsole
<1> QED BY <1>1, <1>6, <1>7 DEF Untouched

LEMMA VerifiedIs ==
    ASSUME Untouched, pin # NONE, Verify(pin) = {} PROVE PinnedDir(dir, pin)
<1>1. \A f \in Files : dir[f] = pin.sums[f] /\ pin.sums[f] = pin.rev
    BY DEF Untouched, Verify
<1> QED BY <1>1 DEF PinnedDir

LEMMA PinStart == ASSUME IInv, Untouched, NEW c \in Consoles, Start(c) PROVE Untouched'
<1>0. UNCHANGED rehearsed
    BY DEF Start, records
<1>1. CASE UNCHANGED console
    BY <1>0, <1>1 DEF Start, disk, Untouched, PinnedConsole, PinnedDir, Export
<1>2. CASE ~UNCHANGED console
  <2> DEFINE k(job, a) == [Off EXCEPT !.at = "load", !.net = job.net, !.source = job.source,
                                      !.artifacts = a, !.pin = pin]
             wrong == IF pin = NONE THEN {} ELSE Verify(pin)
             f(job, a) == [k(job, a) EXCEPT !.at = "fetch", !.left = InOrder(wrong)]
  <2>1. PICK job \in Jobs, a \in Dirs :
           \/ wrong = {} /\ Goes(c, k(job, a))
           \/ wrong # {} /\ Goes(c, f(job, a))
      BY <1>2 DEF Start
  <2>2. UNCHANGED <<dir, pin, repo, shell>>
      BY DEF Start, disk
  <2>3. k(job, a).at = "load" /\ k(job, a).pin = pin
      BY DEF Off
  <2>4. f(job, a).at = "fetch" /\ f(job, a).pin = pin
      BY DEF Off
  <2>5. CASE wrong = {} /\ Goes(c, k(job, a))
    <3>1. pin # NONE => PinnedDir(dir, pin)
        BY <2>5, VerifiedIs
    <3>2. PinnedConsole(k(job, a), dir', pin')
      <4> HIDE DEF k
      <4> QED BY <2>2, <2>3, <3>1 DEF PinnedConsole, PinnedDir
    <3> HIDE DEF k
    <3> QED BY <1>0, <2>2, <2>5, <3>2, PinGoes DEF Writes
  <2>6. CASE wrong # {} /\ Goes(c, f(job, a))
    <3>1. pin # NONE
        BY <2>6
    <3>2. PinnedConsole(f(job, a), dir', pin')
      <4> HIDE DEF f
      <4> QED BY <2>2, <2>4, <3>1 DEF PinnedConsole
    <3> HIDE DEF f
    <3> QED BY <1>0, <2>2, <2>6, <3>2, PinGoes DEF Writes
  <2> QED BY <2>1, <2>5, <2>6
<1> QED BY <1>1, <1>2

LEMMA PinPrepare == ASSUME IInv, Untouched, NEW c \in Consoles, Prepare(c) PROVE Untouched'
<1> DEFINE k == console[c]
<1>0. /\ PinnedConsole(k, dir, pin) /\ DOMAIN k = Fields
      /\ pin # NONE => pin.rev \in Exports
      /\ UNCHANGED <<pin, repo, shell, rehearsed>>
    BY DEF IInv, Shape, Untouched, Prepare, FetchFile, CopyFile, VerifyAgain,
           LoadManifest, HashWeights, disk, records
<1>1. CASE Goes(c, Off) /\ UNCHANGED dir
  <2>1. PinnedConsole(Off, dir', pin')
      BY OffPrepares DEF PinnedConsole
  <2> QED BY <1>0, <1>1, <2>1, PinGoes DEF Writes
<1>2. CASE FetchFile(c) /\ ~(Goes(c, Off) /\ UNCHANGED dir)
  <2>1. k.at = "fetch" /\ Goes(c, [k EXCEPT !.at = "copy"])
      BY <1>2 DEF FetchFile, Step
  <2>2. dir' = [dir EXCEPT ![Head(k.left)] = "part"]
      BY <1>2 DEF FetchFile
  <2>3. PinnedConsole([k EXCEPT !.at = "copy"], dir', pin')
      BY <1>0, <2>1 DEF PinnedConsole, Fields
  <2>4. pin # NONE
      BY <1>0, <2>1 DEF PinnedConsole
  <2> QED BY <1>0, <2>1, <2>2, <2>3, <2>4, PinGoes DEF Writes
<1>3. CASE CopyFile(c)
  <2> DEFINE f == Head(k.left)
             new == [k EXCEPT !.at = "fetch", !.left = Tail(k.left)]
  <2>1. k.at = "copy" /\ Goes(c, new) /\ dir' = [dir EXCEPT ![f] = repo[k.pin.rev][f]]
      BY <1>3 DEF CopyFile
  <2>2. f \in Files => repo[k.pin.rev][f] = pin.rev
      BY <1>0, <2>1 DEF PinnedConsole, Untouched
  <2>3. PinnedConsole(new, dir', pin')
      BY <1>0, <2>1 DEF PinnedConsole, Fields
  <2>4. Writes
      BY <1>0, <2>1, <2>2 DEF Writes, PinnedConsole
  <2> HIDE DEF new
  <2> QED BY <1>0, <2>1, <2>3, <2>4, PinGoes
<1>4. CASE VerifyAgain(c) /\ ~Goes(c, Off)
  <2>1. /\ k.at = "fetch" /\ Goes(c, [k EXCEPT !.at = "load"])
        /\ Verify(k.pin) = {} /\ UNCHANGED dir
      BY <1>4 DEF VerifyAgain, Step, disk
  <2>2. pin # NONE /\ PinnedDir(dir, pin)
      BY <1>0, <2>1, VerifiedIs DEF PinnedConsole
  <2>3. PinnedConsole([k EXCEPT !.at = "load"], dir', pin')
      BY <1>0, <2>1, <2>2 DEF PinnedConsole, Fields
  <2> QED BY <1>0, <2>1, <2>3, PinGoes DEF Writes
<1>5. CASE LoadManifest(c) /\ ~Goes(c, Off)
  <2> DEFINE new == [k EXCEPT !.at = "hash", !.manifest = dir["manifest"]]
  <2>1. /\ k.at = "load" /\ Goes(c, new) /\ dir["manifest"] \in Exports
        /\ UNCHANGED dir
      BY <1>5 DEF LoadManifest, Readable, disk
  <2>2. pin # NONE => PinnedDir(dir, pin) /\ dir["manifest"] = pin.rev
      BY <1>0, <2>1, NamesAssumption DEF PinnedConsole, PinnedDir, Files
  <2>3. PinnedConsole(new, dir', pin')
      BY <1>0, <2>1, <2>2 DEF PinnedConsole, Fields
  <2> HIDE DEF new
  <2> QED BY <1>0, <2>1, <2>3, PinGoes DEF Writes
<1>6. CASE HashWeights(c) /\ ~Goes(c, Off)
  <2> DEFINE new == [k EXCEPT !.at = "loaded", !.core = dir["weights"]]
  <2>1. /\ k.at = "hash" /\ Goes(c, new) /\ dir["weights"] = k.manifest
        /\ UNCHANGED dir
      BY <1>6 DEF HashWeights, disk
  <2>2. dir["weights"] = Export(dir, pin)
      BY <1>0, <2>1 DEF PinnedConsole, Export
  <2>3. /\ new.at = "loaded" /\ new.pin = k.pin /\ new.manifest = dir["weights"]
        /\ new.core = dir["weights"]
      BY <1>0, <2>1 DEF Fields
  <2> HIDE DEF new
  <2>4. PinnedConsole(new, dir', pin')
      BY <1>0, <2>1, <2>2, <2>3 DEF PinnedConsole
  <2> QED BY <1>0, <2>1, <2>4, PinGoes DEF Writes
<1>7. CASE Goes(c, Off) /\ ~UNCHANGED dir
  <2>1. CASE FetchFile(c)
      BY <1>2, <1>7, <2>1
  <2> QED BY <1>3, <1>7, <2>1 DEF Prepare, VerifyAgain, LoadManifest, HashWeights, disk
<1> QED BY <1>1, <1>2, <1>3, <1>4, <1>5, <1>6, <1>7 DEF Prepare

\* A run touches neither the directory nor what was loaded from it.
SameBytes(k, new) == /\ new.pin = k.pin /\ new.manifest = k.manifest /\ new.core = k.core
                     /\ k.at = "up" /\ new.at \in {"up", "loaded"}

LEMMA PinRuns ==
    ASSUME IInv, Untouched, NEW c \in Consoles, NEW new, Goes(c, new),
           new = Off \/ SameBytes(console[c], new), UNCHANGED <<disk, repo, shell>>,
           \A r \in rehearsed' :
              r \in rehearsed \/ (/\ console[c].at = "up" /\ r.core = console[c].core
                                /\ r.manifest = console[c].manifest)
    PROVE  Untouched'
<1>1. PinnedConsole(console[c], dir, pin)
    BY DEF Untouched
<1>2. PinnedConsole(new, dir', pin')
    BY <1>1, OffPrepares DEF PinnedConsole, SameBytes, disk
<1> QED BY <1>1, <1>2, PinGoes DEF Writes, disk

LEMMA PinGoesOn ==
    ASSUME IInv, Untouched, NEW c \in Consoles, NEW new, Goes(c, new),
           new = Off \/ SameBytes(console[c], new), UNCHANGED <<disk, repo, shell, rehearsed>>
    PROVE  Untouched'
<1>1. \A r \in rehearsed' : r \in rehearsed
    OBVIOUS
<1> QED BY <1>1, PinRuns

\* What a run adds to the history is what its console had loaded.
LEMMA FinishedBytes ==
    ASSUME NEW c \in Consoles, NEW new, NEW next, SameBytes(console[c], new),
           Finish(c, new, next), NEW r \in rehearsed'
    PROVE  r \in rehearsed \/ (/\ console[c].at = "up" /\ r.core = console[c].core
                             /\ r.manifest = console[c].manifest)
<1>1. r \in rehearsed \/ r = Ran(new)
    BY DEF Finish
<1>2. Ran(new).manifest = new.manifest /\ Ran(new).core = new.core
    BY DEF Ran
<1> QED BY <1>1, <1>2 DEF SameBytes

LEMMA HandedBackBytes ==
    ASSUME IInv, NEW c \in Consoles, console[c].at = "up", NEW new \in HandedBack(c)
    PROVE  SameBytes(console[c], new) /\ DOMAIN new = Fields
<1>1. DOMAIN console[c] = Fields
    BY DEF IInv, Shape
<1> QED BY <1>1 DEF HandedBack, SameBytes, Fields

LEMMA PinOperate == ASSUME IInv, Untouched, NEW c \in Consoles, Operate(c) PROVE Untouched'
<1> DEFINE k == console[c]
<1>0. /\ PinnedConsole(k, dir, pin) /\ DOMAIN k = Fields /\ Built(k)
      /\ UNCHANGED <<disk, repo, shell>>
    BY DEF IInv, Shape, Untouched, Operate, Build, Climb, Fault, HandBack, Rebuild, Quit, Kill
<1>00. ~Rebuild(c) /\ ~Quit(c) => UNCHANGED rehearsed
    BY DEF Operate, Build, Climb, Fault, HandBack, Kill, records
<1>1. CASE Build(c) /\ UNCHANGED rehearsed
  <2> DEFINE new(m, mode) ==
               [k EXCEPT !.at = "up", !.life = "idle", !.core = dir["weights"],
                   !.identity = [run |-> RunIdentity(c, m), motion |-> m, mode |-> mode]]
  <2>1. PICK m \in Motions, mode \in Modes : Goes(c, new(m, mode))
      BY <1>1 DEF Build
  <2>2. k.at = "loaded" /\ dir["weights"] \in Exports
      BY <1>1 DEF Build
  <2>3. dir["weights"] = Export(dir, pin)
      BY <1>0, <2>2, NamesAssumption DEF PinnedConsole, PinnedDir, Files, Export
  <2>4. /\ new(m, mode).at = "up" /\ new(m, mode).pin = k.pin /\ new(m, mode).manifest = k.manifest
        /\ new(m, mode).core = dir["weights"]
      BY <1>0 DEF Fields
  <2> HIDE DEF new
  <2>5. PinnedConsole(new(m, mode), dir', pin')
      BY <1>0, <2>2, <2>3, <2>4 DEF PinnedConsole, disk
  <2> QED BY <1>0, <1>1, <2>1, <2>5, PinGoes DEF Writes, disk
<1>2. CASE Climb(c) /\ UNCHANGED rehearsed
  <2>1. k.at = "up"
      BY <1>0, <1>2 DEF Climb, Built
  <2>2. CASE Goes(c, [k EXCEPT !.life = "owned"])
      BY <1>0, <1>2, <2>1, <2>2, PinGoesOn DEF SameBytes, Fields
  <2>3. CASE Goes(c, [k EXCEPT !.life = "idle", !.log.failed = TRUE])
      BY <1>0, <1>2, <2>1, <2>3, PinGoesOn DEF SameBytes, Fields
  <2> QED BY <1>2, <2>2, <2>3 DEF Climb
<1>3. CASE Fault(c) /\ UNCHANGED rehearsed
  <2>1. k.at = "up" /\ Goes(c, [k EXCEPT !.life = "fault", !.log.fault = TRUE])
      BY <1>0, <1>3 DEF Fault, Built
  <2> QED BY <1>0, <1>3, <2>1, PinGoesOn DEF SameBytes, Fields
<1>4. CASE HandBack(c) /\ UNCHANGED rehearsed
  <2>1. k.at = "up"
      BY <1>0, <1>4 DEF HandBack, Built, Owning
  <2>2. PICK new \in HandedBack(c) : Goes(c, new)
      BY <1>4 DEF HandBack
  <2> QED BY <1>0, <1>4, <2>1, <2>2, HandedBackBytes, PinGoesOn
<1>5. CASE Rebuild(c)
  <2> DEFINE again(new) == [new EXCEPT !.at = "loaded", !.life = "none", !.identity = NONE]
  <2>1. PICK new \in HandedBack(c) : Finish(c, new, again(new))
      BY <1>5 DEF Rebuild
  <2>2. SameBytes(k, new) /\ DOMAIN new = Fields
      BY <1>5, HandedBackBytes DEF Rebuild
  <2>3. SameBytes(k, again(new))
      BY <2>2 DEF SameBytes, Fields
  <2>4. Goes(c, again(new))
      BY <2>1 DEF Finish
  <2> HIDE DEF again
  <2> QED BY <1>0, <2>1, <2>2, <2>3, <2>4, FinishedBytes, PinRuns
<1>6. CASE Quit(c)
  <2>1. PICK new \in HandedBack(c) : Finish(c, new, Off)
      BY <1>6 DEF Quit
  <2>2. SameBytes(k, new) /\ Goes(c, Off)
      BY <1>6, <2>1, HandedBackBytes DEF Quit, Finish
  <2> QED BY <1>0, <2>1, <2>2, FinishedBytes, PinRuns
<1>7. CASE Kill(c) /\ UNCHANGED rehearsed
  <2>1. Goes(c, Off)
      BY <1>7 DEF Kill
  <2> QED BY <1>0, <1>7, <2>1, PinGoesOn
<1> QED BY <1>00, <1>1, <1>2, <1>3, <1>4, <1>5, <1>6, <1>7 DEF Operate

LEMMA NextPinInv == IInv /\ PinInv /\ [Next]_vars => PinInv'
<1> SUFFICES ASSUME IInv, PinInv, [Next]_vars PROVE PinInv'
    OBVIOUS
<1>1. /\ count' \in [starts : Nat, events : Nat, commands : Nat]
      /\ count'.commands = 0 => count.commands = 0 /\ ~Command
  <2>1. \/ Command /\ count' = [count EXCEPT !.events = @ + 1, !.commands = @ + 1]
        \/ /\ ~Command
           /\ \/ UNCHANGED count \/ count' = [count EXCEPT !.starts = @ + 1]
              \/ count' = [count EXCEPT !.events = @ + 1]
      BY DEF Next, Start, Prepare, FetchFile, CopyFile, VerifyAgain, LoadManifest,
             HashWeights, Operate, Build, Climb, Fault, HandBack, Rebuild, Quit, Kill,
             Models, Command, FetchCopies, FetchPins, PushUploads, PushPins, CommandEnds,
             Day, Event, vars
  <2>2. CASE Command /\ count' = [count EXCEPT !.events = @ + 1, !.commands = @ + 1]
    <3>1. count \in [starts : Nat, events : Nat, commands : Nat]
        BY DEF PinInv
    <3>2. count.starts \in Nat /\ count.events + 1 \in Nat /\ count.commands + 1 \in Nat
        BY <3>1
    <3>3. count' = [starts |-> count.starts, events |-> count.events + 1,
                    commands |-> count.commands + 1]
        BY <2>2, <3>1
    <3>4. count'.commands # 0
        BY <3>1, <3>3
    <3> QED BY <3>2, <3>3, <3>4
  <2>3. CASE UNCHANGED count /\ ~Command
      BY <2>3 DEF PinInv
  <2>4. CASE count' = [count EXCEPT !.starts = @ + 1] /\ ~Command
      BY <2>4 DEF PinInv
  <2>5. CASE count' = [count EXCEPT !.events = @ + 1] /\ ~Command
      BY <2>5 DEF PinInv
  <2> QED BY <2>1, <2>2, <2>3, <2>4, <2>5
<1>2. ASSUME Untouched, ~Command PROVE Untouched'
  <2>1. CASE Models
    <3>1. shell = Quiet /\ shell.verb = NONE
        BY <1>2 DEF Quiet, Untouched
    <3>2. shell.verb # "fetch" /\ shell.verb # "push"
        BY <3>1, NamesAssumption
    <3> QED BY <1>2, <2>1, <3>1, <3>2 DEF Models, FetchCopies, FetchPins, PushUploads,
               PushPins, CommandEnds
  <2>2. CASE Day \/ UNCHANGED vars
      BY <1>2, <2>2 DEF Day, disk, records, vars, Untouched
  <2> QED BY <1>2, <2>1, <2>2, PinStart, PinPrepare, PinOperate DEF Next
<1> QED BY <1>1, <1>2 DEF PinInv

\* While nobody edits the pin, a console that has loaded a bundle has the bytes the pin
\* records (ensure_model, PolicyBundle.load and the tracker's second reading), whoever
\* else fetches them and is killed half-way through a copy.
THEOREM PinnedBytesLoadHolds == Spec => []PinnedBytesLoad
<1>1. PinInv => PinnedBytesLoad
  <2> SUFFICES ASSUME PinInv, NEW c \in Consoles, count.commands = 0,
                      console[c].at \in {"loaded", "up"}, console[c].pin # NONE
               PROVE  /\ console[c].core = console[c].pin.sums["weights"]
                      /\ console[c].manifest = console[c].pin.sums["manifest"]
      BY DEF PinnedBytesLoad
  <2>1. /\ PinnedConsole(console[c], dir, pin)
        /\ pin # NONE => pin.sums = [f \in Files |-> pin.rev]
      BY DEF PinInv, Untouched
  <2> QED BY <2>1 DEF PinnedConsole, Files, Export
<1> QED BY <1>1, InitIInv, NextPreserves, InitPinInv, NextPinInv, PTL DEF Spec

\* A robot is driven only after the plant has really run, to an accepted end and without
\* a failed gate, a bundle of the same checkpoint on the same motion under a job of the
\* same source (_rehearsal_evidence, lifecycle.py); and the very bytes that now drive, as
\* long as nobody has used ec models on the directory.
THEOREM RehearsedFirstHolds == Spec => []RehearsedFirst
<1>1. IInv /\ PinInv => RehearsedFirst
  <2> SUFFICES ASSUME IInv, PinInv, NEW c \in Consoles,
                      console[c].net = "robot", console[c].life \in Owning
               PROVE  \E r \in rehearsed :
                         /\ Identity(r) = Identity(Ran(console[c]))
                         /\ count.commands = 0 => /\ r.core = console[c].core
                                                  /\ r.manifest = console[c].manifest
      BY DEF RehearsedFirst
  <2>1. Driven(console[c]) /\ console[c].at = "up"
      BY DEF IInv, Built, Owning
  <2>2. PICK r \in rehearsed : Identity(r) = Identity(Ran(console[c]))
      BY <2>1 DEF Driven, Vouched
  <2>3. count.commands = 0 => r.core = console[c].core /\ r.manifest = console[c].manifest
      BY <2>1 DEF PinInv, Untouched, PinnedConsole
  <2> QED BY <2>2, <2>3
<1> QED BY <1>1, InitIInv, NextPreserves, InitPinInv, NextPinInv, PTL DEF Spec
===============================================================================
