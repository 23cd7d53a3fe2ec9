------------------------------ MODULE ControlLoop ------------------------------
(****************************************************************************)
(* ec lowlevel run: lowlevel/runner.py builds one control loop over a       *)
(* simulated robot and runs the job's episodes; lowlevel/latent.py runs the *)
(* same publisher, buffer and tracker without the loop's safety envelope    *)
(* (a "latent" job, one episode).                                           *)
(*                                                                          *)
(* A tick reads the state, has a local publisher publish, lets the tracker  *)
(* decode the newest packet of the command buffer, and writes one joint     *)
(* command.  The publisher is in this process (reference playback, onboard  *)
(* encoder, latent source, or a client of the gr00t service, a child        *)
(* process that may die, hang or answer nonsense), or another process that  *)
(* pushes packets over ZMQ or shared memory and may die and come back.      *)
(*                                                                          *)
(* Simulated time only moves in write_command, so the age of a state is     *)
(* zero whenever the loop looks at it and state_absent cannot fire with the *)
(* two backends the runner builds.  What a latent says is abstracted to     *)
(* where it came from.                                                      *)
(****************************************************************************)
EXTENDS Integers, Sequences, SequencesExt

CONSTANTS
    Episodes,     \* rollout.episodes
    MaxSteps,     \* rollout.max_steps
    AbsentTicks,  \* safety.command_absent_ticks
    Frames,       \* frames of the reference, or latents of the sequence
    Window,       \* window_steps: look-ahead frames behind the first
    HoldSteps,         \* hold_steps: ticks a latent is held
    Slots,        \* latents of one open-loop prediction
    Past,         \* history_length of an observation term
    Stride,       \* its history_stride
    MaxPublished, \* packets a pushing process publishes (bound)
    Switches,     \* goal_schedule: the tick from which on it has the goal
    NONE          \* no packet, latent, goal, ...

\* A latent is where it came from: the tick and the goal it was asked for, its
\* place in the prediction, the prediction it continues, and its frames.
Latents ==
    [ep : Nat, at : Nat, goal : Nat, slot : Nat \ {0}, seed : Nat \cup {NONE},
     frames : Seq(0 .. Frames - 1)]

\* CommandPacket: its publisher's number, and how many there were before it.
Packets == [seq : Nat, nth : Nat, z : Latents \cup {NONE}]

Services == {"starting", "up", "hung", "dead", "closed"}

ASSUME LoopAssumption ==
    /\ {Episodes, MaxSteps, AbsentTicks, Frames, HoldSteps, Slots, Past, Stride}
         \subseteq Nat \ {0}
    /\ Window \in Nat /\ MaxPublished \in Nat /\ Switches \subseteq Nat
    /\ NONE \notin Nat /\ NONE \notin Services
    /\ NONE \notin Latents /\ NONE \notin Packets

VARIABLES
    job,       \* the validated LowLevelJob, fixed
    pc,        \* where the loop is
    ep, step,  \* episode and tick
    results,   \* EpisodeResult of each finished episode
    artifacts, \* status.json, NONE before write_run_artifacts
    pub,       \* the local publisher
    buf,       \* the command buffer, with ZMQ's unread messages
    src,       \* BufferedCommandSource and SafetyMonitor of this episode
    hist,      \* one term of ObservationAssembler
    plant,     \* the last command the backend was given
    others     \* the gr00t service and the pushing process

loopVars == <<job, pc, ep, step, results, artifacts, pub, buf, src, hist, plant, others>>

Local == {"playback", "encoder", "latent", "gr00t"}

\* load_lowlevel_job with LatentPublisher's and SequenceLatentSource's ends:
\* a latent job ends with its reference, its sequence or its renewals.  switch is
\* the first tick of a goal_schedule, whose later entries are like the first.
Jobs ==
    [source : Local \cup {"zmq", "shm"}, rtc : BOOLEAN, chunk : BOOLEAN,
     fill : {"repeat_first", "zeros"},
     ends : {"reference", "sequence", "renewals"}, switch : Switches \cup {NONE}]

\* LatentPlayground.rollout: one episode, no safety envelope, no artifacts.
Playground == job.source = "latent"

Total == IF Playground THEN 1 ELSE Episodes

Span == 1 + (Past - 1) * Stride

\* The backend at its pose, and once it has been given a command.
Posed == [kind |-> "pose", packet |-> NONE]
Given(kind, packet) == [kind |-> kind, packet |-> packet]

LoopInit ==
    /\ job \in {j \in Jobs : /\ j.rtc \/ j.chunk \/ j.switch # NONE => j.source = "gr00t"
                             /\ j.ends # "reference" => j.source = "latent"
                             /\ j.fill = "zeros" => j.source \in {"playback", "zmq"}}
    /\ pc = "build" /\ ep = 0 /\ step = 0
    /\ results = <<>> /\ artifacts = NONE
    /\ pub = [seq |-> 0, cursor |-> 0, z |-> NONE, held |-> 0, renewals |-> 0,
              queue |-> <<>>, prev |-> NONE, index |-> 0]
    /\ buf = [packet |-> NONE, high |-> IF job.source = "zmq" THEN -1 ELSE 0, wire |-> <<>>]
    /\ src = [last |-> -1, stale |-> 0, age |-> 0]
    /\ hist = [ring |-> [i \in 0 .. Span - 1 |-> NONE], at |-> 0, seen |-> <<>>]
    /\ plant = Posed
    /\ others = [service |-> IF job.source = "gr00t" THEN "starting" ELSE NONE,
                 writer |-> job.source \notin Local, inside |-> FALSE,
                 seq |-> 0, restarts |-> 0, nth |-> 0]

--------------------------------------------------------------------------------
(* How an episode and the run end *)

Closed(service) == IF service \in {"up", "hung"} THEN "closed" ELSE service

EndEpisode(status, steps) ==
    /\ results' = Append(results, [status |-> status, steps |-> steps])
    /\ IF ep = Total THEN pc' = "report" /\ ep' = ep ELSE pc' = "reset" /\ ep' = ep + 1

\* SafetyFault, RuntimeError and ValueError: damp, and the next episode.
Damp ==
    /\ plant' = Given("damp", NONE)
    /\ EndEpisode("damped", step)

\* What leaves run_episode another way leaves the run: run_lowlevel_job closes
\* the publisher and writes nothing.
Raise ==
    /\ pc' = "raised"
    /\ others' = [others EXCEPT !.service = Closed(@)]
    /\ UNCHANGED <<ep, results, plant>>

\* The playground has no handler: there, a RuntimeError leaves the rollout.
Fault == IF Playground THEN Raise ELSE Damp /\ UNCHANGED others

--------------------------------------------------------------------------------
(* The run *)

\* Bug: the constructor resets as the loop does, which takes the first goal.
BuildTakesGoal ==
    /\ pc = "build"
    /\ pc' = "reset" /\ ep' = 1
    /\ others' = [others EXCEPT !.service = IF @ = "starting" THEN "up" ELSE @]
    /\ pub' = [pub EXCEPT !.index = @ + 1]
    /\ UNCHANGED <<job, step, results, artifacts, buf, src, hist, plant>>

\* run_lowlevel_job up to the loop.  The gr00t publisher starts its service and
\* waits for the line that says it is ready; one that exits or says it is not
\* raises out of the constructor, where nothing closes the child.
Build ==
    /\ pc = "build"
    /\ \/ /\ pc' = "reset" /\ ep' = 1
          /\ others' = [others EXCEPT !.service = IF @ = "starting" THEN "up" ELSE @]
       \/ /\ others.service = "starting"
          /\ pc' = "raised" /\ ep' = ep
          /\ \E s \in {"dead", "up"} : others' = [others EXCEPT !.service = s]
    /\ UNCHANGED <<job, step, results, artifacts, pub, buf, src, hist, plant>>

\* Bug: numbers start again with the episode.
ResetPublisherNumbers ==
    [pub EXCEPT !.cursor = 0, !.z = NONE, !.held = 0, !.renewals = 0,
                !.queue = <<>>, !.prev = NONE, !.index = @ + 1, !.seq = 0]

\* Bug: what is left of the last prediction stays.
ResetPublisherKeepsQueue ==
    [pub EXCEPT !.cursor = 0, !.z = NONE, !.held = 0, !.renewals = 0, !.index = @ + 1]

\* publisher.reset: sequence numbers go on over episodes.
ResetPublisher ==
    [pub EXCEPT !.cursor = 0, !.z = NONE, !.held = 0, !.renewals = 0,
                !.queue = <<>>, !.prev = NONE, !.index = @ + 1]

\* Bug: the ring is left as it is.
ResetHistoryNot == hist

\* The term's ring: its frames belong to the episode.  seen is the history of the
\* ticks it took one in.
ResetHistory ==
    [ring |-> [i \in 0 .. Span - 1 |-> NONE], at |-> 0, seen |-> <<>>]

\* run_episode before the first tick: the backend starts from its pose, the
\* buffer keeps what it holds.
Reset ==
    /\ pc = "reset" /\ pc' = "tick" /\ step' = 0
    /\ plant' = Posed
    /\ pub' = ResetPublisher
    /\ src' = [last |-> -1, stale |-> 0, age |-> 0]
    /\ hist' = ResetHistory
    /\ UNCHANGED <<job, ep, results, artifacts, buf, others>>

\* check_state: the state is this tick's; it may be invalid, or too low.
CheckState ==
    /\ pc = "tick"
    /\ \/ /\ pc' = IF job.source \in Local THEN "publish" ELSE "track"
          /\ UNCHANGED <<ep, results, plant>>
       \/ ~Playground /\ Damp
    /\ UNCHANGED <<job, step, artifacts, pub, buf, src, hist, others>>

--------------------------------------------------------------------------------
(* The publishers.  One of them is asked once a tick, before the tracker. *)

\* InProcessCommandBuffer.publish: a number it has seen is dropped.
Accept(packet) ==
    IF packet.seq <= buf.high THEN buf
    ELSE [buf EXCEPT !.packet = packet, !.high = packet.seq]

Publish(p) ==
    LET packet == [seq |-> p.seq + 1, nth |-> others.nth + 1, z |-> p.z] IN
    /\ pub' = [p EXCEPT !.seq = @ + 1, !.held = @ + 1]
    /\ buf' = Accept(packet)

\* Bug: nothing clamps.
FrameAtUnclamped(k) == pub.cursor + k

\* window_indices: the frame at the cursor and those after it, the tail clamped.
FrameAt(k) == IF pub.cursor + k < Frames THEN pub.cursor + k ELSE Frames - 1

Windowed(n) == [i \in 1 .. n + 1 |-> FrameAt(i - 1)]

\* _goal_at: the episode's goal, or the schedule's (0) once its tick is reached.
Goal == IF job.switch # NONE /\ step >= job.switch THEN 0 ELSE pub.index

Latent(slot, frames) ==
    [ep |-> ep, at |-> step, goal |-> Goal, slot |-> slot, seed |-> NONE,
     frames |-> frames]

\* Bug: one tick early.
DueEarly == pub.z = NONE \/ pub.held >= HoldSteps - 1

\* A latent is due when there is none or it has been held.
Due == pub.z = NONE \/ pub.held >= HoldSteps

Forward(p) == [p EXCEPT !.cursor = IF @ < Frames - 1 THEN @ + 1 ELSE @]

\* ReferencePlaybackPublisher: a frame a tick.
Playback ==
    /\ job.source = "playback"
    /\ Publish([Forward(pub) EXCEPT !.z = Latent(1, Windowed(0)), !.held = 0])

\* SequenceLatentSource: one latent a renewal, then the last one.
Sequenced ==
    Latent(1, <<IF pub.renewals < Frames THEN pub.renewals ELSE Frames - 1>>)

\* ReferenceEncoderSource, a transformed one included: the window at the cursor.
Encoded == Latent(1, Windowed(Window))

\* OnboardEncoderPublisher and LatentPublisher: a latent every HoldSteps ticks.
Encode ==
    /\ job.source \in {"encoder", "latent"}
    /\ Publish(Forward(
         IF ~Due THEN pub
         ELSE [pub EXCEPT !.z = IF job.ends = "sequence" THEN Sequenced ELSE Encoded,
                          !.held = 0, !.renewals = @ + 1]))

\* Gr00tServicePublisher: the next latent of the prediction, or a request.
\* With RTC, or a head that predicts windows, every latent is asked for, with RTC
\* seeded with the last prediction.
Request ==
    LET next == [Latent(1, <<>>) EXCEPT
                   !.seed = IF job.rtc /\ pub.prev # NONE THEN pub.prev ELSE NONE]
        rest == IF job.rtc \/ job.chunk THEN <<>>
                ELSE [i \in 1 .. Slots - 1 |-> [next EXCEPT !.slot = i + 1]]
    IN [pub EXCEPT !.z = next, !.held = 0, !.prev = ep, !.queue = rest]

Gr00t ==
    /\ job.source = "gr00t"
    /\ \/ ~Due /\ Publish(pub)
       \/ /\ Due /\ pub.queue # <<>>
          /\ Publish([pub EXCEPT !.z = Head(pub.queue), !.held = 0, !.queue = Tail(@)])
       \/ /\ Due /\ pub.queue = <<>> /\ others.service = "up"
          /\ Publish(Request)

Asks == job.source = "gr00t" /\ Due /\ pub.queue = <<>>

\* Bug: the end of the service's output is not seen.
TickFailsUnlessGone ==
    /\ pc = "publish"
    /\ \/ Due /\ job.source \in {"encoder", "latent"} /\ Fault
       \/ Asks /\ others.service = "up" /\ ((Damp /\ UNCHANGED others) \/ Raise)
    /\ UNCHANGED <<job, step, artifacts, src, hist, buf, pub>>

Tick ==
    /\ pc = "publish" /\ pc' = "track"
    /\ Playback \/ Encode \/ Gr00t
    /\ others' = [others EXCEPT !.nth = @ + 1]
    /\ UNCHANGED <<job, ep, step, results, artifacts, src, hist, plant>>

\* A publisher fails.  An encoder's latent of the wrong shape, a missing anchor
\* pose and a prediction of the wrong size are ValueErrors, a service that exits
\* while it is asked is a RuntimeError; a reply without a chunk is a KeyError and
\* a write to a service that is gone a BrokenPipeError, which nothing catches.
TickFails ==
    /\ pc = "publish"
    /\ \/ /\ Due /\ job.source \in {"encoder", "latent"}
          /\ Fault
       \/ /\ Asks /\ others.service = "up"
          /\ \/ Damp /\ \E s \in {"up", "dead"} : others' = [others EXCEPT !.service = s]
             \/ Raise
       \/ Asks /\ others.service = "dead" /\ Raise
    /\ UNCHANGED <<job, step, artifacts, src, hist, buf, pub>>

\* readline has no timeout of its own: a service that says nothing stops the run.
ServiceHangs ==
    /\ others.service = "up" /\ pc = "publish" /\ Asks
    /\ others' = [others EXCEPT !.service = "hung"]
    /\ UNCHANGED <<job, pc, ep, step, results, artifacts, pub, buf, src, hist, plant>>

--------------------------------------------------------------------------------
(* The tracker *)

\* snapshot: ZmqCommandBuffer reads every message there is and drops the numbers
\* it has seen; the other two hold one packet.  Taken: those of the first n
\* messages whose number is above all before them.
Taken(n) ==
    {i \in 1 .. n : /\ buf.wire[i].seq > buf.high
                    /\ \A j \in 1 .. i - 1 : buf.wire[j].seq < buf.wire[i].seq}

Drained(n) ==
    LET rest == SubSeq(buf.wire, n + 1, Len(buf.wire)) IN
    IF Taken(n) = {} THEN [buf EXCEPT !.wire = rest]
    ELSE LET newest == buf.wire[Max(Taken(n))] IN
         [packet |-> newest, high |-> newest.seq, wire |-> rest]

\* Bug: one message a tick.
SnapshotOne == Drained(IF buf.wire = <<>> THEN 0 ELSE 1)

Snapshot == Drained(Len(buf.wire))

\* A seqlock snapshot that meets a publish in each of its attempts is no packet; a
\* writer that dies inside one leaves the word odd, and every snapshot is none.  One
\* that follows it is read only while it publishes (ShmSlot).
MayGiveUp == job.source = "shm" /\ (others.writer \/ others.inside)

Locked == job.source = "shm" /\ others.inside /\ ~others.writer

\* Bug: a ring as long as the history, whatever its stride.
AssembleShort ==
    IF hist.seen = <<>>
    THEN [ring |-> [i \in 0 .. Span - 1 |->
                      IF i = 0 \/ job.fill = "repeat_first" THEN <<ep, step>> ELSE <<0, 0>>],
          at |-> 0, seen |-> <<step>>]
    ELSE LET at == (hist.at + 1) % Past IN
         [hist EXCEPT !.at = at, !.ring[at] = <<ep, step>>, !.seen = Append(@, step)]

\* ObservationAssembler.assemble: the ring takes the frame; the first of an
\* episode fills it, or follows zeros.
Assemble ==
    IF hist.seen = <<>>
    THEN [ring |-> [i \in 0 .. Span - 1 |->
                      IF i = 0 \/ job.fill = "repeat_first" THEN <<ep, step>> ELSE <<0, 0>>],
          at |-> 0, seen |-> <<step>>]
    ELSE LET at == (hist.at + 1) % Span IN
         [hist EXCEPT !.at = at, !.ring[at] = <<ep, step>>, !.seen = Append(@, step)]

\* What the observation holds of the k-th frame back.
Seen(k) == hist.ring[(hist.at + Span * Past - k * Stride) % Span]

\* publisher.exhausted, as the loop reads it after the tick.  The gr00t client is
\* given no max_publications; a pushing process has no end.
Exhausted ==
    CASE job.source \in {"playback", "encoder"} -> pub.cursor >= Frames - 1
      [] job.source = "latent" ->
           IF job.ends = "reference" THEN pub.cursor >= Frames - 1
           ELSE pub.renewals >= Frames
      [] OTHER -> FALSE

\* A tick is over.  The playground also ends an episode whose robot has fallen.
EndTick ==
    /\ step' = step + 1
    /\ \/ /\ ~Exhausted /\ step + 1 < MaxSteps
          /\ pc' = "tick" /\ UNCHANGED <<ep, results>>
       \/ /\ Exhausted \/ step + 1 = MaxSteps
          /\ EndEpisode(IF Exhausted THEN "reference_finished" ELSE "completed", step + 1)
       \/ /\ Playground
          /\ EndEpisode("fell", step + 1)

\* Bug: a tick without a command is not counted.
UnavailableUncounted ==
    /\ pc = "track" /\ (Snapshot.packet = NONE \/ MayGiveUp)
    /\ EndTick
    /\ buf' = Snapshot
    /\ UNCHANGED <<job, artifacts, pub, hist, src, plant, others>>

\* No packet yet, or none this time: the watchdog counts, and damps beyond its limit.
Unavailable ==
    /\ pc = "track" /\ (Snapshot.packet = NONE \/ MayGiveUp)
    /\ src' = [src EXCEPT !.stale = @ + 1, !.age = @ + 1]
    /\ IF src.stale + 1 > AbsentTicks
       THEN Damp /\ step' = step
       ELSE EndTick /\ UNCHANGED plant
    /\ buf' = Snapshot
    /\ UNCHANGED <<job, artifacts, pub, hist, others>>

\* BufferedCommandSource.update: another number is a renewal, whatever number it
\* is; the watchdog forgets its count on one.
Sampled(packet) ==
    IF packet.seq # src.last THEN [last |-> packet.seq, stale |-> 0, age |-> 0]
    ELSE [src EXCEPT !.age = @ + 1]

\* The newest packet is decoded and written.  A term of another width or an action
\* that is not finite is a ValueError, a term the packet lacks a KeyError, which
\* nothing catches, before or after the term here has taken its frame.
Track ==
    /\ pc = "track" /\ Snapshot.packet # NONE /\ ~Locked
    /\ src' = Sampled(Snapshot.packet)
    /\ buf' = Snapshot
    /\ \/ /\ plant' = Given("joint", Snapshot.packet) /\ hist' = Assemble
          /\ EndTick /\ UNCHANGED others
       \/ /\ Fault \/ Raise
          /\ hist' \in {hist, Assemble} /\ step' = step
    /\ UNCHANGED <<job, artifacts, pub>>

\* A ZMQ message that does not decode: those before it have been read.
Malformed ==
    /\ pc = "track" /\ buf.wire # <<>>
    /\ \E n \in 1 .. Len(buf.wire) :
         buf' = [Drained(n - 1) EXCEPT !.wire = Tail(@)]
    /\ (Damp /\ UNCHANGED others) \/ Raise
    /\ UNCHANGED <<job, step, artifacts, pub, src, hist>>

\* Bug: one good episode is enough.
ReportAny ==
    /\ pc = "report" /\ pc' = "done"
    /\ others' = [others EXCEPT !.service = Closed(@)]
    /\ artifacts' = IF Playground THEN NONE
                    ELSE IF \E i \in DOMAIN results :
                         results[i].status \in {"completed", "reference_finished"}
                    THEN "succeeded" ELSE "failed"
    /\ UNCHANGED <<job, ep, step, results, pub, buf, src, hist, plant>>

\* close, then write_run_artifacts.  A latent rollout returns its arrays.
Report ==
    /\ pc = "report" /\ pc' = "done"
    /\ others' = [others EXCEPT !.service = Closed(@)]
    /\ artifacts' = IF Playground THEN NONE
                    ELSE IF \A i \in DOMAIN results :
                         results[i].status \in {"completed", "reference_finished"}
                    THEN "succeeded" ELSE "failed"
    /\ UNCHANGED <<job, ep, step, results, pub, buf, src, hist, plant>>

\* Ctrl-C: the finally closes the publisher.
Interrupt ==
    /\ pc \notin {"build", "done", "raised"}
    /\ Raise
    /\ UNCHANGED <<job, step, artifacts, pub, buf, src, hist>>

--------------------------------------------------------------------------------
(* What runs beside the loop *)

\* The gr00t service exits between two requests.
ServiceDies ==
    /\ pc \notin {"build", "done", "raised"} /\ others.service \in {"up", "hung"}
    /\ IF others.service = "hung"
       THEN Damp
       ELSE UNCHANGED <<pc, ep, results, plant>>
    /\ others' = [others EXCEPT !.service = "dead"]
    /\ UNCHANGED <<job, step, artifacts, pub, buf, src, hist>>

\* The pushing process publishes: into the slot, or on the wire, which may lose
\* the message.
Push ==
    LET packet == [seq |-> others.seq + 1, nth |-> others.nth + 1, z |-> NONE] IN
    /\ pc \notin {"build", "done", "raised"}
    /\ others.writer /\ others.nth < MaxPublished
    /\ \/ job.source = "zmq" /\ buf' = [buf EXCEPT !.wire = Append(@, packet)]
       \/ job.source = "shm" /\ buf' = [buf EXCEPT !.packet = packet]
       \/ job.source = "zmq" /\ buf' = buf
    /\ others' = [others EXCEPT !.seq = @ + 1, !.nth = @ + 1]
    /\ UNCHANGED <<job, pc, ep, step, results, artifacts, pub, src, hist, plant>>

\* It dies, inside publish or not, and comes back with its numbers from 1.
PusherRestarts ==
    /\ pc \notin {"build", "done", "raised"}
    /\ \/ /\ others.writer
          /\ \E inside \in {others.inside, job.source = "shm"} :
               others' = [others EXCEPT !.writer = FALSE, !.inside = inside]
       \/ /\ job.source \notin Local /\ ~others.writer /\ others.restarts = 0
          /\ others' = [others EXCEPT !.writer = TRUE, !.seq = 0, !.restarts = 1]
    /\ UNCHANGED <<job, pc, ep, step, results, artifacts, pub, buf, src, hist, plant>>

Loop == Build \/ Reset \/ CheckState \/ Tick \/ TickFails \/ Unavailable \/ Track
        \/ Malformed \/ Report

LoopNext == Loop \/ Interrupt \/ ServiceHangs \/ ServiceDies \/ Push \/ PusherRestarts

LoopSpec == LoopInit /\ [][LoopNext]_loopVars /\ WF_loopVars(Loop)

--------------------------------------------------------------------------------
(* Properties *)

Running == pc \in {"tick", "publish", "track"}

EpisodeResults ==
    [status : {"completed", "reference_finished", "fell", "damped"},
     steps : 0 .. MaxSteps]

Plants == [kind : {"pose", "joint", "damp"}, packet : Packets \cup {NONE}]

Publishers ==
    [seq : Nat, cursor : 0 .. Frames - 1, z : Latents \cup {NONE},
     held : 0 .. HoldSteps, renewals : Nat, queue : Seq(Latents),
     prev : Nat \cup {NONE}, index : Nat]

Buffers == [packet : Packets \cup {NONE}, high : Int, wire : Seq(Packets)]

Sources == [last : Int, stale : Nat, age : Nat]

Histories ==
    [ring : [0 .. Span - 1 -> (Nat \X Nat) \cup {NONE}], at : 0 .. Span - 1,
     seen : Seq(Nat)]

Beside ==
    [service : Services \cup {NONE},
     writer : BOOLEAN, inside : BOOLEAN, seq : Nat, restarts : 0 .. 1, nth : Nat]

\* Every window lies in the reference, every counter is in its range, and every
\* episode but this one has a result.
LoopTypeOK ==
    /\ job \in Jobs
    /\ pc \in {"build", "reset", "tick", "publish", "track", "report", "done", "raised"}
    /\ ep \in 0 .. Total /\ step \in 0 .. MaxSteps
    /\ Running => ep > 0 /\ step < MaxSteps
    /\ results \in Seq(EpisodeResults)
    /\ pc \in {"report", "done"} => Len(results) = Total
    /\ Running \/ pc = "reset" => ep = Len(results) + 1
    /\ artifacts \in {NONE, "succeeded", "failed"}
    /\ plant \in Plants /\ pub \in Publishers /\ buf \in Buffers
    /\ src \in Sources /\ hist \in Histories /\ others \in Beside
    /\ pc = "build" => ep = 0 /\ results = <<>>
    /\ others.service = "hung" => pc = "publish" /\ Asks

\* While the robot has been given nothing, the watchdog counts the ticks.
Unfed == Running /\ plant.kind = "pose" => src.stale = step /\ step <= AbsentTicks

\* The ring's slot j frames behind the last one it took, and what is there.
Back(j) == IF j <= hist.at THEN hist.at - j ELSE hist.at - j + Span

Shown(j) ==
    IF j < Len(hist.seen) THEN <<ep, hist.seen[Len(hist.seen) - j]>>
    ELSE IF job.fill = "zeros" THEN <<0, 0>> ELSE <<ep, hist.seen[1]>>

\* A history has a packet behind it; the whole ring is the last frames, those
\* between two strides included; and no tick is without one from the first on,
\* unless it is shared memory that is read.
Recorded ==
    /\ hist.seen # <<>> \/ plant.kind = "joint" => buf.packet # NONE
    /\ Running /\ hist.seen # <<>> =>
         /\ \A j \in 0 .. Span - 1 : hist.ring[Back(j)] = Shown(j)
         /\ job.source # "shm" =>
              \A j \in 0 .. Len(hist.seen) - 1 :
                  hist.seen[Len(hist.seen) - j] = step - 1 - j

\* Ticks since the latent of the publisher was asked for.
Since == (pub.z.slot - 1) * HoldSteps + pub.held - IF pc = "track" THEN 1 ELSE 0

\* The goal of what is asked for at a tick of this episode.
GoalFrom(tick) == IF job.switch # NONE /\ tick >= job.switch THEN 0 ELSE ep

\* A local publisher and its buffer: every packet is accepted, and what is
\* played, with what the prediction has left, is this episode's.
Planned ==
    job.source \in Local =>
        /\ buf.wire = <<>> /\ ~others.writer /\ buf.high = pub.seq
        /\ pc = "track" => /\ pub.z # NONE /\ buf.packet # NONE
                           /\ buf.packet.z = pub.z /\ buf.packet.nth = others.nth
        /\ pc = "build" => pub.index = 0
        /\ pc = "reset" => pub.index + 1 = ep
        /\ Running =>
             /\ pub.index = ep /\ pub.prev \in {NONE, ep}
             /\ pub.z # NONE =>
                  /\ pub.z.ep = ep /\ pub.z.goal = GoalFrom(pub.z.at)
                  /\ pub.z.seed \in {NONE, ep}
                  /\ pub.held > 0 /\ step - pub.z.at = Since
             /\ pub.queue # <<>> => job.source = "gr00t" /\ pub.z # NONE
             /\ \A i \in DOMAIN pub.queue :
                  /\ pub.queue[i].ep = ep /\ pub.queue[i].goal = GoalFrom(pub.z.at)
                  /\ pub.queue[i].seed \in {NONE, ep}
                  /\ pub.queue[i].at = pub.z.at /\ pub.queue[i].slot = pub.z.slot + i

\* A pushing process that has not been restarted: shared memory holds its last
\* packet; on the wire its numbers go up, beyond all the buffer has seen.
Pushed ==
    /\ job.source = "shm" =>
         buf.wire = <<>> /\ (buf.packet # NONE => buf.packet.nth = others.nth)
    /\ job.source = "zmq" /\ others.restarts = 0 =>
         /\ others.seq = others.nth
         /\ buf.packet # NONE => buf.packet.nth = buf.high
         /\ buf.high <= others.seq
         /\ \A i \in DOMAIN buf.wire :
              /\ buf.wire[i].nth = buf.wire[i].seq
              /\ buf.wire[i].seq \in buf.high + 1 .. others.seq
              /\ \A j \in 1 .. i - 1 : buf.wire[j].seq < buf.wire[i].seq

LoopInv == Unfed /\ Recorded /\ Planned /\ Pushed

\* The newest packet that a snapshot can have is the one behind what the backend
\* is given: a local publisher's of this very tick, in every episode, and a
\* pushing process's last one to arrive, if it has not been restarted.
Newest ==
    IF job.source = "zmq"
    THEN IF buf.wire = <<>> THEN buf.packet.nth ELSE Last(buf.wire).nth
    ELSE others.nth

Writes ==
    /\ pc = "track" /\ pc' \notin {"track", "raised"}
    /\ plant'.kind = "joint" /\ hist'.seen # hist.seen

PlaysNewest ==
    [][Writes /\ others.restarts = 0 => plant'.packet.nth = Newest]_loopVars

\* A latent is played in the ticks its publisher planned it for: the k-th of a
\* prediction from k - 1 holds after the request on, for one hold.
PlayedOnTime ==
    pc = "track" /\ job.source \in Local =>
        LET z == buf.packet.z IN
        step - z.at \in (z.slot - 1) * HoldSteps .. z.slot * HoldSteps - 1

\* What is played was asked for in this episode, for its goal, or the schedule's
\* from its tick on, and continues no prediction of another episode.
AskedInThisEpisode ==
    pc = "track" /\ job.source \in Local =>
        LET z == buf.packet.z IN
        z.ep = ep /\ z.goal = GoalFrom(z.at) /\ z.seed \in {NONE, ep}

\* The observation's history is the last frames of this episode, Stride apart, and
\* the fill before them: those of the last ticks, or over shared memory those of
\* the last ticks whose snapshot did not give up.
RecentHistory ==
    Running /\ hist.seen # <<>> =>
        \A k \in 0 .. Past - 1 :
            /\ Seen(k) = Shown(k * Stride)
            /\ job.source # "shm" /\ k * Stride < Len(hist.seen) =>
                 Seen(k) = <<ep, step - 1 - k * Stride>>

\* A robot that has been given no command is not left so for longer than the
\* watchdog allows.
UnfedStops == Running /\ plant.kind = "pose" => step <= AbsentTicks

\* A status on disk covers every episode, is a success only if each one ran out
\* its steps or its reference, and leaves no service behind.
ReportIsWhole ==
    artifacts # NONE =>
        /\ Len(results) = Episodes
        /\ artifacts = "succeeded" =>
             \A i \in 1 .. Episodes : results[i].steps \in {MaxSteps, Frames - 1}
        /\ others.service \notin {"up", "hung"}

\* A run ends, unless its service stays silent.
Ends == <>(pc \in {"done", "raised"} \/ others.service = "hung")

\* safety.py:1: freshness watchdogs.  A command that is not renewed is played no
\* longer than the absence of one is borne.
SilentPusherDamps == Running => src.age <= AbsentTicks

\* command_buffer.py:24: the same semantics for every implementation, numbers
\* being a publisher's own: a restarted publisher is heard.
RestartedIsHeard == [][Writes => plant'.packet.nth = Newest]_loopVars

\* shm_command_slot.hpp:130: a snapshot is none when no packet was ever published.
\* From the first on the tracker has one in every tick.
NoneBeforeTheFirst ==
    Running /\ hist.seen # <<>> => Len(hist.seen) = step - hist.seen[1]

\* runner.py:195: which goal each episode ran.
RanItsGoal == pc = "track" /\ job.source \in Local => buf.packet.z.goal = ep

\* latent_perturbation.py:242: z on the contract's hold schedule, the last of a
\* sequence included.
LastIsHeld ==
    (/\ pc = "done" /\ job.source = "latent" /\ job.ends = "sequence"
     /\ results[1].status = "reference_finished") => results[1].steps >= Frames * HoldSteps

\* loop.py:45: CONTROL and DAMP are the states.  A run that ends early leaves the
\* robot damped.
RaisesDamped == pc = "raised" => plant.kind # "joint"
=============================================================================
