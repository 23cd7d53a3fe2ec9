---------------------------- MODULE PlannerWorkers ----------------------------
(****************************************************************************)
(* The processes that answer the native controller's planner requests:      *)
(* NativeChunkWorker and NativeLatentPlanWorker in front of a head that     *)
(* speaks lines of JSON over its stdin and stdout, NativeOracleWorker,      *)
(* which answers from a reference motion, and StdioChunkRelay, the older    *)
(* bridge.  ec lowlevel planner-worker and oracle-worker run one of them    *)
(* until it fails or is interrupted, and write a report.                    *)
(*                                                                          *)
(* The two mailboxes hold their newest packet.  A request is known by who   *)
(* sent it: the controller process, its run and its number.  A prediction   *)
(* is known by the request it answers and by the one whose prediction       *)
(* seeded it.                                                               *)
(****************************************************************************)
EXTENDS Integers, Sequences, SequencesExt

CONSTANTS
    Frames,  \* window_frames of the encoder
    Stride,  \* macro_frame_stride
    Hold,    \* hold_steps
    Lead,    \* lead_ticks of the controller
    Length,  \* frames of the reference motion
    MaxAsks, \* requests of one controller process (bound)
    MaxRuns, \* its runs (bound)
    NONE

ASSUME WorkersAssumption ==
    /\ {Frames, Stride, Hold, Length} \subseteq Nat \ {0}
    /\ Lead \in 0 .. Hold - 1
    /\ MaxAsks \in Nat /\ MaxRuns \in Nat \ {0}

VARIABLES
    config,   \* which worker, with its flags
    main,     \* the command, or the owner of a relay
    worker,   \* the loop of run()
    service,  \* the head's process, its stdin and stdout; whether it answered twice
    request,  \* the request mailbox
    response, \* the response mailbox
    report,   \* whether the report names an error; NONE before there is one
    ctl       \* the controller: its process, run, number and reference frame

workersVars == <<config, main, worker, service, request, response, report, ctl>>

Kinds == {"chunk", "plan", "oracle", "relay"}

\* matched: the controller's requests bear the tag the worker serves.
Configs == [kind : Kinds, rtc : BOOLEAN, matched : BOOLEAN, slack : {0, Hold}]

Headed == config.kind # "oracle"

WorkersInit ==
    /\ config \in {c \in Configs : /\ c.rtc => c.kind \in {"chunk", "plan"}
                                   /\ c.slack > 0 => c.kind = "oracle"}
    /\ main = "start"
    /\ worker = [at |-> "poll", last |-> 0, req |-> NONE, reply |-> NONE, prev |-> NONE,
                 failed |-> FALSE]
    /\ service = [state |-> IF config.kind = "oracle" THEN NONE ELSE "starting",
                  in |-> <<>>, out |-> <<>>, twice |-> FALSE]
    /\ request = NONE /\ response = NONE /\ report = NONE
    /\ ctl = [inc |-> 1, run |-> 1, seq |-> 0, frame |-> 0]

Alive(s) == s \in {"starting", "up", "hung"}

--------------------------------------------------------------------------------
(* The worker *)

\* StdioChunkService.__init__ and StdioChunkRelay.__init__.  A head that is not
\* ready, or of another contract, is terminated; the relay leaves it.
Start ==
    /\ main = "start"
    /\ \/ /\ main' = "work"
          /\ service' = [service EXCEPT !.state = IF Headed THEN "up" ELSE NONE]
       \/ /\ Headed /\ main' = "raised"
          /\ \E s \in {"dead", "up"} :
               service' = [service EXCEPT
                             !.state = IF s = "up" /\ config.kind # "relay" THEN "gone" ELSE s]
    /\ UNCHANGED <<config, worker, request, response, report, ctl>>

\* A number is new to a worker if it is larger than the last one, to the relay if
\* it is another one.
New == /\ request # NONE
       /\ IF config.kind = "relay" THEN request.seq # worker.last ELSE request.seq > worker.last

\* An exception ends run(): last_error holds it.  The relay's thread just dies.
Fail == worker' = [worker EXCEPT !.at = "stopped", !.failed = TRUE]

\* A request is taken: its number, then its tag, then its contents.
Poll ==
    /\ main = "work" /\ worker.at = "poll" /\ New
    /\ \/ /\ config.matched
          /\ worker' = [worker EXCEPT !.at = "ask", !.last = request.seq, !.req = request]
       \/ ~config.matched /\ config.kind # "relay" /\ Fail
    /\ UNCHANGED <<config, main, service, request, response, report, ctl>>

\* The request goes to the head as a line, under RTC with the last prediction.
AskHead ==
    /\ main = "work" /\ worker.at = "ask" /\ Headed
    /\ \/ /\ service.state \in {"up", "hung"}
          /\ service' = [service EXCEPT !.in = Append(@,
               [of |-> worker.req, seed |-> IF config.rtc THEN worker.prev ELSE NONE])]
          /\ worker' = [worker EXCEPT !.at = "wait"]
       \/ service.state = "dead" /\ Fail /\ UNCHANGED service
    /\ UNCHANGED <<config, main, request, response, report, ctl>>

\* Bug: the number of the request that came while this one was thought about.
PublishedSkips(reply) ==
    worker' = [worker EXCEPT !.at = "poll", !.req = NONE, !.reply = NONE, !.prev = reply.of,
                             !.last = request.seq]

\* The worker is done with the request and keeps the prediction.
Published(reply) ==
    worker' = [worker EXCEPT !.at = "poll", !.req = NONE, !.reply = NONE, !.prev = reply.of]

\* Bug: a reply that is no JSON costs its request and nothing else.
ReadHeadGoesOn ==
    /\ main = "work" /\ worker.at = "wait"
    /\ \/ /\ service.out # <<>>
          /\ service' = [service EXCEPT !.out = Tail(@)]
          /\ LET line == Head(service.out) IN
             \/ /\ line.kind = "chunk"
                /\ worker' = [worker EXCEPT !.at = "publish", !.reply = line]
             \/ /\ line.kind = "noise"
                /\ worker' = [worker EXCEPT !.at = "poll"]
             \/ /\ line.kind = "wrong"
                /\ Fail
       \/ service.out = <<>> /\ service.state = "dead" /\ Fail /\ UNCHANGED service
    /\ UNCHANGED <<config, main, request, response, report, ctl>>

\* One line is read for one line written, whatever it is about.  A line that is no
\* JSON ends the worker and is skipped by the relay, for its minute.  An answer
\* without a chunk ends both, one of another size or not finite the worker: the
\* relay publishes what it can reshape.  The end of the output ends both.
ReadHead ==
    /\ main = "work" /\ worker.at = "wait"
    /\ \/ /\ service.out # <<>>
          /\ service' = [service EXCEPT !.out = Tail(@)]
          /\ LET line == Head(service.out) IN
             \/ /\ line.kind = "chunk"
                /\ worker' = [worker EXCEPT !.at = "publish", !.reply = line]
             \/ /\ line.kind = "wrong" /\ config.kind = "relay"
                /\ worker' = [worker EXCEPT !.at = "publish", !.reply = line]
             \/ line.kind = "noise" /\ config.kind = "relay" /\ UNCHANGED worker
             \/ line.kind # "chunk" /\ Fail
       \/ service.out = <<>> /\ service.state = "dead" /\ Fail /\ UNCHANGED service
    /\ UNCHANGED <<config, main, request, response, report, ctl>>

\* The prediction is published under the request's number.
PublishResponse ==
    /\ main = "work" /\ worker.at = "publish"
    /\ response' = [seq |-> worker.req.seq, of |-> worker.reply.of, seed |-> worker.reply.seed,
                    frames |-> <<>>]
    /\ Published(worker.reply)
    /\ UNCHANGED <<config, main, service, request, report, ctl>>

\* Bug: the window alone.
HorizonShort == (Frames - 1) * Stride + Hold

\* What a block has to hold, with the slack of --horizon.
Horizon == (Frames - 1) * Stride + Hold + 1 + config.slack

\* _build_response: the frames from the requested one on, the last one repeated;
\* a request past the end is an error.
Block(frame) ==
    [i \in 1 .. Horizon |-> IF frame + i - 1 < Length THEN frame + i - 1 ELSE Length - 1]

Oracle ==
    /\ main = "work" /\ worker.at = "ask" /\ ~Headed
    /\ \/ /\ worker.req.frame < Length
          /\ response' = [seq |-> worker.req.seq, of |-> worker.req, seed |-> NONE,
                          frames |-> Block(worker.req.frame)]
          /\ Published([of |-> worker.req])
       \/ worker.req.frame >= Length /\ Fail /\ UNCHANGED response
    /\ UNCHANGED <<config, main, service, request, report, ctl>>

--------------------------------------------------------------------------------
(* The command around it *)

\* run() returns after an error; Ctrl-C, or the relay's owner, ends it anywhere.
Leave ==
    /\ main = "work" /\ main' = "closing"
    /\ UNCHANGED <<config, worker, service, request, response, report, ctl>>

Ended == main = "work" /\ worker.at = "stopped" /\ config.kind # "relay" /\ Leave

\* Bug: a head that does not stop in time is left.
CloseWaits ==
    /\ main = "closing"
    /\ main' = "reported"
    /\ service' = [service EXCEPT !.state = IF @ = "up" THEN "gone" ELSE @]
    /\ report' = IF config.kind = "relay" THEN NONE ELSE worker.failed
    /\ UNCHANGED <<config, worker, request, response, ctl>>

\* close(): stop, terminate, kill; then the report.  The relay waits and raises,
\* and reports nothing.
Close ==
    /\ main = "closing"
    /\ IF config.kind = "relay" /\ service.state = "hung"
       THEN main' = "raised" /\ UNCHANGED <<service, report>>
       ELSE /\ main' = "reported"
            /\ service' = [service EXCEPT !.state = IF Alive(@) THEN "gone" ELSE @]
            /\ report' = IF config.kind = "relay" THEN NONE ELSE worker.failed
    /\ UNCHANGED <<config, worker, request, response, ctl>>

--------------------------------------------------------------------------------
(* What is outside: the head and the controller *)

\* The head takes a line and answers it, with a line of something else before or
\* after the answer, or twice.
HeadAnswers ==
    LET line(kind) == [kind |-> kind, of |-> Head(service.in).of, seed |-> Head(service.in).seed]
    IN
    /\ service.state = "up" /\ service.in # <<>>
    /\ \/ \E lines \in {<<line("chunk")>>, <<line("noise"), line("chunk")>>,
                         <<line("chunk"), line("noise")>>, <<line("wrong")>>} :
            service' = [service EXCEPT !.in = Tail(@), !.out = @ \o lines]
       \/ service' = [service EXCEPT !.in = Tail(@), !.twice = TRUE,
                                     !.out = @ \o <<line("chunk"), line("chunk")>>]
    /\ UNCHANGED <<config, main, worker, request, response, report, ctl>>

HeadFails ==
    /\ service.state \in {"up", "hung"}
    /\ \E s \in {"hung", "dead"} :
         s # service.state /\ service' = [service EXCEPT !.state = s]
    /\ UNCHANGED <<config, main, worker, request, response, report, ctl>>

\* The control thread asks: an oracle for the reference from a frame on, the one it
\* will be at when the block is due, or where it is pinned.  The reference only moves
\* on in a run; a request up to its end (bound), which is an error, is enough.  The
\* mailbox keeps the newest request.
Asks ==
    /\ ctl.seq < MaxAsks /\ main = "work"
    /\ \E frame \in IF Headed THEN {0} ELSE ctl.frame .. Length,
          ahead \in IF Headed THEN {0} ELSE 0 .. Lead, pinned \in {FALSE, ~Headed} :
         /\ frame + ahead <= Length /\ (pinned => ahead = 0)
         /\ ctl' = [ctl EXCEPT !.seq = @ + 1, !.frame = frame]
         /\ request' = [seq |-> ctl.seq + 1, inc |-> ctl.inc, run |-> ctl.run,
                        frame |-> frame + ahead, pinned |-> pinned]
    /\ UNCHANGED <<config, main, worker, service, response, report>>

\* A new run goes on with the numbers; a new process starts them again, on the
\* same mailboxes.
Restarts ==
    /\ main = "work"
    /\ \/ /\ ctl.run < MaxRuns
          /\ ctl' = [ctl EXCEPT !.run = @ + 1, !.frame = 0]
       \/ /\ ctl.inc = 1
          /\ ctl' = [inc |-> 2, run |-> 1, seq |-> 0, frame |-> 0]
    /\ UNCHANGED <<config, main, worker, service, request, response, report>>

Work == Poll \/ AskHead \/ ReadHead \/ PublishResponse \/ Oracle

WorkersNext == \/ Start \/ Work \/ Leave \/ Ended \/ Close
               \/ HeadAnswers \/ HeadFails \/ Asks \/ Restarts

WorkersSpec ==
    /\ WorkersInit /\ [][WorkersNext]_workersVars
    /\ WF_workersVars(Work) /\ WF_workersVars(Ended)
    /\ WF_workersVars(Close) /\ WF_workersVars(HeadAnswers)

--------------------------------------------------------------------------------
(* Properties *)

Requests == [seq : 1 .. MaxAsks, inc : {1, 2}, run : 1 .. MaxRuns, frame : 0 .. Length,
             pinned : BOOLEAN]
Lines    == [of : Requests, seed : Requests \cup {NONE}]
Replies  == [kind : {"chunk", "noise", "wrong"}, of : Requests, seed : Requests \cup {NONE}]

Worker  == [at : {"poll", "ask", "wait", "publish", "stopped"}, last : 0 .. MaxAsks,
            req : Requests \cup {NONE}, reply : Replies \cup {NONE},
            prev : Requests \cup {NONE}, failed : BOOLEAN]
Service == [state : {NONE, "starting", "up", "hung", "dead", "gone"},
            in : Seq(Lines), out : Seq(Replies), twice : BOOLEAN]

WorkersTypeOK ==
    /\ config \in Configs
    /\ main \in {"start", "work", "closing", "reported", "raised"}
    /\ worker \in Worker /\ service \in Service
    /\ worker.at \in {"ask", "wait", "publish"} => worker.req \in Requests
    /\ worker.at = "publish" => worker.reply \in Replies
    /\ request \in Requests \cup {NONE}
    /\ report \in BOOLEAN \cup {NONE}
    /\ ctl \in [inc : {1, 2}, run : 1 .. MaxRuns, seq : 0 .. MaxAsks, frame : 0 .. Length]

\* What a response says was predicted for the request whose number it bears, however
\* late and whatever else the head wrote, as long as it has answered no line twice.
AnswersItsRequest ==
    response # NONE /\ ~service.twice => response.of.seq = response.seq

\* The newest request of a controller that was not restarted is answered, unless
\* the worker or its head has failed or was closed, or the tags do not match.
NewestAnswered ==
    (main = "work" /\ request # NONE /\ request.inc = 1)
        ~> \/ response # NONE /\ request # NONE /\ response.seq = request.seq
           \/ worker.at = "stopped" \/ main # "work" \/ service.state \in {"hung", "dead"}
           \/ ctl.inc > 1 \/ ~config.matched

\* A block holds the offset's window: frames Stride apart, each the motion's own.
Holds(block, o) ==
    \A k \in 0 .. Frames - 1 :
        /\ o + k * Stride + 1 \in DOMAIN block.frames
        /\ block.frames[o + k * Stride + 1]
             = IF block.of.frame + o + k * Stride < Length
               THEN block.of.frame + o + k * Stride ELSE Length - 1

\* How far into a block the controller reads that takes it when it is due and has the
\* next one in time: a hold.  A reference that was pinned when it asked, and released
\* at once, is Lead ahead of the block by then.  A hold without a reply takes the
\* first tick of the next from the block in hand, and with the slack all of it.
Farthest(block) ==
    IF block.of.pinned THEN Lead + Hold - 1
    ELSE IF config.slack > 0 THEN 2 * Hold - 1 ELSE Hold

\* A block covers what the controller reads from it, at every tick: with the slack
\* of the default, through a late reply or the release of a pinned reference;
\* without, as long as neither is the case.
BlockCovers ==
    config.kind = "oracle" /\ response # NONE =>
        (config.slack > 0 \/ ~response.of.pinned =>
           \A o \in 0 .. Farthest(response) : Holds(response, o))

\* A report is written only once the head is gone, and names an error if there
\* was one.
ReapedAndReported ==
    main = "reported" =>
        /\ ~Alive(service.state)
        /\ Headed /\ config.kind # "relay" => report = worker.failed

\* The lines that are to be read and answer something.
Answering(out) == {i \in DOMAIN out : out[i].kind # "noise"}

\* One line is out for the request that is waited for: it is still to be read by the
\* head, or one of the head's lines is the answer to it.  There is none otherwise,
\* unless the head has answered a line twice.
OneLineOut ==
    ~service.twice =>
        /\ worker.at \in {"poll", "ask", "publish"} =>
             service.in = <<>> /\ Answering(service.out) = {}
        /\ worker.at = "wait" =>
             \/ /\ Len(service.in) = 1 /\ service.in[1].of = worker.req
                /\ Answering(service.out) = {}
             \/ /\ service.in = <<>>
                /\ \A i \in Answering(service.out) :
                     /\ service.out[i].of = worker.req
                     /\ \A j \in Answering(service.out) : i = j

\* AnswersItsRequest, BlockCovers and ReapedAndReported by induction: only a head is
\* asked and read, and an oracle's response is the block of its request.
WorkersInv ==
    /\ OneLineOut
    /\ worker.at = "publish" /\ ~service.twice => worker.reply.of = worker.req
    /\ worker.at \in {"wait", "publish"} => Headed
    /\ AnswersItsRequest
    /\ ~Headed /\ response # NONE =>
         response.of \in Requests /\ response.frames = Block(response.of.frame)
    /\ ReapedAndReported

\* stdio_chunk_relay.py:4: the paired response.  What a response says was predicted for
\* the request whose number it bears, whatever the head wrote.
PairedResponse == response # NONE => response.of.seq = response.seq

\* native_oracle.py:79: the offset reaches the hold, so that the shortest block holds
\* one frame more than that and the window.
ShortestCovers ==
    config.kind = "oracle" /\ response # NONE =>
        \A o \in 0 .. Farthest(response) : Holds(response, o)

\* robot_lifecycle.md:607: a rebuilt tracker numbers its requests from 1 again.
\* The newest request of a restarted controller is answered too.
RestartedAnswered ==
    (main = "work" /\ request # NONE)
        ~> \/ response # NONE /\ response.of = request
           \/ worker.at = "stopped" \/ main # "work" \/ service.state \in {"hung", "dead"}
           \/ ~config.matched

\* gr00t_service.py:19: RTC continues the previous prediction, which the
\* in-process client forgets at every reset: a run is not seeded with another's.
SeedOfThisRun ==
    response # NONE /\ response.seed # NONE => response.seed.run = response.of.run
=============================================================================
