--------------------------- MODULE PolicyRuntime ---------------------------
(***************************************************************************)
(* The policy's control thread (native_fake_runtime.cpp) and the planner   *)
(* behind its two mailboxes.  One Tick is one one_tick() of the loop:      *)
(* watchdog, response, command schedule, tracker.  The planner is another  *)
(* process: it takes the newest request, thinks, and answers with the      *)
(* request's sequence, however long that takes and whatever the control    *)
(* thread does meanwhile.  It stays up when an episode stops.              *)
(*                                                                         *)
(* Time is counted in control periods.  A command is the reply it came     *)
(* from; what is in it is abstract except the number of slots, its tag     *)
(* (the one of the setup, that of a direct command, or another, as which a *)
(* direct command of a wrong shape counts) and whether it can be used      *)
(* (slots = 0: its shape is wrong, or the encoder fails on it).  A mailbox *)
(* holds its newest packet.                                                *)
(***************************************************************************)
EXTENDS Naturals, FiniteSetsExt

CONSTANTS Setups,       \* the planner configurations to choose from
          StaleTicks,   \* command_stale_ms in control periods
          AbsentTicks,  \* command_absent_ticks
          MaxTicks,     \* bound: control periods of a behaviour
          MaxRuns,      \* bound: episodes
          MaxPushes     \* bound: packets of a pushing publisher

Kinds == {"plan", "chunk", "oracle", "direct"}

(* A setup: what a reply is, whether the runtime asks for it, the hold and *)
(* the lead in ticks, the slots of a plan, the frames a chunk spares past  *)
(* its first window, and whether the planner answers within the lead.      *)
Setup == [kind : Kinds, asks : BOOLEAN, hold : Nat, slots : Nat,
          lead : Nat, spare : Nat, prompt : BOOLEAN]

(* What the constructor accepts; the prompt planner needs a lead to be     *)
(* prompt in.                                                              *)
SetupOK(s) ==
  /\ s.hold > 0 /\ s.slots > 0
  /\ s.lead < s.hold * s.slots
  /\ s.kind # "plan" => s.slots = 1
  /\ s.kind = "oracle" => s.asks
  /\ s.kind = "direct" => ~s.asks
  /\ s.prompt => s.asks /\ s.lead > 0

ASSUME SetupAssumption == Setups \subseteq Setup /\ \A s \in Setups : SetupOK(s)
ASSUME BoundAssumption ==
  {StaleTicks, AbsentTicks, MaxTicks, MaxRuns, MaxPushes} \subseteq Nat

VARIABLES setup,    \* the configuration, fixed
          phase,    \* the thread: idle, starting (the oracle's handshake), up, over (not joined)
          loop,     \* the control thread's own state
          pinned,   \* reference_paused_
          sent,     \* what this tick gave the backend
          now, run, \* control periods so far; episode_generation_
          asked,    \* the request mailbox
          answer,   \* the response mailbox
          planner   \* [up, taken: newest sequence taken, thinking: the request]

vars == <<setup, phase, loop, pinned, sent, now, run, asked, answer, planner>>

Phases == {"idle", "starting", "up", "over"}
Modes  == {"stopped", "wait", "control", "damp"}
Tags   == {"own", "direct", "other"}

(* kCommandContract is three faults here: by a reply, by a mailbox that    *)
(* cannot be read, by an encoder that fails on a reference it encoded.     *)
Faults == {"none", "absent", "stale", "contract", "mailbox", "encoder", "state", "tracker"}
Before == {"none", "state", "mailbox"}    \* what fails before the reply is read
Later  == {"none", "encoder", "tracker"}  \* what fails after it
Sent   == {"none", "wait", "target", "damp"}

Ask    == [seq : Nat, run : Nat, tick : Nat, ref : Nat]
Answer == [ask : Ask, at : Nat, slots : Nat, tag : Tags]
NoAsk    == [seq |-> 0, run |-> 0, tick |-> 0, ref |-> 0]
NoAnswer == [ask |-> NoAsk, at |-> 0, slots |-> 0, tag |-> "other"]

Loop == [mode : Modes, fault : Faults, ticks : Nat, ref : Nat,
         have : BOOLEAN, steps : Nat, absent : Nat,
         planSlots : Nat, cursor : Nat, acceptedAt : Nat,
         cmd : Answer, active : Nat,
         pending : Answer, consumed : Nat, last : Nat,
         out : Ask, asks : Nat,
         missed : BOOLEAN, late : BOOLEAN, overran : BOOLEAN]

(* The members as the constructor leaves them.                             *)
FreshLoop == [mode |-> "stopped", fault |-> "none", ticks |-> 0, ref |-> 0,
              have |-> FALSE, steps |-> 0, absent |-> 0,
              planSlots |-> 0, cursor |-> 0, acceptedAt |-> 0,
              cmd |-> NoAnswer, active |-> 0,
              pending |-> NoAnswer, consumed |-> 0, last |-> 0,
              out |-> NoAsk, asks |-> 0,
              missed |-> FALSE, late |-> FALSE, overran |-> FALSE]

Init ==
  /\ setup \in Setups
  /\ phase = "idle" /\ loop = FreshLoop /\ pinned = FALSE /\ sent = "none"
  /\ now = 0 /\ run = 0
  /\ asked = NoAsk /\ answer = NoAnswer
  /\ planner = [up |-> setup.asks, taken |-> 0, thinking |-> NoAsk]

Paced == setup.kind # "direct"       \* controller_paced_command
Waiting(l) == l.pending.ask.seq > l.consumed

(* transition_to_damp: the first fault is the one that is kept.            *)
Damped(l, why) ==
  [l EXCEPT !.mode = "damp", !.fault = IF @ = "none" THEN why ELSE @]

----------------------------------------------------------------------------
(* Requests and responses.                                                 *)

(* A bug of that kind: the due frame is taken while the clock is pinned.   *)
RequestedWhilePinned(l) ==
  IF ~setup.asks \/ l.out.seq # 0 THEN l
  ELSE [l EXCEPT !.asks = @ + 1,
                 !.out  = [seq |-> l.asks + 1, run |-> run, tick |-> l.ticks,
                           ref |-> IF l.have THEN l.ref + l.steps ELSE l.ref]]

(* publish_planner_request: at most one in flight.  An oracle request      *)
(* names the frame that will be due when the command in hand runs out.     *)
Requested(l) ==
  IF ~setup.asks \/ l.out.seq # 0 THEN l
  ELSE LET due == IF l.have /\ ~pinned THEN l.ref + l.steps ELSE l.ref
           ask == [seq |-> l.asks + 1, run |-> run, tick |-> l.ticks, ref |-> due]
       IN [l EXCEPT !.asks = @ + 1, !.out = ask]

(* accept_direct_command: a direct command drives at once, for a hold      *)
(* where holds are paced, and ends the plan in hand.                       *)
DirectTaken(l) ==
  [l EXCEPT !.have = TRUE, !.steps = setup.hold, !.absent = 0,
            !.planSlots = 0, !.cursor = 0, !.mode = "control",
            !.consumed = answer.ask.seq, !.cmd = answer, !.out = NoAsk]

(* A bug of that kind: any new reply is the one in flight.                 *)
ReadUnchecked(l) ==
  LET got == [l EXCEPT !.last = answer.ask.seq]
  IN  CASE answer.ask.seq <= l.last -> l
        [] answer.ask.seq > l.last /\ setup.kind = "direct" -> DirectTaken(got)
        [] answer.ask.seq > l.last /\ setup.kind # "direct" ->
             [got EXCEPT !.pending = answer, !.out = NoAsk, !.overran = @ \/ Waiting(l)]

(* read_response: an old reply is stale, one nobody waits for breaks the   *)
(* contract, the one in flight waits for the command in hand to run out;   *)
(* a direct command is taken by every setup but the oracle's.              *)
Read(l) ==
  LET seq == answer.ask.seq
      got == [l EXCEPT !.last = seq]
  IN  CASE seq <= l.last -> l
        [] seq > l.last /\ setup.asks /\ seq < l.out.seq -> got
        [] seq > l.last /\ setup.asks /\ seq > l.out.seq -> Damped(got, "contract")
        [] seq > l.last /\ (setup.asks => seq = l.out.seq) ->
             LET direct == answer.tag = "direct" /\ setup.kind # "oracle"
                 own    == answer.tag = "own" /\ setup.kind # "direct"
             IN  CASE own -> [got EXCEPT !.pending = answer, !.out = NoAsk,
                                         !.overran = @ \/ Waiting(l)]
                   [] direct           -> DirectTaken(got)
                   [] ~own /\ ~direct  -> Damped(got, "contract")

----------------------------------------------------------------------------
(* The command schedule.                                                   *)

(* The ticks the planner thought; without a request, the lead.             *)
Elapsed(l) == IF setup.asks THEN l.ticks - l.pending.ask.tick ELSE setup.lead

(* Any reply that is accepted.                                             *)
Taken(l) ==
  [l EXCEPT !.have = TRUE, !.absent = 0, !.mode = "control",
            !.consumed = l.pending.ask.seq, !.cmd = l.pending,
            !.pending = NoAnswer]

(* A bug of that kind: the slot begins anew.                               *)
PlanAcceptedFromSlot(l) ==
  IF l.pending.slots \notin 1..setup.slots THEN Damped(l, "contract")
  ELSE [Taken(l) EXCEPT
          !.planSlots = l.pending.slots, !.acceptedAt = l.ticks,
          !.cursor = Min({Elapsed(l) \div setup.hold, l.pending.slots - 1}),
          !.steps  = setup.hold]

(* accept_latent_plan: the slots whose time passed are skipped; a plan     *)
(* wholly in the past is used at its last slot.                            *)
PlanAccepted(l) ==
  LET slots == l.pending.slots
      late  == Elapsed(l) \div setup.hold >= slots
  IN  IF slots \notin 1..setup.slots THEN Damped(l, "contract")
      ELSE [Taken(l) EXCEPT
              !.planSlots = slots, !.acceptedAt = l.ticks,
              !.late   = @ \/ late,
              !.cursor = IF late THEN slots - 1 ELSE Elapsed(l) \div setup.hold,
              !.steps  = IF late THEN setup.hold
                                 ELSE setup.hold - (Elapsed(l) % setup.hold)]

(* accept_chunk: the encoder's window is cut at the ticks that passed.     *)
ChunkAccepted(l) ==
  IF l.pending.slots = 0 \/ Elapsed(l) > setup.spare
  THEN Damped(l, "contract")
  ELSE [Taken(l) EXCEPT !.steps = setup.hold]

(* How far a reference has run past the first frame of its block.          *)
Offset(l, first) == IF l.ref >= first THEN l.ref - first ELSE 0

(* accept_reference_chunk                                                  *)
ReferenceAccepted(l) ==
  IF l.pending.slots = 0 \/ Offset(l, l.pending.ask.ref) > setup.spare
  THEN Damped(l, "contract")
  ELSE [Taken(l) EXCEPT !.steps = setup.hold, !.active = l.pending.ask.ref]

Accepted(l) == CASE setup.kind = "plan"   -> PlanAccepted(l)
                 [] setup.kind = "chunk"  -> ChunkAccepted(l)
                 [] setup.kind = "oracle" -> ReferenceAccepted(l)

(* plan_ticks_remaining                                                    *)
Remaining(l) == IF l.planSlots = 0 THEN l.steps
                ELSE l.steps + (l.planSlots - 1 - l.cursor) * setup.hold

(* When the hold is over: the plan's next slot (advance_plan_slot), the    *)
(* waiting reply, or the last command again and a miss.                    *)
HoldOver(l) ==
  CASE l.planSlots # 0 /\ l.cursor + 1 < l.planSlots ->
         [l EXCEPT !.cursor = @ + 1, !.steps = setup.hold,
                   !.absent = 0, !.mode = "control"]
    [] l.cursor + 1 >= l.planSlots /\ Waiting(l)  -> Accepted(l)
    [] l.cursor + 1 >= l.planSlots /\ ~Waiting(l) ->
         [l EXCEPT !.missed = TRUE, !.steps = setup.hold]

(* Bugs of that kind: asking a tick late, only on the exact tick, and with *)
(* a reply in hand.                                                        *)
AskAheadLate(l)    == IF Remaining(l) < setup.lead /\ ~Waiting(l) THEN Requested(l) ELSE l
AskAheadExactly(l) == IF Remaining(l) = setup.lead /\ ~Waiting(l) THEN Requested(l) ELSE l
AskAheadAlways(l)  == IF Remaining(l) <= setup.lead THEN Requested(l) ELSE l

(* The next request goes out when the lead is left of the command in hand. *)
AskAhead(l) == IF Remaining(l) <= setup.lead /\ ~Waiting(l) THEN Requested(l) ELSE l

Scheduled(l) ==
  CASE ~l.have /\ Waiting(l)  -> Accepted(l)
    [] ~l.have /\ ~Waiting(l) -> Requested(l)
    [] l.have /\ Paced ->
         LET a == AskAhead(l) IN IF a.steps = 0 THEN HoldOver(a) ELSE a
    [] l.have /\ ~Paced -> l

----------------------------------------------------------------------------
(* The rest of the tick.                                                   *)

(* A bug of that kind: the plan covers every tick since.                   *)
CoveredForever(l) == IF l.planSlots = 0 THEN 0 ELSE l.ticks - l.acceptedAt

(* The ticks since the acceptance of a plan that are not its age.          *)
Covered(l) == IF l.planSlots = 0 THEN 0
              ELSE Min({l.ticks - l.acceptedAt, l.planSlots * setup.hold})

TooOld(l) == (now - l.cmd.at) > StaleTicks + Covered(l)

(* Encoding the reference in hand on every tick (every_control_tick).      *)
Unencodable(l) == setup.kind = "oracle" /\ Offset(l, l.active) > setup.spare

(* The tick without a command: wait, and damp when it lasts too long.      *)
Absent(l) ==
  LET a == [l EXCEPT !.absent = @ + 1]
  IN  IF a.absent > AbsentTicks THEN [loop |-> Damped(a, "absent"), sent |-> "damp"]
                                ELSE [loop |-> a, sent |-> "wait"]

(* A bug of that kind: the hold is counted down past its end.              *)
DrivenPastZero(l, later) ==
  IF Unencodable(l) \/ TooOld(l) \/ later # "none"
  THEN [loop |-> Damped(l, "stale"), sent |-> "damp"]
  ELSE [loop |-> [l EXCEPT !.steps = IF Paced THEN @ - 1 ELSE @], sent |-> "target"]

(* The tick with one: encode, check the age, step the tracker, write.      *)
Driven(l, later) ==
  LET why == CASE Unencodable(l)                                         -> "contract"
               [] ~Unencodable(l) /\ later = "encoder"                   -> "encoder"
               [] ~Unencodable(l) /\ later # "encoder" /\ TooOld(l)      -> "stale"
               [] ~Unencodable(l) /\ later # "encoder" /\ ~TooOld(l)     -> later
  IN  IF why # "none" THEN [loop |-> Damped(l, why), sent |-> "damp"]
      ELSE [loop |-> [l EXCEPT !.steps = IF Paced /\ @ > 0 THEN @ - 1 ELSE @],
            sent |-> "target"]

(* A bug of that kind: the schedule goes on after a damp.                  *)
OneTickUnlatched(l, before, later) ==
  LET s == Scheduled(Read(l))
  IN  CASE before # "none" -> [loop |-> Damped(l, before), sent |-> "damp"]
        [] before = "none" /\ ~s.have -> Absent(s)
        [] before = "none" /\ s.have  -> Driven(s, later)

(* one_tick, after the reference clock moved.                              *)
OneTick(l, before, later) ==
  IF before # "none" THEN [loop |-> Damped(l, before), sent |-> "damp"]
  ELSE LET r == Read(l)
           s == Scheduled(r)
       IN  CASE r.mode = "damp" -> [loop |-> r, sent |-> "damp"]
             [] r.mode # "damp" /\ ~s.have -> Absent(s)
             [] r.mode # "damp" /\ s.have  -> Driven(s, later)

ClockMoved(l) == [l EXCEPT !.ref = IF l.ticks > 0 /\ ~pinned THEN @ + 1 ELSE @]

(* A new request replaces the one in the mailbox.                          *)
Post(l) == asked' = IF l.asks > loop.asks THEN l.out ELSE asked

(* A prompt planner answers before the lead is over.                       *)
InTime == setup.prompt /\ loop.out.seq # 0 /\ answer.ask.seq # loop.out.seq
            => loop.ticks - loop.out.tick < setup.lead

(* One period of the thread in run().  Only an oracle encodes at each.     *)
Tick(before, later) ==
  /\ phase = "up" /\ now < MaxTicks /\ InTime
  /\ later = "encoder" => setup.kind = "oracle"
  /\ LET t == OneTick(ClockMoved(loop), before, later)
     IN  /\ loop' = [t.loop EXCEPT !.ticks = @ + 1]
         /\ sent' = t.sent
         /\ Post(t.loop)
  /\ now' = now + 1
  /\ UNCHANGED <<setup, phase, pinned, run, answer, planner>>

----------------------------------------------------------------------------
(* Starting, stopping, joining.                                            *)

(* start()'s resets.  What it keeps: the sequence counters.                *)
Reset(l) ==
  [FreshLoop EXCEPT !.mode = "wait", !.last = l.last, !.consumed = l.last,
                    !.asks = l.asks]

(* start(): the oracle publishes its first request and waits for the       *)
(* answer before the thread exists.  The lifecycle pins the reference      *)
(* before it starts an oracle run.                                         *)
Start(pin) ==
  /\ phase = "idle" /\ run < MaxRuns /\ now < MaxTicks
  /\ pin => setup.kind = "oracle"
  /\ run' = run + 1 /\ pinned' = pin /\ sent' = "none"
  /\ LET l == Reset(loop)
         first == [seq |-> l.asks + 1, run |-> run + 1, tick |-> 0, ref |-> 0]
     IN  IF setup.kind = "oracle"
         THEN /\ loop' = [l EXCEPT !.asks = @ + 1, !.out = first]
              /\ asked' = first /\ phase' = "starting"
         ELSE loop' = l /\ phase' = "up" /\ UNCHANGED asked
  /\ UNCHANGED <<setup, now, answer, planner>>

(* The handshake reads until its request is answered...                    *)
Handshake ==
  /\ phase = "starting" /\ answer.ask.seq > loop.last
  /\ LET l == Read(loop)
     IN  /\ loop' = l
         /\ phase' = IF l.out.seq # 0 THEN "starting"
                     ELSE IF l.fault = "none" THEN "up" ELSE "idle"
  /\ UNCHANGED <<setup, pinned, sent, now, run, asked, answer, planner>>

(* ...goes on reading when that fails...                                   *)
HandshakeFails ==
  /\ phase = "starting"
  /\ loop' = Damped(loop, "mailbox")
  /\ UNCHANGED <<setup, phase, pinned, sent, now, run, asked, answer, planner>>

(* ...or for a second, and start() throws.                                 *)
HandshakeTimeout ==
  /\ phase = "starting" /\ ~setup.prompt
  /\ phase' = "idle"
  /\ UNCHANGED <<setup, loop, pinned, sent, now, run, asked, answer, planner>>

(* set_reference_paused(false): the motion begins.                         *)
Unpin ==
  /\ phase = "up" /\ pinned
  /\ pinned' = FALSE
  /\ UNCHANGED <<setup, phase, loop, sent, now, run, asked, answer, planner>>

(* The loop is left: stop() was called, or max_ticks are done.             *)
ThreadEnds ==
  /\ phase = "up"
  /\ phase' = "over"
  /\ loop' = [loop EXCEPT !.mode = IF @ = "damp" THEN @ ELSE "stopped"]
  /\ UNCHANGED <<setup, pinned, sent, now, run, asked, answer, planner>>

(* wait() joins the thread.                                                *)
Wait ==
  /\ phase = "over" /\ phase' = "idle"
  /\ UNCHANGED <<setup, loop, pinned, sent, now, run, asked, answer, planner>>

----------------------------------------------------------------------------
(* The planner process.                                                    *)

(* The worker's snapshot returns a request newer than the last one.        *)
Take ==
  /\ planner.up /\ planner.thinking.seq = 0 /\ asked.seq > planner.taken
  /\ planner' = [planner EXCEPT !.taken = asked.seq, !.thinking = asked]
  /\ UNCHANGED <<setup, phase, loop, pinned, sent, now, run, asked, answer>>

(* It answers with the request's sequence.  A plan may be shorter than the *)
(* runtime's plan_slots.                                                   *)
Reply(slots, tag) ==
  /\ planner.up /\ planner.thinking.seq # 0
  /\ setup.prompt => tag = "own" /\ slots = setup.slots
  /\ answer' = [ask |-> planner.thinking, at |-> now, slots |-> slots, tag |-> tag]
  /\ planner' = [planner EXCEPT !.thinking = NoAsk]
  /\ UNCHANGED <<setup, phase, loop, pinned, sent, now, run, asked>>

(* An exception in the worker ends it without an answer.                   *)
PlannerDies ==
  /\ planner.up /\ ~setup.prompt
  /\ planner' = [planner EXCEPT !.up = FALSE, !.thinking = NoAsk]
  /\ UNCHANGED <<setup, phase, loop, pinned, sent, now, run, asked, answer>>

(* A new worker starts with no request taken and reads the mailbox.        *)
PlannerRestarts ==
  /\ setup.asks /\ ~planner.up
  /\ planner' = [up |-> TRUE, taken |-> 0, thinking |-> NoAsk]
  /\ UNCHANGED <<setup, phase, loop, pinned, sent, now, run, asked, answer>>

(* A publisher that pushes on its own account.                             *)
Push(slots, tag) ==
  /\ ~setup.asks /\ answer.ask.seq < MaxPushes
  /\ answer' = [ask |-> [NoAsk EXCEPT !.seq = answer.ask.seq + 1, !.run = run],
                at |-> now, slots |-> slots, tag |-> tag]
  /\ UNCHANGED <<setup, phase, loop, pinned, sent, now, run, asked, planner>>

Next ==
  \/ \E before \in Before, later \in Later : Tick(before, later)
  \/ \E pin \in BOOLEAN : Start(pin)
  \/ Handshake \/ HandshakeFails \/ HandshakeTimeout \/ Unpin \/ ThreadEnds \/ Wait
  \/ Take \/ PlannerDies \/ PlannerRestarts
  \/ \E slots \in 0..setup.slots, tag \in Tags :
       /\ tag # "own" => slots = IF tag = "direct" THEN 1 ELSE 0
       /\ Reply(slots, tag) \/ Push(slots, tag)

Spec == Init /\ [][Next]_vars

----------------------------------------------------------------------------
(* Properties.                                                             *)

TypeOK ==
  /\ setup \in Setups /\ phase \in Phases /\ loop \in Loop
  /\ pinned \in BOOLEAN /\ sent \in Sent /\ now \in Nat /\ run \in Nat
  /\ asked \in Ask /\ answer \in Answer
  /\ planner \in [up : BOOLEAN, taken : Nat, thinking : Ask]

(* A command in use answers a request of this episode: no reply that was   *)
(* in flight when an earlier one stopped ever drives                       *)
(* (read_response, start).                                                 *)
CommandOfThisRun ==
  setup.asks /\ phase \in {"starting", "up"} =>
    /\ loop.have => loop.cmd.ask.run = run
    /\ Waiting(loop) => loop.pending.ask.run = run

(* Inside its horizon a plan is executed at the tick it was predicted for: *)
(* slot and step say how long ago it was asked for (accept_latent_plan,    *)
(* advance_plan_slot).                                                     *)
PlanIsAligned ==
  LET age == loop.ticks - loop.cmd.ask.tick
  IN  setup.asks /\ phase = "up" /\ loop.planSlots > 0 /\ loop.mode = "control"
        /\ age <= loop.planSlots * setup.hold =>
      loop.cursor * setup.hold + setup.hold - loop.steps = age

(* A planner that answers within the lead is always in time: no hold is    *)
(* repeated, no plan starts late, no reference block runs out.  The reply  *)
(* must leave room: a plan's ticks exceed twice the lead, a block spares   *)
(* the frames of a lead and a hold.                                        *)
RoomToAsk ==
  /\ setup.kind = "plan" => setup.slots * setup.hold > 2 * setup.lead
  /\ setup.kind = "oracle" => setup.spare + 1 >= setup.lead + setup.hold
PromptPlannerServes ==
  setup.prompt /\ RoomToAsk =>
    /\ ~loop.missed /\ ~loop.late
    /\ setup.kind = "oracle" => loop.fault # "contract"

(* A runtime whose command is running out has asked for the next one or    *)
(* holds it: it never starves by not asking (the `<=` of one_tick).        *)
RunningOutAsks ==
  setup.asks /\ phase = "up" /\ loop.mode = "control" /\ loop.have
    /\ loop.ticks > loop.acceptedAt + 1 /\ Remaining(loop) < setup.lead =>
  loop.out.seq # 0 \/ Waiting(loop)

(* A reply that was asked for is never overwritten before it was used.     *)
NothingOverrun == setup.asks => ~loop.overran

(* With the planner silent the robot is not driven for longer than the     *)
(* stale limit past the ticks a plan covers (one_tick, command_age_ms).    *)
SilenceStops ==
  phase = "up" /\ sent = "target" /\ loop.mode = "control" =>
    now - loop.cmd.at <= StaleTicks + loop.planSlots * setup.hold + 1

(* The encoder sees the reference block that contains the current frame,   *)
(* never one that begins in the future, and frame 0 while it is pinned.    *)
PlaysTheReference ==
  setup.kind = "oracle" /\ phase = "up" /\ sent = "target" =>
    /\ loop.active <= loop.ref /\ loop.ref <= loop.active + setup.spare
    /\ pinned => loop.active = 0

(* Damp is final: no tick of the same episode leaves it, whatever replies  *)
(* come, but with a direct command.                                        *)
DampIsFinal ==
  [][loop.mode = "damp" /\ run' = run =>
       loop'.mode = "damp" \/ answer.tag = "direct"]_vars

(* read_response on a reply to a request of an earlier episode: "It is     *)
(* stale, not a broken contract."                                          *)
StaleReplyHarmless ==
  [][setup.asks /\ phase = "up" /\ loop'.last # loop.last /\ answer.ask.run # run =>
       loop'.fault = loop.fault]_vars

(* test_native_loop_latches_damp_when_command_is_absent and the like: damp *)
(* is final for pushed commands too.                                       *)
DampLatches ==
  [][loop.mode = "damp" /\ run' = run => loop'.mode = "damp"]_vars

----------------------------------------------------------------------------
(* What makes those inductive.  The predicates of a loop state l are also  *)
(* true between two calls of one_tick.                                     *)

(* The command schedule is well formed; only the oracle's handshake reads  *)
(* before the thread exists.                                               *)
Shape(l) ==
  /\ l.planSlots > 0 => l.have /\ setup.kind = "plan" /\ l.cursor < l.planSlots
  /\ l.planSlots <= setup.slots /\ l.steps <= setup.hold
  /\ l.mode = "damp" => l.fault # "none"
  /\ setup.kind = "direct" => l.pending = NoAnswer

HandshakeInv ==
  phase = "starting" => setup.kind = "oracle" /\ ~loop.have /\ sent = "none"

(* One request at most is out, the newest of this episode; what waits and  *)
(* what drives answered one of this episode.                               *)
Own(l) ==
  /\ l.pending.ask.seq <= l.last /\ l.consumed <= l.last /\ l.last <= l.asks
  /\ l.out.seq # 0 => /\ l.out.seq = l.asks /\ (l.mode # "damp" => l.last < l.asks)
                      /\ l.out.run = run /\ l.out.tick <= l.ticks
  /\ Waiting(l) => /\ l.out.seq = 0
                   /\ l.pending.ask.run = run /\ l.pending.ask.tick <= l.ticks
  /\ l.have => l.cmd.ask.run = run /\ l.cmd.ask.tick <= l.ticks

(* A sequence names one request, in the mailboxes and at the planner.      *)
MailInv ==
  /\ asked.seq = loop.asks /\ (loop.out.seq # 0 => loop.out = asked)
  /\ \A a \in {NoAsk, planner.thinking, answer.ask} :
       a.seq <= asked.seq /\ (a.seq = asked.seq => a = asked)

(* PlanIsAligned, d ticks on.                                              *)
Aligned(l, d) ==
  LET age == l.ticks - l.cmd.ask.tick
  IN  l.planSlots > 0 /\ l.mode # "damp" /\ age + d <= l.planSlots * setup.hold
        => l.cursor * setup.hold + setup.hold - l.steps = age

(* SilenceStops, as long as the mailbox drives.                            *)
SilenceInv ==
  sent = "target" => now - loop.cmd.at <= StaleTicks + loop.planSlots * setup.hold + 1

(* The request goes out when exactly the lead is left, and what is left    *)
(* shrinks as the request ages; d is what one more tick will take.         *)
Punctual(l, d) ==
  /\ ~l.missed /\ ~l.late
  /\ l.mode # "damp" =>
       /\ l.have /\ l.out.seq = 0 /\ ~Waiting(l) => Remaining(l) >= setup.lead + d
       /\ l.have /\ l.out.seq # 0 => Remaining(l) + l.ticks - l.out.tick = setup.lead
       /\ l.have /\ Waiting(l) =>
            Remaining(l) + l.ticks - l.pending.ask.tick = setup.lead
       /\ ~l.have /\ setup.kind # "oracle" =>
            /\ ~Waiting(l)
            /\ l.out.seq # 0 => l.ticks + d - l.out.tick <= setup.lead

(* A prompt planner's replies are whole.                                   *)
WholeInv ==
  \A a \in {answer, loop.pending} : a.ask.seq > 0 => a.tag = "own" /\ a.slots = setup.slots

(* The frame a request names is reached, and by less than the lead passed, *)
(* when its block is taken; d is the clock's move still to come.           *)
Due(l, first, d) ==
  first <= l.ref + d + l.steps /\ l.ref + d + l.steps <= first + setup.lead

(* The block in use holds the current frame and the rest of the hold.      *)
Fed(l, d) ==
  /\ l.fault # "contract"
  /\ l.out.seq = 0 => l.last = l.asks
  /\ l.mode # "damp" /\ ~l.have =>
       /\ l.ticks = 0 /\ l.ref = 0
       /\ l.out.seq # 0 => l.out.ref = 0
       /\ Waiting(l) => l.pending.ask.ref = 0
  /\ l.mode # "damp" /\ l.have =>
       /\ l.ticks > 0 \/ d = 0
       /\ l.active <= l.ref
       /\ l.ref + d + l.steps <= l.active + setup.lead + setup.hold
       /\ l.out.seq # 0 => Due(l, l.out.ref, d)
       /\ Waiting(l) => Due(l, l.pending.ask.ref, d)
       /\ pinned => /\ l.ref = 0 /\ l.active = 0
                    /\ l.out.seq # 0 => l.out.ref = 0
                    /\ Waiting(l) => l.pending.ask.ref = 0

FedInv ==
  /\ Fed(loop, 1)
  /\ phase = "up" /\ loop.mode # "damp" /\ ~loop.have => Waiting(loop)

IndInv ==
  /\ Shape(loop) /\ HandshakeInv /\ SilenceInv
  /\ setup.asks => MailInv /\ Own(loop) /\ Aligned(loop, 0)
  /\ setup.prompt => WholeInv
  /\ setup.prompt /\ RoomToAsk =>
       Punctual(loop, 0) /\ (setup.kind = "oracle" => FedInv)
=============================================================================
