------------------------ MODULE PolicyRuntime_proofs ------------------------
(***************************************************************************)
(* The control thread and its planner, for any configuration the           *)
(* constructor accepts and any limits: only commands of this episode       *)
(* drive, a plan stays aligned, silence stops the robot, and a planner     *)
(* that is prompt is never late.                                           *)
(***************************************************************************)
EXTENDS PolicyRuntime, TLAPS

(* The smaller of two.                                                     *)
LEMMA MinOfTwo ==
  ASSUME NEW a \in Int, NEW b \in Int
  PROVE  Min({a, b}) \in Int /\ Min({a, b}) <= a /\ Min({a, b}) <= b
<1>1. \E x \in {a, b} : \A y \in {a, b} : x <= y
  OBVIOUS
<1> QED BY <1>1 DEF Min

(* What the quotient and the remainder are.                                *)
LEMMA Division ==
  ASSUME NEW a \in Nat, NEW b \in Nat, b > 0
  PROVE  /\ a \div b \in Nat /\ a % b \in 0..b - 1
         /\ a = (a \div b) * b + (a % b)
OBVIOUS

LEMMA OneMore ==
  ASSUME NEW a \in Int, NEW b \in Int
  PROVE  (a + 1) * b = a * b + b
OBVIOUS

(* The configuration is one the constructor accepts.                       *)
LEMMA Configured ==
  TypeOK => setup \in Setup /\ SetupOK(setup)
BY SetupAssumption DEF TypeOK

LEMMA Limits ==
  /\ StaleTicks \in Nat /\ AbsentTicks \in Nat /\ MaxTicks \in Nat
  /\ MaxRuns \in Nat /\ MaxPushes \in Nat
BY BoundAssumption

LEMMA NothingTyped == NoAsk \in Ask /\ NoAnswer \in Answer /\ FreshLoop \in Loop
BY DEF NoAsk, Ask, NoAnswer, Answer, FreshLoop, Loop, Modes, Faults, Tags

----------------------------------------------------------------------------
(* What reading the response mailbox does.                                 *)
Noted(l) == [l EXCEPT !.last = answer.ask.seq]
Held(l)  == [l EXCEPT !.last = answer.ask.seq, !.pending = answer, !.out = NoAsk,
                      !.overran = @ \/ Waiting(l)]

(* A direct command that a setup takes.                                    *)
Direct == answer.tag = "direct" /\ setup.kind # "oracle"

(* The five outcomes of read_response.                                     *)
LEMMA ReadCases ==
  ASSUME TypeOK, NEW l \in Loop
  PROVE  \/ answer.ask.seq <= l.last /\ Read(l) = l
         \/ /\ answer.ask.seq > l.last /\ setup.asks /\ answer.ask.seq < l.out.seq
            /\ Read(l) = Noted(l)
         \/ /\ answer.ask.seq > l.last
            /\ setup.asks => \/ answer.ask.seq > l.out.seq
                             \/ answer.ask.seq = l.out.seq /\ answer.tag # "own"
            /\ Read(l) = Damped(Noted(l), "contract")
         \/ /\ answer.ask.seq > l.last /\ Direct
            /\ setup.asks => answer.ask.seq = l.out.seq
            /\ Read(l) = DirectTaken(Noted(l))
         \/ /\ answer.ask.seq > l.last /\ setup.kind # "direct" /\ answer.tag = "own"
            /\ setup.asks => answer.ask.seq = l.out.seq
            /\ Read(l) = Held(l)
<1>1. setup \in Setup /\ SetupOK(setup) /\ answer \in Answer
  BY Configured DEF TypeOK
<1>2. l.last \in Nat /\ l.out.seq \in Nat /\ answer.ask.seq \in Nat
  BY <1>1 DEF Loop, Ask, Answer
<1> DEFINE seq == answer.ask.seq
<1>3. setup.kind = "direct" => ~setup.asks
  BY <1>1 DEF SetupOK
<1>4. CASE seq <= l.last
  BY <1>2, <1>4 DEF Read
<1>5. CASE seq > l.last /\ setup.asks /\ seq < l.out.seq
  BY <1>2, <1>5 DEF Read, Noted
<1>6. CASE seq > l.last /\ setup.asks /\ seq > l.out.seq
  BY <1>2, <1>6 DEF Read, Noted
<1>7. CASE seq > l.last /\ (setup.asks => seq = l.out.seq)
  <2> DEFINE got == [l EXCEPT !.last = seq]
             own == answer.tag = "own" /\ setup.kind # "direct"
             held == [got EXCEPT !.pending = answer, !.out = NoAsk,
                                 !.overran = @ \/ Waiting(l)]
  <2>1. Read(l) = CASE own               -> held
                    [] Direct            -> DirectTaken(got)
                    [] ~own /\ ~Direct   -> Damped(got, "contract")
    BY <1>2, <1>7 DEF Read, Direct
  <2>2. held = Held(l) /\ got = Noted(l)
    BY DEF Held, Noted, Loop
  <2>3. own => ~Direct
    BY DEF Direct
  <2>4. CASE own
    BY <1>7, <2>1, <2>2, <2>3, <2>4
  <2>5. CASE Direct
    BY <1>7, <2>1, <2>2, <2>3, <2>5
  <2>6. CASE ~own /\ ~Direct
    <3>1. Read(l) = Damped(Noted(l), "contract")
      BY <2>1, <2>2, <2>6
    <3>2. setup.asks => answer.tag # "own"
      BY <1>3, <2>6
    <3> QED BY <1>7, <3>1, <3>2
  <2> QED BY <2>4, <2>5, <2>6
<1> QED BY <1>2, <1>4, <1>5, <1>6, <1>7

----------------------------------------------------------------------------
(* Types: every function of the loop's state returns such a state.         *)
LEMMA DampedTyped ==
  ASSUME NEW l \in Loop, NEW why \in Faults
  PROVE  Damped(l, why) \in Loop
BY DEF Damped, Loop, Modes

LEMMA ReadTyped ==
  ASSUME TypeOK, NEW l \in Loop
  PROVE  Read(l) \in Loop
<1>1. setup \in Setup /\ answer \in Answer /\ answer.ask \in Ask
  BY Configured DEF TypeOK, Answer
<1>2. Noted(l) \in Loop
  BY <1>1 DEF Noted, Loop, Ask
<1>3. Held(l) \in Loop
  BY <1>1, NothingTyped DEF Held, Loop, Ask, Waiting
<1>4. DirectTaken(Noted(l)) \in Loop
  <2>1. answer.ask.seq \in Nat /\ setup.hold \in Nat /\ NoAsk \in Ask
    BY <1>1, NothingTyped DEF Ask, Setup
  <2> QED BY <1>1, <1>2, <2>1 DEF DirectTaken, Loop, Modes
<1>5. Damped(Noted(l), "contract") \in Loop
  BY <1>2, DampedTyped DEF Faults
<1> QED BY <1>2, <1>3, <1>4, <1>5, ReadCases

LEMMA RequestedTyped ==
  ASSUME TypeOK, NEW l \in Loop
  PROVE  Requested(l) \in Loop
<1> DEFINE due == IF l.have /\ ~pinned THEN l.ref + l.steps ELSE l.ref
           ask == [seq |-> l.asks + 1, run |-> run, tick |-> l.ticks, ref |-> due]
<1>1. due \in Nat
  BY DEF Loop
<1>2. ask \in Ask /\ l.asks + 1 \in Nat
  BY <1>1 DEF TypeOK, Loop, Ask
<1> HIDE DEF ask
<1>3. [l EXCEPT !.asks = @ + 1, !.out = ask] \in Loop
  BY <1>2 DEF Loop
<1> USE DEF ask
<1> QED BY <1>3 DEF Requested

LEMMA TakenTyped ==
  ASSUME NEW l \in Loop
  PROVE  Taken(l) \in Loop
<1>1. l.pending \in Answer /\ NoAnswer \in Answer
  BY NothingTyped DEF Loop
<1>2. l.pending.ask.seq \in Nat
  BY <1>1 DEF Answer, Ask
<1> QED BY <1>1, <1>2 DEF Taken, Loop, Modes

(* The ticks the planner thought, when what waits was asked for before.    *)
Timed(l) == setup.asks /\ Waiting(l) => l.pending.ask.tick <= l.ticks

LEMMA ElapsedTyped ==
  ASSUME TypeOK, NEW l \in Loop, Timed(l), Waiting(l)
  PROVE  Elapsed(l) \in Nat
BY Configured DEF Timed, Elapsed, Loop, Answer, Ask, Setup

LEMMA AcceptedTyped ==
  ASSUME TypeOK, NEW l \in Loop, Timed(l), Waiting(l), Paced
  PROVE  Accepted(l) \in Loop
<1>1. setup \in Setup /\ SetupOK(setup)
  BY Configured
<1>2. Elapsed(l) \in Nat
  BY ElapsedTyped
<1>3. Taken(l) \in Loop /\ Damped(l, "contract") \in Loop
  BY TakenTyped, DampedTyped DEF Faults
<1>4. l.pending.slots \in Nat /\ l.pending.ask.ref \in Nat
  BY DEF Loop, Answer, Ask
<1>5. CASE setup.kind = "plan"
  <2> DEFINE slots == l.pending.slots
             q == Elapsed(l) \div setup.hold
             late == q >= slots
             m == setup.hold - (Elapsed(l) % setup.hold)
  <2>1. q \in Nat /\ m \in Nat /\ setup.hold \in Nat
    BY <1>1, <1>2, Division DEF Setup, SetupOK
  <2>2. slots \in 1..setup.slots => slots - 1 \in Nat /\ slots \in Nat
    BY <1>1, <1>4 DEF Setup
  <2> HIDE DEF q, m
  <2>3. slots \in 1..setup.slots =>
        [Taken(l) EXCEPT !.planSlots = slots, !.acceptedAt = l.ticks,
                         !.late = @ \/ late,
                         !.cursor = IF late THEN slots - 1 ELSE q,
                         !.steps = IF late THEN setup.hold ELSE m] \in Loop
    <3> DEFINE cursor == IF late THEN slots - 1 ELSE q
               steps  == IF late THEN setup.hold ELSE m
    <3> SUFFICES ASSUME slots \in 1..setup.slots
                 PROVE  [Taken(l) EXCEPT !.planSlots = slots, !.acceptedAt = l.ticks,
                           !.late = @ \/ late, !.cursor = cursor, !.steps = steps] \in Loop
      OBVIOUS
    <3>1. cursor \in Nat /\ steps \in Nat /\ slots \in Nat /\ l.ticks \in Nat
      BY <2>1, <2>2 DEF Loop
    <3> HIDE DEF cursor, steps, slots
    <3> QED BY <1>3, <3>1 DEF Loop
  <2> USE DEF q, m
  <2> QED BY <1>3, <1>5, <2>3 DEF Accepted, PlanAccepted
<1>6. CASE setup.kind = "chunk"
  BY <1>1, <1>3, <1>6 DEF Accepted, ChunkAccepted, Loop, Setup
<1>7. CASE setup.kind = "oracle"
  BY <1>1, <1>3, <1>4, <1>7 DEF Accepted, ReferenceAccepted, Loop, Setup
<1> QED BY <1>1, <1>5, <1>6, <1>7 DEF Paced, Setup, Kinds

(* The three outcomes of a hold that is over.                              *)
NextSlot(l) == [l EXCEPT !.cursor = @ + 1, !.steps = setup.hold,
                         !.absent = 0, !.mode = "control"]
Again(l)    == [l EXCEPT !.missed = TRUE, !.steps = setup.hold]

LEMMA HoldOverCases ==
  ASSUME NEW l \in Loop
  PROVE  \/ l.planSlots # 0 /\ l.cursor + 1 < l.planSlots /\ HoldOver(l) = NextSlot(l)
         \/ l.cursor + 1 >= l.planSlots /\ Waiting(l) /\ HoldOver(l) = Accepted(l)
         \/ l.cursor + 1 >= l.planSlots /\ ~Waiting(l) /\ HoldOver(l) = Again(l)
<1>1. l.planSlots \in Nat /\ l.cursor \in Nat
  BY DEF Loop
<1>2. CASE l.planSlots # 0 /\ l.cursor + 1 < l.planSlots
  BY <1>1, <1>2 DEF HoldOver, NextSlot
<1>3. CASE l.cursor + 1 >= l.planSlots /\ Waiting(l)
  BY <1>1, <1>3 DEF HoldOver
<1>4. CASE l.cursor + 1 >= l.planSlots /\ ~Waiting(l)
  BY <1>1, <1>4 DEF HoldOver, Again
<1> QED BY <1>1, <1>2, <1>3, <1>4

LEMMA HoldOverTyped ==
  ASSUME TypeOK, NEW l \in Loop, Timed(l), Paced
  PROVE  HoldOver(l) \in Loop
<1>1. setup \in Setup /\ setup.hold \in Nat
  BY Configured DEF Setup
<1>2. NextSlot(l) \in Loop
  <2>1. l.cursor + 1 \in Nat /\ "control" \in Modes /\ 0 \in Nat
    BY DEF Loop, Modes
  <2> QED BY <1>1, <2>1 DEF NextSlot, Loop
<1>3. Again(l) \in Loop
  BY <1>1 DEF Again, Loop, Setup
<1> QED BY <1>2, <1>3, AcceptedTyped, HoldOverCases

LEMMA AskAheadTyped ==
  ASSUME TypeOK, NEW l \in Loop
  PROVE  AskAhead(l) \in Loop /\ (Timed(l) => Timed(AskAhead(l)))
<1>1. Requested(l).pending = l.pending /\ Requested(l).consumed = l.consumed
        /\ Requested(l).ticks = l.ticks
  BY DEF Requested, Loop
<1> QED BY <1>1, RequestedTyped DEF AskAhead, Timed, Waiting

(* Nothing waits for a runtime whose commands are pushed and drive at once. *)
Unpaced(l) == ~Paced => ~Waiting(l)

LEMMA ScheduledCases ==
  ASSUME TypeOK, NEW l \in Loop, Unpaced(l)
  PROVE  \/ ~l.have /\ Waiting(l) /\ Paced /\ Scheduled(l) = Accepted(l)
         \/ ~l.have /\ ~Waiting(l) /\ Scheduled(l) = Requested(l)
         \/ /\ l.have /\ Paced /\ AskAhead(l).steps = 0
            /\ Scheduled(l) = HoldOver(AskAhead(l))
         \/ /\ l.have /\ Paced /\ AskAhead(l).steps # 0
            /\ Scheduled(l) = AskAhead(l)
         \/ l.have /\ ~Paced /\ Scheduled(l) = l
<1>1. l.have \in BOOLEAN
  BY DEF Loop
<1>2. CASE ~l.have /\ Waiting(l)
  BY <1>2 DEF Scheduled, Unpaced
<1>3. CASE ~l.have /\ ~Waiting(l)
  BY <1>3 DEF Scheduled
<1>4. CASE l.have /\ Paced
  BY <1>4 DEF Scheduled
<1>5. CASE l.have /\ ~Paced
  BY <1>5 DEF Scheduled
<1> QED BY <1>2, <1>3, <1>4, <1>5

LEMMA ScheduledTyped ==
  ASSUME TypeOK, NEW l \in Loop, Timed(l), Unpaced(l)
  PROVE  Scheduled(l) \in Loop
BY ScheduledCases, AcceptedTyped, RequestedTyped, HoldOverTyped, AskAheadTyped

(* The tick in two: what is read and scheduled, and what is done with it.  *)
Whys == {"contract", "encoder", "stale", "tracker"}

LEMMA DrivenCases ==
  ASSUME TypeOK, NEW l \in Loop, NEW later \in Later
  PROVE  \/ \E why \in Whys :
              /\ Driven(l, later) = [loop |-> Damped(l, why), sent |-> "damp"]
              /\ why = "contract" => Unencodable(l)
         \/ /\ ~Unencodable(l) /\ ~TooOld(l)
            /\ Driven(l, later) =
                 [loop |-> [l EXCEPT !.steps = IF Paced /\ @ > 0 THEN @ - 1 ELSE @],
                  sent |-> "target"]
<1>1. CASE Unencodable(l)
  BY <1>1 DEF Driven, Whys
<1>2. CASE ~Unencodable(l) /\ later = "encoder"
  BY <1>2 DEF Driven, Whys
<1>3. CASE ~Unencodable(l) /\ later # "encoder" /\ TooOld(l)
  BY <1>3 DEF Driven, Whys
<1>4. CASE ~Unencodable(l) /\ ~TooOld(l) /\ later = "tracker"
  BY <1>4 DEF Driven, Whys
<1>5. CASE ~Unencodable(l) /\ ~TooOld(l) /\ later = "none"
  BY <1>5 DEF Driven
<1> QED BY <1>1, <1>2, <1>3, <1>4, <1>5 DEF Later

(* The outcomes of one_tick, of what was read and scheduled.               *)
Counted(l) == [l EXCEPT !.absent = @ + 1]
Stepped(l) == [l EXCEPT !.steps = IF Paced /\ @ > 0 THEN @ - 1 ELSE @]

LEMMA TickCases ==
  ASSUME TypeOK, NEW l \in Loop, NEW before \in Before, NEW later \in Later,
         NEW r, r = Read(l), NEW s, s = Scheduled(r), r \in Loop, s \in Loop,
         NEW t, t = OneTick(l, before, later)
  PROVE  \/ t.loop \in {Damped(l, "state"), Damped(l, "mailbox")} /\ t.sent = "damp"
         \/ r.mode = "damp" /\ t.loop = r /\ t.sent = "damp"
         \/ /\ r.mode # "damp" /\ ~s.have
            /\ t.loop \in {Damped(Counted(s), "absent"), Counted(s)} /\ t.sent # "target"
            /\ t.sent \in Sent
         \/ /\ r.mode # "damp" /\ s.have /\ t.sent = "damp"
            /\ \E why \in Whys :
                 t.loop = Damped(s, why) /\ (why = "contract" => Unencodable(s))
         \/ /\ r.mode # "damp" /\ s.have /\ t.sent = "target"
            /\ ~Unencodable(s) /\ ~TooOld(s) /\ t.loop = Stepped(s)
<1>1. CASE before # "none"
  BY <1>1 DEF OneTick, Before
<1>2. CASE before = "none" /\ r.mode = "damp"
  BY <1>2 DEF OneTick
<1>3. CASE before = "none" /\ r.mode # "damp" /\ ~s.have
  <2>1. t = Absent(s)
    BY <1>3 DEF OneTick
  <2> HIDE DEF Sent
  <2>2. t \in {[loop |-> Damped(Counted(s), "absent"), sent |-> "damp"],
               [loop |-> Counted(s), sent |-> "wait"]}
    BY <2>1 DEF Absent, Counted
  <2>3. t.loop \in {Damped(Counted(s), "absent"), Counted(s)} /\ t.sent \in {"damp", "wait"}
    BY <2>2
  <2> QED BY <1>3, <2>3 DEF Sent
<1>4. CASE before = "none" /\ r.mode # "damp" /\ s.have
  <2>1. t = Driven(s, later)
    BY <1>4 DEF OneTick
  <2>2. CASE ~Unencodable(s) /\ ~TooOld(s) /\ t = [loop |-> Stepped(s), sent |-> "target"]
    <3>1. t.loop = Stepped(s) /\ t.sent = "target"
      BY <2>2
    <3> QED BY <1>4, <2>2, <3>1
  <2>3. CASE \E why \in Whys :
               /\ t = [loop |-> Damped(s, why), sent |-> "damp"]
               /\ why = "contract" => Unencodable(s)
    <3>1. PICK why \in Whys :
               /\ t = [loop |-> Damped(s, why), sent |-> "damp"]
               /\ why = "contract" => Unencodable(s)
      BY <2>3
    <3>2. t.loop = Damped(s, why) /\ t.sent = "damp"
      BY <3>1
    <3> QED BY <1>4, <3>1, <3>2
  <2> QED BY <2>1, <2>2, <2>3, DrivenCases DEF Stepped
<1>5. s.have \in BOOLEAN
  BY DEF Loop
<1> QED BY <1>1, <1>2, <1>3, <1>4, <1>5

LEMMA TickTyped ==
  ASSUME TypeOK, NEW l \in Loop, NEW before \in Before, NEW later \in Later,
         Read(l) \in Loop, Scheduled(Read(l)) \in Loop
  PROVE  /\ OneTick(l, before, later).loop \in Loop
         /\ OneTick(l, before, later).sent \in Sent
<1> DEFINE r == Read(l)
           s == Scheduled(r)
           t == OneTick(l, before, later)
<1>1. Counted(s) \in Loop /\ Stepped(s) \in Loop
  BY DEF Counted, Stepped, Loop
<1>2. \A why \in Faults : /\ Damped(l, why) \in Loop /\ Damped(s, why) \in Loop
                          /\ Damped(Counted(s), why) \in Loop
  BY <1>1, DampedTyped
<1> QED BY <1>1, <1>2, TickCases DEF Faults, Sent, Whys

LEMMA ClockTyped ==
  ASSUME NEW l \in Loop
  PROVE  ClockMoved(l) \in Loop
BY DEF ClockMoved, Loop

----------------------------------------------------------------------------
(* The schedule's shape and the sequences, through one tick.               *)
Middle(l) == l \in Loop /\ Shape(l) /\ (setup.asks => Own(l))

(* The request mailbox holds the newest request.                           *)
Mailed(l) == setup.asks => asked.seq = l.asks /\ (l.out.seq # 0 => l.out = asked)

LEMMA MiddleIsTimed ==
  ASSUME TypeOK, NEW l, Middle(l)
  PROVE  Timed(l) /\ Unpaced(l)
<1>1. setup.kind = "direct" => ~Waiting(l)
  BY DEF Middle, Shape, Loop, Waiting, NoAnswer, NoAsk
<1> QED BY <1>1 DEF Middle, Own, Timed, Unpaced, Paced

LEMMA ClockMiddle ==
  ASSUME TypeOK, NEW l, Middle(l)
  PROVE  Middle(ClockMoved(l)) /\ (Mailed(l) => Mailed(ClockMoved(l)))
<1>1. l \in Loop
  BY DEF Middle
<1>2. Shape(ClockMoved(l))
  BY <1>1 DEF Middle, Shape, ClockMoved, Loop
<1>3. setup.asks => Own(ClockMoved(l))
  BY <1>1 DEF Middle, Own, ClockMoved, Loop, Waiting
<1>4. Mailed(l) => Mailed(ClockMoved(l))
  BY <1>1 DEF Mailed, ClockMoved, Loop
<1> QED BY <1>1, <1>2, <1>3, <1>4, ClockTyped DEF Middle

LEMMA DampedMiddle ==
  ASSUME TypeOK, NEW l, Middle(l), NEW why \in Faults, why # "none"
  PROVE  Middle(Damped(l, why)) /\ (Mailed(l) => Mailed(Damped(l, why)))
<1>1. l \in Loop
  BY DEF Middle
<1>2. Shape(Damped(l, why))
  BY <1>1 DEF Middle, Shape, Damped, Loop
<1>3. setup.asks => Own(Damped(l, why))
  BY <1>1 DEF Middle, Own, Damped, Loop, Waiting
<1>4. Mailed(l) => Mailed(Damped(l, why))
  BY <1>1 DEF Mailed, Damped, Loop
<1> QED BY <1>1, <1>2, <1>3, <1>4, DampedTyped DEF Middle

LEMMA ReadMiddle ==
  ASSUME TypeOK, setup.asks => MailInv, NEW l, Middle(l), Mailed(l)
  PROVE  Middle(Read(l)) /\ Mailed(Read(l))
<1>1. /\ l \in Loop /\ setup \in Setup /\ SetupOK(setup)
      /\ answer \in Answer /\ answer.ask \in Ask /\ answer.ask.seq \in Nat
      /\ l.last \in Nat /\ l.out.seq \in Nat /\ l.asks \in Nat /\ l.consumed \in Nat
  BY Configured DEF TypeOK, Middle, Answer, Loop, Ask
<1>2. setup.asks => answer.ask.seq <= l.asks
  BY DEF MailInv, Mailed
<1>3. CASE answer.ask.seq <= l.last /\ Read(l) = l
  BY <1>3
<1>4. CASE answer.ask.seq > l.last /\ setup.asks /\ answer.ask.seq < l.out.seq
             /\ Read(l) = Noted(l)
  <2>1. Shape(Noted(l))
    BY <1>1 DEF Middle, Shape, Noted, Loop
  <2>2. Own(Noted(l)) /\ Mailed(Noted(l))
    BY <1>1, <1>2, <1>4 DEF Middle, Own, Noted, Loop, Waiting, Mailed, Answer, Ask
  <2> QED BY <1>1, <1>4, <2>1, <2>2, ReadTyped DEF Middle
<1>5. CASE answer.ask.seq > l.last /\ Read(l) = Damped(Noted(l), "contract")
  <2>1. Shape(Read(l))
    BY <1>1, <1>5 DEF Middle, Shape, Noted, Loop, Damped
  <2>2. setup.asks => Own(Read(l))
    BY <1>1, <1>2, <1>5 DEF Middle, Own, Noted, Loop, Waiting, Damped, Answer, Ask
  <2>3. Mailed(Read(l))
    BY <1>1, <1>5 DEF Noted, Loop, Damped, Mailed
  <2> QED BY <1>1, <2>1, <2>2, <2>3, ReadTyped DEF Middle
<1>6. CASE answer.ask.seq > l.last /\ (setup.asks => answer.ask.seq = l.out.seq)
             /\ Read(l) = DirectTaken(Noted(l))
  <2> DEFINE m == DirectTaken(Noted(l))
  <2>1. /\ m.last = answer.ask.seq /\ m.consumed = answer.ask.seq /\ m.cmd = answer
        /\ m.out = NoAsk /\ m.asks = l.asks /\ m.ticks = l.ticks /\ m.pending = l.pending
        /\ m.planSlots = 0 /\ m.steps = setup.hold /\ m.mode = "control"
    BY <1>1 DEF Noted, Loop, DirectTaken
  <2> HIDE DEF m
  <2>2. Shape(m)
    BY <1>1, <2>1 DEF Middle, Shape, Setup
  <2>3. ASSUME setup.asks PROVE Own(m) /\ Mailed(m)
    <3>1. answer.ask = l.out /\ l.out.run = run /\ l.out.tick <= l.ticks /\ Own(l)
      BY <1>1, <1>6, <2>3 DEF MailInv, Mailed, Own, Middle
    <3>2. NoAsk.seq = 0 /\ l.pending.ask.seq \in Nat
      BY <1>1 DEF NoAsk, Loop, Answer, Ask
    <3>3. ~Waiting(m)
      BY <1>1, <1>6, <2>1, <3>1, <3>2 DEF Own, Waiting
    <3> QED BY <1>1, <1>2, <1>6, <2>1, <2>3, <3>1, <3>2, <3>3 DEF Own, Mailed
  <2> QED BY <1>1, <1>6, <2>2, <2>3, ReadTyped DEF Middle, Mailed, m
<1>7. CASE answer.ask.seq > l.last /\ setup.kind # "direct"
             /\ (setup.asks => answer.ask.seq = l.out.seq) /\ Read(l) = Held(l)
  <2>1. Shape(Held(l))
    BY <1>1, <1>7 DEF Middle, Shape, Held, Loop
  <2>2. ASSUME setup.asks PROVE Own(Held(l)) /\ Mailed(Held(l))
    <3>1. answer.ask = l.out /\ l.out.run = run /\ l.out.tick <= l.ticks /\ Own(l)
      BY <1>1, <1>7, <2>2 DEF MailInv, Mailed, Own, Middle
    <3>2. /\ Held(l).pending = answer /\ Held(l).last = answer.ask.seq
          /\ Held(l).out = NoAsk /\ Held(l).asks = l.asks /\ Held(l).ticks = l.ticks
          /\ Held(l).consumed = l.consumed /\ Held(l).have = l.have
          /\ Held(l).cmd = l.cmd
      BY <1>1 DEF Held, Loop
    <3>3. NoAsk.seq = 0
      BY DEF NoAsk
    <3> QED BY <1>1, <1>2, <1>7, <2>2, <3>1, <3>2, <3>3 DEF Own, Mailed, Waiting
  <2> QED BY <1>1, <1>7, <2>1, <2>2, ReadTyped DEF Middle, Mailed
<1> QED BY <1>1, <1>3, <1>4, <1>5, <1>6, <1>7, ReadCases

(* A schedule step asks for at most one request, the next.                 *)
AskedNext(l, m) ==
  \/ m.asks = l.asks /\ m.out = l.out
  \/ setup.asks /\ m.asks = l.asks + 1 /\ m.out.seq = m.asks

LEMMA RequestedMiddle ==
  ASSUME TypeOK, NEW l, Middle(l), ~Waiting(l)
  PROVE  Middle(Requested(l)) /\ AskedNext(l, Requested(l))
<1> DEFINE m == Requested(l)
<1>1. l \in Loop /\ m \in Loop
  BY RequestedTyped DEF Middle
<1>2. CASE ~setup.asks \/ l.out.seq # 0
  BY <1>2 DEF Requested, AskedNext
<1>3. CASE setup.asks /\ l.out.seq = 0
  <2>1. /\ m.asks = l.asks + 1 /\ m.out.seq = m.asks /\ m.out.run = run
        /\ m.out.tick = l.ticks
        /\ m.pending = l.pending /\ m.consumed = l.consumed /\ m.last = l.last
        /\ m.have = l.have /\ m.cmd = l.cmd /\ m.ticks = l.ticks
        /\ m.planSlots = l.planSlots /\ m.cursor = l.cursor /\ m.steps = l.steps
        /\ m.mode = l.mode /\ m.fault = l.fault
    BY <1>1, <1>3 DEF Requested, Loop
  <2>2. l.last \in Nat /\ l.asks \in Nat /\ l.ticks \in Nat
    BY <1>1 DEF Loop
  <2> HIDE DEF m
  <2>3. Own(m)
    BY <1>3, <2>1, <2>2 DEF Middle, Own, Waiting
  <2>4. Shape(m)
    BY <2>1 DEF Middle, Shape
  <2>5. Middle(m) /\ AskedNext(l, m)
    BY <1>1, <1>3, <2>1, <2>3, <2>4 DEF Middle, AskedNext
  <2> QED BY <2>5 DEF m
<1> QED BY <1>2, <1>3

(* What an accepted reply leaves of the loop, and what it makes of it.     *)
LEMMA AcceptedCases ==
  ASSUME TypeOK, NEW l, Middle(l), Waiting(l), Paced,
         NEW m, m = Accepted(l)
  PROVE  /\ m.asks = l.asks /\ m.out = l.out /\ m.last = l.last /\ m.ticks = l.ticks
         /\ m.ref = l.ref /\ m.missed = l.missed
         /\ \/ m = Damped(l, "contract")
            \/ /\ m.have /\ m.mode = "control" /\ m.fault = l.fault
               /\ m.cmd = l.pending /\ m.pending = NoAnswer
               /\ m.consumed = l.pending.ask.seq
               /\ \/ /\ setup.kind = "plan" /\ m.planSlots = l.pending.slots
                     /\ l.pending.slots \in 1..setup.slots
                     /\ m.active = l.active
                     /\ m.late = (l.late \/ Elapsed(l) \div setup.hold >= m.planSlots)
                     /\ IF Elapsed(l) \div setup.hold >= m.planSlots
                        THEN m.cursor = m.planSlots - 1 /\ m.steps = setup.hold
                        ELSE /\ m.cursor = Elapsed(l) \div setup.hold
                             /\ m.steps = setup.hold - (Elapsed(l) % setup.hold)
                  \/ /\ setup.kind = "chunk" /\ m.steps = setup.hold
                     /\ m.planSlots = l.planSlots /\ m.cursor = l.cursor
                     /\ m.late = l.late /\ m.active = l.active
                  \/ /\ setup.kind = "oracle" /\ m.steps = setup.hold
                     /\ Offset(l, l.pending.ask.ref) <= setup.spare
                     /\ m.planSlots = l.planSlots /\ m.cursor = l.cursor
                     /\ m.late = l.late /\ m.active = l.pending.ask.ref
<1>1. /\ l \in Loop /\ setup \in Setup /\ Elapsed(l) \in Nat
  BY Configured, MiddleIsTimed, ElapsedTyped DEF Middle
<1>2. CASE m = Damped(l, "contract")
  BY <1>1, <1>2 DEF Damped, Loop
<1>3. CASE setup.kind = "plan" /\ m # Damped(l, "contract")
  <2>1. l.pending.slots \in 1..setup.slots /\ m = PlanAccepted(l)
    BY <1>3 DEF Accepted, PlanAccepted
  <2> DEFINE late == Elapsed(l) \div setup.hold >= l.pending.slots
  <2>2. m = [Taken(l) EXCEPT
              !.planSlots = l.pending.slots, !.acceptedAt = l.ticks,
              !.late   = @ \/ late,
              !.cursor = IF late THEN l.pending.slots - 1
                         ELSE Elapsed(l) \div setup.hold,
              !.steps  = IF late THEN setup.hold
                         ELSE setup.hold - (Elapsed(l) % setup.hold)]
    BY <2>1 DEF PlanAccepted
  <2> HIDE DEF late
  <2>3. Taken(l) \in Loop
    BY <1>1, TakenTyped
  <2>4. /\ m.planSlots = l.pending.slots
        /\ m.late = (Taken(l).late \/ late)
        /\ m.cursor = (IF late THEN l.pending.slots - 1 ELSE Elapsed(l) \div setup.hold)
        /\ m.steps = (IF late THEN setup.hold
                      ELSE setup.hold - (Elapsed(l) % setup.hold))
        /\ m.asks = Taken(l).asks /\ m.out = Taken(l).out /\ m.last = Taken(l).last
        /\ m.ticks = Taken(l).ticks /\ m.ref = Taken(l).ref
        /\ m.missed = Taken(l).missed /\ m.have = Taken(l).have
        /\ m.mode = Taken(l).mode /\ m.fault = Taken(l).fault /\ m.cmd = Taken(l).cmd
        /\ m.pending = Taken(l).pending /\ m.consumed = Taken(l).consumed
        /\ m.active = Taken(l).active
    BY <2>2, <2>3 DEF Loop
  <2>5. /\ Taken(l).asks = l.asks /\ Taken(l).out = l.out /\ Taken(l).last = l.last
        /\ Taken(l).ticks = l.ticks /\ Taken(l).ref = l.ref /\ Taken(l).late = l.late
        /\ Taken(l).missed = l.missed /\ Taken(l).have /\ Taken(l).mode = "control"
        /\ Taken(l).fault = l.fault /\ Taken(l).cmd = l.pending
        /\ Taken(l).pending = NoAnswer /\ Taken(l).consumed = l.pending.ask.seq
        /\ Taken(l).active = l.active
    BY <1>1 DEF Taken, Loop
  <2> USE DEF late
  <2> QED BY <1>3, <2>1, <2>4, <2>5
<1>4. CASE setup.kind = "chunk" /\ m # Damped(l, "contract")
  <2>1. m = [Taken(l) EXCEPT !.steps = setup.hold]
    BY <1>4 DEF Accepted, ChunkAccepted
  <2> QED BY <1>1, <1>4, <2>1 DEF Taken, Loop
<1>5. CASE setup.kind = "oracle" /\ m # Damped(l, "contract")
  <2>1. /\ m = [Taken(l) EXCEPT !.steps = setup.hold, !.active = l.pending.ask.ref]
        /\ ~(Offset(l, l.pending.ask.ref) > setup.spare)
    BY <1>5 DEF Accepted, ReferenceAccepted
  <2>2. Offset(l, l.pending.ask.ref) \in Nat /\ setup.spare \in Nat
    BY <1>1 DEF Offset, Loop, Answer, Ask, Setup
  <2> QED BY <1>1, <1>5, <2>1, <2>2 DEF Taken, Loop
<1> QED BY <1>1, <1>2, <1>3, <1>4, <1>5 DEF Paced, Setup, Kinds

LEMMA AcceptedMiddle ==
  ASSUME TypeOK, NEW l, Middle(l), Waiting(l), Paced
  PROVE  Middle(Accepted(l)) /\ AskedNext(l, Accepted(l))
<1> DEFINE m == Accepted(l)
<1>1. /\ l \in Loop /\ m \in Loop /\ setup \in Setup /\ SetupOK(setup)
      /\ Elapsed(l) \in Nat
  BY Configured, MiddleIsTimed, ElapsedTyped, AcceptedTyped DEF Middle
<1>2. AskedNext(l, m)
  BY AcceptedCases DEF AskedNext
<1>3. CASE m = Damped(l, "contract")
  BY <1>2, <1>3, DampedMiddle DEF Faults
<1>4. CASE m # Damped(l, "contract")
  <2> DEFINE q == Elapsed(l) \div setup.hold
             rest == Elapsed(l) % setup.hold
  <2>1. q \in Nat /\ rest \in 0..setup.hold - 1 /\ setup.hold \in Nat /\ setup.slots \in Nat
    BY <1>1, Division DEF Setup, SetupOK
  <2> HIDE DEF q, rest
  <2>2. Shape(m)
    <3>1. m.mode = "control" /\ m.pending = NoAnswer /\ m.have
      BY <1>4, AcceptedCases
    <3>2. l.planSlots \in Nat /\ Shape(l)
      BY <1>1 DEF Loop, Middle
    <3>3. CASE setup.kind = "plan"
      <4>1. m.planSlots \in 1..setup.slots
        BY <1>4, <3>3, AcceptedCases
      <4>2. m.cursor < m.planSlots /\ m.steps <= setup.hold
        <5>1. CASE q >= m.planSlots
          BY <1>4, <2>1, <3>3, <4>1, <5>1, AcceptedCases DEF q
        <5>2. CASE ~(q >= m.planSlots)
          BY <1>4, <2>1, <3>3, <4>1, <5>2, AcceptedCases DEF q, rest
        <5> QED BY <5>1, <5>2
      <4> QED BY <2>1, <3>1, <3>3, <4>1, <4>2 DEF Shape
    <3>4. CASE setup.kind # "plan"
      <4>1. m.planSlots = l.planSlots /\ m.steps = setup.hold
        BY <1>4, <3>4, AcceptedCases
      <4> QED BY <2>1, <3>1, <3>2, <3>4, <4>1 DEF Shape
    <3> QED BY <3>3, <3>4
  <2>3. ASSUME setup.asks PROVE Own(m)
    <3>1. /\ m.pending = NoAnswer /\ m.consumed = l.pending.ask.seq /\ m.cmd = l.pending
          /\ m.last = l.last /\ m.asks = l.asks /\ m.out = l.out /\ m.ticks = l.ticks
      BY <1>4, AcceptedCases
    <3>2. NoAnswer.ask.seq = 0 /\ l.pending.ask.seq \in Nat /\ l.last \in Nat
      BY <1>1 DEF NoAnswer, NoAsk, Loop, Answer, Ask
    <3> QED BY <2>3, <3>1, <3>2 DEF Own, Middle, Waiting
  <2> QED BY <1>1, <1>2, <2>2, <2>3 DEF Middle
<1> QED BY <1>3, <1>4

LEMMA NextSlotIs ==
  ASSUME NEW l \in Loop
  PROVE  /\ NextSlot(l).cursor = l.cursor + 1 /\ NextSlot(l).steps = setup.hold
         /\ NextSlot(l).mode = "control" /\ NextSlot(l).fault = l.fault
         /\ NextSlot(l).have = l.have /\ NextSlot(l).planSlots = l.planSlots
         /\ NextSlot(l).asks = l.asks /\ NextSlot(l).out = l.out
         /\ NextSlot(l).last = l.last /\ NextSlot(l).ticks = l.ticks
         /\ NextSlot(l).ref = l.ref /\ NextSlot(l).cmd = l.cmd
         /\ NextSlot(l).pending = l.pending /\ NextSlot(l).consumed = l.consumed
         /\ NextSlot(l).active = l.active /\ NextSlot(l).late = l.late
         /\ NextSlot(l).missed = l.missed
BY DEF NextSlot, Loop

LEMMA AgainIs ==
  ASSUME NEW l \in Loop
  PROVE  /\ Again(l).cursor = l.cursor /\ Again(l).steps = setup.hold
         /\ Again(l).mode = l.mode /\ Again(l).fault = l.fault
         /\ Again(l).have = l.have /\ Again(l).planSlots = l.planSlots
         /\ Again(l).asks = l.asks /\ Again(l).out = l.out
         /\ Again(l).last = l.last /\ Again(l).ticks = l.ticks
         /\ Again(l).ref = l.ref /\ Again(l).cmd = l.cmd
         /\ Again(l).pending = l.pending /\ Again(l).consumed = l.consumed
         /\ Again(l).active = l.active /\ Again(l).missed
BY DEF Again, Loop

LEMMA HoldOverMiddle ==
  ASSUME TypeOK, NEW l, Middle(l), l.mode # "damp", l.have, Paced
  PROVE  /\ Middle(HoldOver(l))
         /\ HoldOver(l).asks = l.asks /\ HoldOver(l).out = l.out
<1>1. /\ l \in Loop /\ HoldOver(l) \in Loop /\ setup.hold \in Nat
  BY Configured, MiddleIsTimed, HoldOverTyped DEF Middle, Setup
<1>2. CASE l.planSlots # 0 /\ l.cursor + 1 < l.planSlots /\ HoldOver(l) = NextSlot(l)
  BY <1>1, <1>2, NextSlotIs DEF Middle, AskedNext, Shape, Own, Waiting
<1>3. CASE Waiting(l) /\ HoldOver(l) = Accepted(l)
  BY <1>3, AcceptedMiddle, AcceptedCases
<1>4. CASE ~Waiting(l) /\ HoldOver(l) = Again(l)
  BY <1>1, <1>4, AgainIs DEF Middle, AskedNext, Shape, Own, Waiting
<1> QED BY <1>1, <1>2, <1>3, <1>4, HoldOverCases

LEMMA AskAheadMiddle ==
  ASSUME TypeOK, NEW l, Middle(l)
  PROVE  /\ Middle(AskAhead(l)) /\ AskedNext(l, AskAhead(l))
         /\ AskAhead(l).mode = l.mode /\ AskAhead(l).have = l.have
<1>1. CASE ~Waiting(l) /\ AskAhead(l) = Requested(l)
  <2>1. l \in Loop
    BY DEF Middle
  <2>2. Requested(l).mode = l.mode /\ Requested(l).have = l.have
    BY <2>1 DEF Requested, Loop
  <2> QED BY <1>1, <2>2, RequestedMiddle
<1>2. CASE AskAhead(l) = l
  BY <1>2 DEF AskedNext
<1> QED BY <1>1, <1>2 DEF AskAhead

LEMMA ScheduledMiddle ==
  ASSUME TypeOK, NEW l, Middle(l), l.mode # "damp"
  PROVE  Middle(Scheduled(l)) /\ AskedNext(l, Scheduled(l))
<1>1. l \in Loop /\ Unpaced(l)
  BY MiddleIsTimed DEF Middle
<1>2. CASE ~l.have /\ Waiting(l) /\ Paced /\ Scheduled(l) = Accepted(l)
  BY <1>2, AcceptedMiddle
<1>3. CASE ~l.have /\ ~Waiting(l) /\ Scheduled(l) = Requested(l)
  BY <1>3, RequestedMiddle
<1>4. CASE l.have /\ Paced /\ Scheduled(l) = HoldOver(AskAhead(l))
  BY <1>4, AskAheadMiddle, HoldOverMiddle DEF AskedNext
<1>5. CASE l.have /\ Scheduled(l) \in {AskAhead(l), l}
  BY <1>5, AskAheadMiddle DEF AskedNext
<1> QED BY <1>1, <1>2, <1>3, <1>4, <1>5, ScheduledCases

LEMMA SteppedMiddle ==
  ASSUME TypeOK, NEW l, Middle(l)
  PROVE  /\ Middle(Counted(l)) /\ Counted(l).asks = l.asks /\ Counted(l).out = l.out
         /\ Middle(Stepped(l)) /\ Stepped(l).asks = l.asks /\ Stepped(l).out = l.out
<1>1. l \in Loop /\ setup.hold \in Nat
  BY Configured DEF Middle, Setup
<1>2. Middle(Counted(l)) /\ Counted(l).asks = l.asks /\ Counted(l).out = l.out
  BY <1>1 DEF Middle, Counted, Loop, Shape, Own, Waiting
<1>3. /\ Stepped(l) \in Loop /\ Stepped(l).steps <= l.steps /\ l.steps \in Nat
      /\ Stepped(l).steps \in Nat /\ Stepped(l).asks = l.asks /\ Stepped(l).out = l.out
      /\ Stepped(l).planSlots = l.planSlots /\ Stepped(l).have = l.have
      /\ Stepped(l).cursor = l.cursor /\ Stepped(l).mode = l.mode
      /\ Stepped(l).fault = l.fault /\ Stepped(l).pending = l.pending
      /\ Stepped(l).consumed = l.consumed /\ Stepped(l).last = l.last
      /\ Stepped(l).ticks = l.ticks /\ Stepped(l).cmd = l.cmd
  BY <1>1 DEF Stepped, Loop
<1>4. Shape(Stepped(l))
  BY <1>1, <1>3 DEF Middle, Shape
<1>5. setup.asks => Own(Stepped(l))
  BY <1>3 DEF Middle, Own, Waiting
<1> QED BY <1>2, <1>3, <1>4, <1>5 DEF Middle

LEMMA DampedIs ==
  ASSUME NEW l \in Loop, NEW why
  PROVE  /\ Damped(l, why).mode = "damp"
         /\ Damped(l, why).fault = (IF l.fault = "none" THEN why ELSE l.fault)
         /\ Damped(l, why).asks = l.asks /\ Damped(l, why).out = l.out
         /\ Damped(l, why).last = l.last /\ Damped(l, why).ticks = l.ticks
         /\ Damped(l, why).have = l.have /\ Damped(l, why).ref = l.ref
         /\ Damped(l, why).missed = l.missed /\ Damped(l, why).late = l.late
         /\ Damped(l, why).pending = l.pending /\ Damped(l, why).consumed = l.consumed
         /\ Damped(l, why).cmd = l.cmd /\ Damped(l, why).planSlots = l.planSlots
BY DEF Damped, Loop

(* The state between the phases of a tick, for all of the lemmas below.    *)
InTick(r, s) == /\ r = Read(ClockMoved(loop)) /\ s = Scheduled(r)
                /\ Middle(r) /\ Mailed(r) /\ s \in Loop
                /\ r.asks = loop.asks
                /\ r.mode # "damp" => Middle(s) /\ AskedNext(r, s)

Base == /\ TypeOK /\ Middle(loop) /\ HandshakeInv
        /\ setup.asks => MailInv

LEMMA ReadKeepsAsks ==
  ASSUME TypeOK, NEW l \in Loop
  PROVE  Read(l).asks = l.asks
<1>1. Noted(l) \in Loop /\ Noted(l).asks = l.asks
  BY DEF Noted, Loop, TypeOK, Answer, Ask
<1>2. Held(l).asks = l.asks
  BY DEF Held, Loop
<1>3. DirectTaken(Noted(l)).asks = l.asks
  BY <1>1 DEF DirectTaken, Loop
<1> QED BY <1>1, <1>2, <1>3, ReadCases, DampedIs

LEMMA TickPhases ==
  ASSUME Base
  PROVE  InTick(Read(ClockMoved(loop)), Scheduled(Read(ClockMoved(loop))))
<1> DEFINE l == ClockMoved(loop)
           r == Read(l)
<1>1. Middle(loop) /\ Mailed(loop) /\ TypeOK /\ (setup.asks => MailInv)
  BY DEF Base, Mailed, MailInv
<1>2. Middle(l) /\ Mailed(l) /\ l \in Loop /\ l.asks = loop.asks
  <2>1. l.asks = loop.asks /\ l \in Loop
    BY <1>1, ClockTyped DEF ClockMoved, Middle, Loop
  <2> QED BY <1>1, <2>1, ClockMiddle
<1> HIDE DEF l
<1>3. Middle(r) /\ Mailed(r) /\ r.asks = loop.asks
  BY <1>1, <1>2, ReadMiddle, ReadKeepsAsks
<1>4. Scheduled(r) \in Loop
  BY <1>1, <1>3, MiddleIsTimed, ScheduledTyped DEF Middle
<1>5. r.mode # "damp" => Middle(Scheduled(r)) /\ AskedNext(r, Scheduled(r))
  BY <1>1, <1>3, ScheduledMiddle
<1> QED BY <1>3, <1>4, <1>5 DEF InTick, l

(* What one_tick returns is well formed, and asked for one request at most. *)
LEMMA TickMiddle ==
  ASSUME Base, NEW before \in Before, NEW later \in Later,
         NEW t, t = OneTick(ClockMoved(loop), before, later)
  PROVE  /\ Middle(t.loop) /\ t.sent \in Sent
         /\ \/ t.loop.asks = loop.asks /\ Mailed(t.loop)
            \/ setup.asks /\ t.loop.asks = loop.asks + 1 /\ t.loop.out.seq = t.loop.asks
<1> DEFINE l == ClockMoved(loop)
           r == Read(l)
           s == Scheduled(r)
<1>1. /\ TypeOK /\ InTick(r, s) /\ Middle(l) /\ Mailed(l) /\ l \in Loop /\ r \in Loop
      /\ l.asks = loop.asks
  <2>1. Mailed(loop) /\ Middle(loop) /\ TypeOK
    BY DEF Base, Mailed, MailInv
  <2> QED BY <2>1, TickPhases, ClockMiddle DEF InTick, Middle, ClockMoved, Loop
<1> HIDE DEF l, r, s
<1>2. t.sent \in Sent
  BY <1>1, TickTyped DEF InTick, l, r, s
<1>3. \A why \in Faults \ {"none"} :
        Middle(Damped(l, why)) /\ Mailed(Damped(l, why)) /\ Damped(l, why).asks = loop.asks
  BY <1>1, DampedMiddle, DampedIs
<1>4. ASSUME r.mode # "damp", NEW m \in Loop, Middle(m), m.asks = s.asks, m.out = s.out
      PROVE  \/ m.asks = loop.asks /\ Mailed(m)
             \/ setup.asks /\ m.asks = loop.asks + 1 /\ m.out.seq = m.asks
  BY <1>1, <1>4 DEF InTick, AskedNext, Mailed
<1>5. ASSUME r.mode # "damp"
      PROVE  /\ Middle(Counted(s)) /\ Middle(Stepped(s)) /\ Middle(s)
             /\ \A why \in Faults \ {"none"} :
                  Middle(Damped(s, why)) /\ Middle(Damped(Counted(s), why))
  <2>1. Middle(s) /\ Middle(Counted(s)) /\ Middle(Stepped(s))
    BY <1>1, <1>5, SteppedMiddle DEF InTick
  <2> QED BY <1>1, <2>1, DampedMiddle
<1>6. \A why \in Faults :
         /\ Damped(s, why).asks = s.asks /\ Damped(s, why).out = s.out
         /\ r.mode # "damp" => /\ Damped(Counted(s), why).asks = s.asks
                              /\ Damped(Counted(s), why).out = s.out
  BY <1>1, <1>5, SteppedMiddle, DampedIs DEF InTick, Middle
<1>7. r.mode # "damp" => /\ Counted(s).asks = s.asks /\ Counted(s).out = s.out
                        /\ Stepped(s).asks = s.asks /\ Stepped(s).out = s.out
  BY <1>1, <1>5, SteppedMiddle
<1>8. \/ t.loop \in {Damped(l, "state"), Damped(l, "mailbox")}
      \/ r.mode = "damp" /\ t.loop = r
      \/ r.mode # "damp" /\ t.loop \in {Damped(Counted(s), "absent"), Counted(s), Stepped(s)}
      \/ r.mode # "damp" /\ \E why \in Whys : t.loop = Damped(s, why)
  BY <1>1, TickCases DEF InTick, l, r, s
<1>9. CASE t.loop \in {Damped(l, "state"), Damped(l, "mailbox")}
  BY <1>2, <1>3, <1>9 DEF Faults
<1>10. CASE r.mode = "damp" /\ t.loop = r
  BY <1>1, <1>2, <1>10 DEF InTick
<1>11. CASE r.mode # "damp" /\ t.loop \in {Damped(Counted(s), "absent"), Counted(s), Stepped(s)}
  <2>1. Middle(t.loop) /\ t.loop.asks = s.asks /\ t.loop.out = s.out
    BY <1>5, <1>6, <1>7, <1>11 DEF Faults
  <2> QED BY <1>2, <1>4, <1>11, <2>1 DEF Middle
<1>12. CASE r.mode # "damp" /\ \E why \in Whys : t.loop = Damped(s, why)
  <2>1. Middle(t.loop) /\ t.loop.asks = s.asks /\ t.loop.out = s.out
    BY <1>5, <1>6, <1>12 DEF Faults, Whys
  <2> QED BY <1>2, <1>4, <1>12, <2>1 DEF Middle
<1> QED BY <1>8, <1>9, <1>10, <1>11, <1>12

LEMMA OlderIs ==
  ASSUME NEW l \in Loop, NEW m, m = [l EXCEPT !.ticks = @ + 1]
  PROVE  /\ m \in Loop /\ m.ticks = l.ticks + 1
         /\ m.mode = l.mode /\ m.fault = l.fault /\ m.ref = l.ref /\ m.have = l.have
         /\ m.steps = l.steps /\ m.planSlots = l.planSlots /\ m.cursor = l.cursor
         /\ m.cmd = l.cmd /\ m.active = l.active /\ m.pending = l.pending
         /\ m.consumed = l.consumed /\ m.last = l.last /\ m.out = l.out
         /\ m.asks = l.asks /\ m.missed = l.missed /\ m.late = l.late
BY DEF Loop

LEMMA BaseTick ==
  ASSUME Base, NEW before \in Before, NEW later \in Later, Tick(before, later)
  PROVE  Base'
<1> DEFINE t == OneTick(ClockMoved(loop), before, later)
<1>1. /\ Middle(t.loop) /\ t.loop \in Loop /\ t.sent \in Sent
      /\ \/ t.loop.asks = loop.asks /\ Mailed(t.loop)
         \/ setup.asks /\ t.loop.asks = loop.asks + 1 /\ t.loop.out.seq = t.loop.asks
  BY TickMiddle DEF Middle
<1>2. /\ loop' = [t.loop EXCEPT !.ticks = @ + 1] /\ sent' = t.sent
      /\ asked' = IF t.loop.asks > loop.asks THEN t.loop.out ELSE asked
      /\ now' = now + 1 /\ phase = "up"
      /\ UNCHANGED <<setup, phase, pinned, run, answer, planner>>
  BY DEF Tick, Post
<1> HIDE DEF t
<1>3. /\ loop' \in Loop /\ loop'.ticks = t.loop.ticks + 1
      /\ loop'.mode = t.loop.mode /\ loop'.fault = t.loop.fault
      /\ loop'.have = t.loop.have /\ loop'.steps = t.loop.steps
      /\ loop'.planSlots = t.loop.planSlots /\ loop'.cursor = t.loop.cursor
      /\ loop'.cmd = t.loop.cmd /\ loop'.pending = t.loop.pending
      /\ loop'.consumed = t.loop.consumed /\ loop'.last = t.loop.last
      /\ loop'.out = t.loop.out /\ loop'.asks = t.loop.asks
  BY <1>1, <1>2, OlderIs
<1>4. TypeOK'
  <2>1. t.loop.out \in Ask
    BY <1>1 DEF Loop
  <2> QED BY <1>1, <1>2, <1>3, <2>1 DEF Base, TypeOK
<1>5. Shape(loop)'
  BY <1>1, <1>2, <1>3 DEF Shape, Middle
<1>6. setup.asks => Own(loop)'
  <2>1. \A a \in Ask : a.tick <= t.loop.ticks => a.tick <= t.loop.ticks + 1
    BY <1>1 DEF Ask, Loop
  <2>2. t.loop.out \in Ask /\ t.loop.pending.ask \in Ask /\ t.loop.cmd.ask \in Ask
    BY <1>1 DEF Loop, Answer
  <2> QED BY <1>1, <1>2, <1>3, <2>1, <2>2 DEF Own, Middle, Waiting
<1>7. HandshakeInv'
  BY <1>2 DEF HandshakeInv
<1>8. setup.asks => MailInv'
  <2> SUFFICES ASSUME setup.asks PROVE MailInv'
    OBVIOUS
  <2>1. MailInv /\ loop.asks \in Nat /\ NoAsk' = NoAsk
    BY DEF Base, Middle, Loop, NoAsk
  <2>2. CASE t.loop.asks = loop.asks /\ Mailed(t.loop)
    BY <1>2, <1>3, <2>1, <2>2 DEF MailInv, Mailed
  <2>3. CASE t.loop.asks = loop.asks + 1 /\ t.loop.out.seq = t.loop.asks
    <3>1. asked' = t.loop.out /\ asked'.seq = asked.seq + 1 /\ asked.seq = loop.asks
      BY <1>2, <2>1, <2>3 DEF MailInv
    <3>2. \A a \in {NoAsk, planner.thinking, answer.ask} :
            a \in Ask /\ a.seq <= asked.seq
      BY <2>1, NothingTyped DEF MailInv, Base, TypeOK, Answer
    <3>3. \A a \in {NoAsk, planner.thinking, answer.ask} : a.seq < asked'.seq
      BY <2>1, <3>1, <3>2 DEF Ask
    <3> QED BY <1>2, <1>3, <2>1, <2>3, <3>1, <3>2, <3>3 DEF MailInv, Ask
  <2> QED BY <1>1, <2>2, <2>3
<1> QED BY <1>2, <1>3, <1>4, <1>5, <1>6, <1>7, <1>8 DEF Base, Middle

LEMMA ResetIs ==
  ASSUME NEW l \in Loop
  PROVE  /\ Reset(l) \in Loop /\ Reset(l).mode = "wait" /\ Reset(l).fault = "none"
         /\ Reset(l).ticks = 0 /\ Reset(l).ref = 0 /\ ~Reset(l).have
         /\ Reset(l).steps = 0 /\ Reset(l).planSlots = 0 /\ Reset(l).active = 0
         /\ Reset(l).pending = NoAnswer /\ Reset(l).out = NoAsk
         /\ Reset(l).last = l.last /\ Reset(l).consumed = l.last
         /\ Reset(l).asks = l.asks /\ ~Reset(l).missed /\ ~Reset(l).late
<1>1. FreshLoop \in Loop /\ l.last \in Nat /\ l.asks \in Nat
  BY NothingTyped DEF FreshLoop, Loop, Modes, Faults
<1>2. Reset(l) \in Loop
  BY <1>1 DEF Reset, Loop, Modes
<1> QED BY <1>2 DEF Reset, FreshLoop

LEMMA StartIs ==
  ASSUME NEW pin \in BOOLEAN, Start(pin), loop \in Loop
  PROVE  /\ loop'.mode = "wait" /\ loop'.fault = "none" /\ loop'.ticks = 0 /\ loop'.ref = 0
         /\ ~loop'.have /\ loop'.planSlots = 0 /\ loop'.pending = NoAnswer
         /\ loop'.consumed = loop.last /\ loop'.last = loop.last
         /\ ~loop'.missed /\ ~loop'.late
         /\ setup.kind = "oracle" =>
              loop'.out.seq = loop.asks + 1 /\ loop'.out.ref = 0 /\ phase' = "starting"
         /\ setup.kind # "oracle" => loop'.out = NoAsk
         /\ UNCHANGED <<setup, answer, planner>> /\ sent' = "none"
<1> DEFINE l == Reset(loop)
           first == [seq |-> l.asks + 1, run |-> run + 1, tick |-> 0, ref |-> 0]
<1>1. /\ l \in Loop /\ l.mode = "wait" /\ l.fault = "none" /\ l.ticks = 0 /\ l.ref = 0
      /\ ~l.have /\ l.planSlots = 0 /\ l.pending = NoAnswer /\ l.out = NoAsk
      /\ l.consumed = loop.last /\ l.last = loop.last /\ ~l.missed /\ ~l.late
      /\ l.asks = loop.asks
  BY ResetIs
<1>2. CASE setup.kind = "oracle"
  <2>1. /\ loop' = [l EXCEPT !.asks = @ + 1, !.out = first] /\ phase' = "starting"
        /\ UNCHANGED <<setup, answer, planner>> /\ sent' = "none"
    BY <1>2 DEF Start
  <2>2. first.seq = loop.asks + 1 /\ first.ref = 0
    BY <1>1
  <2> HIDE DEF l, first
  <2>3. /\ loop'.mode = l.mode /\ loop'.fault = l.fault /\ loop'.ticks = l.ticks
        /\ loop'.ref = l.ref /\ loop'.have = l.have /\ loop'.planSlots = l.planSlots
        /\ loop'.pending = l.pending /\ loop'.consumed = l.consumed /\ loop'.last = l.last
        /\ loop'.missed = l.missed /\ loop'.late = l.late /\ loop'.out = first
    BY <1>1, <2>1 DEF Loop
  <2> QED BY <1>1, <1>2, <2>1, <2>2, <2>3
<1>3. CASE setup.kind # "oracle"
  <2>1. loop' = l /\ UNCHANGED <<setup, answer, planner>> /\ sent' = "none"
    BY <1>3 DEF Start
  <2> HIDE DEF l
  <2> QED BY <1>1, <1>3, <2>1
<1> QED BY <1>2, <1>3

LEMMA BaseStart ==
  ASSUME Base, NEW pin \in BOOLEAN, Start(pin)
  PROVE  Base'
<1> DEFINE l == Reset(loop)
           first == [seq |-> l.asks + 1, run |-> run + 1, tick |-> 0, ref |-> 0]
<1>1. /\ loop \in Loop /\ setup \in Setup /\ SetupOK(setup) /\ TypeOK /\ run \in Nat
  BY Configured DEF Base, TypeOK
<1>2. /\ l \in Loop /\ l.asks \in Nat /\ l.last \in Nat /\ ~l.have
      /\ l.mode = "wait" /\ l.planSlots = 0 /\ l.steps = 0 /\ l.pending = NoAnswer
      /\ l.out = NoAsk /\ l.consumed = l.last /\ l.asks = loop.asks /\ l.last = loop.last
      /\ l.ticks = 0
  BY <1>1, ResetIs DEF Loop
<1>3. first \in Ask /\ first.seq = l.asks + 1 /\ first.run = run + 1 /\ first.tick = 0
  BY <1>1, <1>2 DEF Ask
<1>4. NoAnswer.ask.seq = 0 /\ NoAsk.seq = 0 /\ NoAsk \in Ask
  BY NothingTyped DEF NoAnswer, NoAsk
<1>5. loop.last <= loop.asks \/ ~setup.asks
  BY DEF Base, Middle, Own
<1>6. CASE setup.kind = "oracle"
  <2>1. /\ loop' = [l EXCEPT !.asks = @ + 1, !.out = first]
        /\ asked' = first /\ phase' = "starting" /\ run' = run + 1 /\ pinned' = pin
        /\ sent' = "none" /\ UNCHANGED <<setup, now, answer, planner>>
    BY <1>6 DEF Start
  <2> HIDE DEF l, first
  <2>2. /\ loop' \in Loop /\ loop'.asks = l.asks + 1 /\ loop'.out = first
        /\ loop'.pending = NoAnswer /\ loop'.consumed = l.last /\ loop'.last = l.last
        /\ loop'.mode = "wait" /\ loop'.planSlots = 0 /\ loop'.steps = 0 /\ ~loop'.have
        /\ loop'.ticks = 0
    <3>1. l.asks + 1 \in Nat
      BY <1>2
    <3>2. loop' \in Loop
      BY <1>2, <1>3, <2>1, <3>1 DEF Loop
    <3>3. /\ loop'.asks = l.asks + 1 /\ loop'.out = first
          /\ loop'.pending = l.pending /\ loop'.consumed = l.consumed
          /\ loop'.last = l.last /\ loop'.mode = l.mode
          /\ loop'.planSlots = l.planSlots /\ loop'.steps = l.steps
          /\ loop'.have = l.have /\ loop'.ticks = l.ticks
      BY <1>2, <2>1 DEF Loop
    <3> QED BY <1>2, <3>2, <3>3
  <2>3. TypeOK'
    BY <1>1, <1>3, <2>1, <2>2 DEF TypeOK, Phases, Sent
  <2>4. Shape(loop)' /\ HandshakeInv'
    BY <1>1, <1>6, <2>1, <2>2 DEF Shape, HandshakeInv, Setup
  <2>5. setup.asks => Own(loop)'
    BY <1>2, <1>3, <1>4, <1>5, <2>1, <2>2 DEF Own, Waiting
  <2>6. setup.asks => MailInv'
    <3> SUFFICES ASSUME setup.asks PROVE MailInv'
      OBVIOUS
    <3>1. \A a \in {NoAsk, planner.thinking, answer.ask} :
            a \in Ask /\ a.seq <= asked.seq /\ asked.seq = l.asks
      BY <1>1, <1>2, <1>4 DEF MailInv, Base, TypeOK, Answer
    <3>2. \A a \in {NoAsk, planner.thinking, answer.ask} : a.seq < first.seq
      BY <1>2, <1>3, <3>1 DEF Ask
    <3> QED BY <1>3, <2>1, <2>2, <3>1, <3>2 DEF MailInv, Ask
  <2> QED BY <2>1, <2>2, <2>3, <2>4, <2>5, <2>6 DEF Base, Middle
<1>7. CASE setup.kind # "oracle"
  <2>1. /\ loop' = l /\ asked' = asked /\ phase' = "up" /\ run' = run + 1
        /\ pinned' = pin /\ sent' = "none" /\ UNCHANGED <<setup, now, answer, planner>>
    BY <1>7 DEF Start
  <2> HIDE DEF l, first
  <2>2. TypeOK' /\ HandshakeInv'
    BY <1>1, <1>2, <2>1 DEF TypeOK, Phases, Sent, HandshakeInv
  <2>3. Shape(loop)'
    BY <1>1, <1>2, <2>1 DEF Shape, Setup
  <2>4. setup.asks => Own(loop)'
    BY <1>2, <1>4, <1>5, <2>1 DEF Own, Waiting
  <2>5. setup.asks => MailInv'
    BY <1>1, <1>2, <1>4, <2>1 DEF MailInv, Base
  <2> QED BY <1>2, <2>1, <2>2, <2>3, <2>4, <2>5 DEF Base, Middle
<1> QED BY <1>6, <1>7

LEMMA BaseHandshake ==
  ASSUME Base, Handshake
  PROVE  Base'
<1>1. /\ TypeOK /\ Middle(loop) /\ Mailed(loop) /\ (setup.asks => MailInv)
      /\ loop \in Loop /\ setup.kind = "oracle" /\ ~Direct /\ ~loop.have /\ sent = "none"
  BY DEF Base, Mailed, MailInv, Middle, HandshakeInv, Handshake, Direct
<1>2. /\ loop' = Read(loop) /\ phase' \in {"starting", "up", "idle"}
      /\ UNCHANGED <<setup, pinned, sent, now, run, asked, answer, planner>>
  BY DEF Handshake
<1>3. Middle(Read(loop)) /\ Mailed(Read(loop)) /\ Read(loop).asks = loop.asks
  BY <1>1, ReadMiddle, ReadKeepsAsks
<1>4. TypeOK'
  BY <1>1, <1>2, <1>3 DEF TypeOK, Middle, Phases
<1>5. Middle(loop)'
  BY <1>2, <1>3 DEF Middle, Shape, Own, Waiting
<1>6. ~Read(loop).have
  <2>1. Noted(loop) \in Loop /\ ~Noted(loop).have /\ ~Held(loop).have
    BY <1>1 DEF Noted, Held, Loop, TypeOK, Answer, Ask
  <2> QED BY <1>1, <2>1, ReadCases, DampedIs
<1>7. HandshakeInv'
  BY <1>1, <1>2, <1>6 DEF HandshakeInv
<1>8. setup.asks => MailInv'
  BY <1>1, <1>2, <1>3 DEF MailInv, Mailed, NoAsk
<1> QED BY <1>2, <1>4, <1>5, <1>7, <1>8 DEF Base

LEMMA BaseHandshakeFails ==
  ASSUME Base, HandshakeFails
  PROVE  Base'
<1>1. /\ TypeOK /\ Middle(loop) /\ Mailed(loop) /\ loop \in Loop
      /\ phase = "starting" /\ loop' = Damped(loop, "mailbox")
      /\ UNCHANGED <<setup, phase, pinned, sent, now, run, asked, answer, planner>>
  BY DEF Base, Mailed, MailInv, Middle, HandshakeFails
<1>2. Middle(Damped(loop, "mailbox")) /\ Mailed(Damped(loop, "mailbox"))
  BY <1>1, DampedMiddle DEF Faults
<1>3. Middle(loop)'
  BY <1>1, <1>2 DEF Middle, Shape, Own, Waiting
<1>4. TypeOK'
  BY <1>1, <1>2 DEF TypeOK, Middle
<1>5. Damped(loop, "mailbox").asks = loop.asks /\ Damped(loop, "mailbox").have = loop.have
  BY <1>1, DampedIs
<1>6. HandshakeInv'
  BY <1>1, <1>5 DEF HandshakeInv, Base
<1>7. setup.asks => MailInv'
  BY <1>1, <1>2, <1>5 DEF MailInv, Mailed, NoAsk, Base
<1> QED BY <1>1, <1>3, <1>4, <1>6, <1>7 DEF Base

(* Steps that leave the loop and the request mailbox alone.                *)
LEMMA BaseQuiet ==
  ASSUME Base, TypeOK', HandshakeInv', UNCHANGED <<setup, run, asked, loop>>,
         setup.asks => planner'.thinking \in {NoAsk, planner.thinking, asked},
         setup.asks => answer'.ask \in {answer.ask, planner.thinking}
  PROVE  Base'
<1>1. Middle(loop)'
  BY DEF Base, Middle, Shape, Own, Waiting
<1>2. setup.asks => MailInv'
  <2> SUFFICES ASSUME setup.asks PROVE MailInv'
    OBVIOUS
  <2>1. MailInv /\ NoAsk' = NoAsk /\ asked.seq \in Nat
    BY DEF Base, NoAsk, TypeOK, Ask
  <2>2. \A a \in {NoAsk, planner'.thinking, answer'.ask} :
          a.seq <= asked.seq /\ (a.seq = asked.seq => a = asked)
    BY <2>1 DEF MailInv
  <2> QED BY <2>1, <2>2 DEF MailInv
<1> QED BY <1>1, <1>2 DEF Base

LEMMA BaseOther ==
  ASSUME Base,
         \/ HandshakeTimeout \/ Unpin \/ ThreadEnds \/ Wait
         \/ Take \/ PlannerDies \/ PlannerRestarts
         \/ \E slots \in 0..setup.slots, tag \in Tags : Reply(slots, tag) \/ Push(slots, tag)
         \/ UNCHANGED vars
  PROVE  Base'
<1>1. TypeOK /\ HandshakeInv /\ Middle(loop) /\ setup \in Setup /\ (setup.asks => MailInv)
  BY Configured DEF Base
<1>2. CASE HandshakeTimeout \/ Unpin \/ Wait \/ UNCHANGED vars
  <2>1. /\ UNCHANGED <<setup, run, asked, loop, planner, answer, sent, now>>
        /\ phase' \in {"idle", phase} /\ pinned' \in BOOLEAN
    BY <1>1, <1>2 DEF HandshakeTimeout, Unpin, Wait, vars, TypeOK
  <2>2. TypeOK' /\ HandshakeInv'
    BY <1>1, <2>1 DEF TypeOK, Phases, HandshakeInv
  <2> QED BY <2>1, <2>2, BaseQuiet
<1>3. CASE ThreadEnds
  <2>1. /\ UNCHANGED <<setup, pinned, sent, now, run, asked, answer, planner>>
        /\ phase' = "over" /\ loop \in Loop
        /\ loop' = [loop EXCEPT !.mode = IF @ = "damp" THEN @ ELSE "stopped"]
    BY <1>1, <1>3 DEF ThreadEnds, TypeOK
  <2>2. loop' \in Loop
    BY <2>1 DEF Loop, Modes
  <2>3. Shape(loop)'
    BY <1>1, <2>1 DEF Shape, Middle, Loop
  <2>4. setup.asks => Own(loop)'
    BY <1>1, <2>1 DEF Own, Middle, Loop, Waiting
  <2>5. TypeOK' /\ HandshakeInv'
    BY <1>1, <2>1, <2>2 DEF TypeOK, Phases, HandshakeInv
  <2>6. setup.asks => MailInv'
    BY <1>1, <2>1 DEF MailInv, NoAsk, Loop
  <2> QED BY <1>1, <2>1, <2>2, <2>3, <2>4, <2>5, <2>6 DEF Base, Middle
<1>4. CASE Take \/ PlannerDies \/ PlannerRestarts
  <2>1. /\ UNCHANGED <<setup, phase, loop, pinned, sent, now, run, asked, answer>>
        /\ planner'.thinking \in {NoAsk, planner.thinking, asked}
        /\ planner' \in [up : BOOLEAN, taken : Nat, thinking : Ask]
    <3>1. /\ planner \in [up : BOOLEAN, taken : Nat, thinking : Ask] /\ asked \in Ask
          /\ asked.seq \in Nat /\ NoAsk \in Ask
      BY <1>1, NothingTyped DEF TypeOK, Ask
    <3>2. CASE Take
      BY <3>1, <3>2 DEF Take
    <3>3. CASE PlannerDies
      BY <3>1, <3>3 DEF PlannerDies
    <3>4. CASE PlannerRestarts
      BY <3>1, <3>4 DEF PlannerRestarts
    <3> QED BY <1>4, <3>2, <3>3, <3>4
  <2>2. TypeOK' /\ HandshakeInv'
    BY <1>1, <2>1 DEF TypeOK, HandshakeInv
  <2> QED BY <2>1, <2>2, BaseQuiet
<1>5. ASSUME NEW slots \in 0..setup.slots, NEW tag \in Tags, Reply(slots, tag) PROVE Base'
  <2>1. /\ answer' = [ask |-> planner.thinking, at |-> now, slots |-> slots, tag |-> tag]
        /\ planner' = [planner EXCEPT !.thinking = NoAsk]
        /\ UNCHANGED <<setup, phase, loop, pinned, sent, now, run, asked>>
    BY <1>5 DEF Reply
  <2>2. slots \in Nat
    BY <1>1 DEF Setup
  <2>3. TypeOK' /\ HandshakeInv'
    BY <1>1, <2>1, <2>2, NothingTyped DEF TypeOK, HandshakeInv, Answer
  <2>4. planner'.thinking = NoAsk /\ answer'.ask = planner.thinking
    BY <1>1, <2>1 DEF TypeOK
  <2> QED BY <2>1, <2>3, <2>4, BaseQuiet
<1>6. ASSUME NEW slots \in 0..setup.slots, NEW tag \in Tags, Push(slots, tag) PROVE Base'
  <2> DEFINE ask == [NoAsk EXCEPT !.seq = answer.ask.seq + 1, !.run = run]
  <2>1. /\ answer' = [ask |-> ask, at |-> now, slots |-> slots, tag |-> tag] /\ ~setup.asks
        /\ UNCHANGED <<setup, phase, loop, pinned, sent, now, run, asked, planner>>
    BY <1>6 DEF Push
  <2>2. slots \in Nat /\ ask \in Ask
    <3>1. slots \in Nat
      BY <1>1 DEF Setup
    <3>2. answer.ask.seq + 1 \in Nat /\ run \in Nat
      BY <1>1 DEF TypeOK, Answer, Ask
    <3>3. ask \in Ask
      BY <3>2, NothingTyped DEF Ask
    <3> QED BY <3>1, <3>3
  <2> HIDE DEF ask
  <2>3. TypeOK' /\ HandshakeInv'
    BY <1>1, <2>1, <2>2 DEF TypeOK, HandshakeInv, Answer
  <2> QED BY <2>1, <2>3, BaseQuiet
<1> QED BY <1>2, <1>3, <1>4, <1>5, <1>6

LEMMA BaseInit == Init => Base
<1> SUFFICES ASSUME Init PROVE Base
  OBVIOUS
<1>1. setup \in Setup /\ SetupOK(setup) /\ setup \in Setups
  BY SetupAssumption DEF Init
<1>2. TypeOK
  BY <1>1, NothingTyped DEF Init, TypeOK, Phases, Sent, Setup
<1>3. Shape(loop)
  BY <1>1 DEF Init, Shape, FreshLoop, Setup
<1>4. Own(loop)
  BY DEF Init, Own, FreshLoop, Waiting, NoAnswer, NoAsk
<1>5. MailInv /\ HandshakeInv
  BY DEF Init, MailInv, HandshakeInv, FreshLoop, NoAnswer, NoAsk
<1> QED BY <1>2, <1>3, <1>4, <1>5 DEF Base, Middle, TypeOK

LEMMA BaseNext == Base /\ [Next]_vars => Base'
BY BaseTick, BaseStart, BaseHandshake, BaseHandshakeFails, BaseOther DEF Next

(* Every field of the thread's, the mailboxes' and the planner's state     *)
(* stays in its type: no tick counts a hold, a cursor or an age below 0.   *)
THEOREM TypeCorrect == Spec => []TypeOK
<1>1. Base => TypeOK
  BY DEF Base
<1> QED BY <1>1, BaseInit, BaseNext, PTL DEF Spec

(* A command in use, and a reply that waits, answer a request of this      *)
(* episode, whatever replies earlier episodes left in flight.              *)
THEOREM OwnCommandsOnly == Spec => []CommandOfThisRun
<1>1. Base => CommandOfThisRun
  BY DEF Base, Middle, Own, CommandOfThisRun
<1> QED BY <1>1, BaseInit, BaseNext, PTL DEF Spec

----------------------------------------------------------------------------
(* Silence.                                                                *)
LEMMA CoveredByPlan ==
  ASSUME TypeOK, NEW l \in Loop
  PROVE  Covered(l) \in Int /\ Covered(l) <= l.planSlots * setup.hold
<1>1. setup.hold \in Nat
  BY Configured DEF Setup
<1> DEFINE whole == l.planSlots * setup.hold
           since == l.ticks - l.acceptedAt
<1>2. whole \in Int /\ since \in Int /\ (l.planSlots = 0 => whole = 0)
  <2>1. l.planSlots \in Nat /\ l.ticks \in Nat /\ l.acceptedAt \in Nat
    BY DEF Loop
  <2>2. whole \in Int /\ (l.planSlots = 0 => whole = 0)
    BY <1>1, <2>1
  <2> QED BY <2>1, <2>2
<1>3. Covered(l) = IF l.planSlots = 0 THEN 0 ELSE Min({since, whole})
  BY DEF Covered
<1> HIDE DEF whole, since
<1>4. Covered(l) \in Int /\ Covered(l) <= whole
  <2>1. CASE l.planSlots = 0
    BY <1>2, <1>3, <2>1
  <2>2. CASE l.planSlots # 0
    <3>1. Covered(l) = Min({since, whole})
      BY <1>3, <2>2
    <3>2. Min({since, whole}) \in Int /\ Min({since, whole}) <= whole
      BY <1>2, MinOfTwo
    <3> QED BY <3>1, <3>2
  <2> QED BY <2>1, <2>2
<1> QED BY <1>4 DEF whole

LEMMA SilenceNext ==
  Base /\ Base' /\ SilenceInv /\ [Next]_vars => SilenceInv'
<1> SUFFICES ASSUME Base, Base', SilenceInv, [Next]_vars, sent' = "target"
             PROVE  now' - loop'.cmd.at <= StaleTicks + loop'.planSlots * setup'.hold + 1
  BY DEF SilenceInv
<1>1. TypeOK /\ loop \in Loop
  BY DEF Base, TypeOK
<1>2. ASSUME NEW before \in Before, NEW later \in Later, Tick(before, later)
      PROVE  now' - loop'.cmd.at <= StaleTicks + loop'.planSlots * setup'.hold + 1
  <2> DEFINE l == ClockMoved(loop)
             r == Read(l)
             s == Scheduled(r)
             t == OneTick(l, before, later)
  <2>1. l \in Loop /\ r \in Loop /\ s \in Loop
    BY <1>1, TickPhases, ClockTyped DEF InTick, Middle
  <2>2. loop' = [t.loop EXCEPT !.ticks = @ + 1] /\ t.sent = "target"
          /\ setup' = setup /\ now' = now + 1
    BY <1>2 DEF Tick
  <2>3. ~TooOld(s) /\ t.loop = Stepped(s)
    <3> HIDE DEF l, r, s, t
    <3> QED BY <1>1, <2>1, <2>2, TickCases DEF l, r, s, t
  <2> HIDE DEF l, r, s, t
  <2>4. loop'.cmd = s.cmd /\ loop'.planSlots = s.planSlots
    BY <2>1, <2>2, <2>3 DEF Stepped, Loop
  <2>5. s.cmd.at \in Nat /\ now \in Nat /\ s.planSlots * setup.hold \in Int
    BY <1>1, <2>1, Configured DEF TypeOK, Loop, Answer, Setup
  <2>6. now - s.cmd.at <= StaleTicks + Covered(s)
    BY <1>1, <2>1, <2>3, <2>5, CoveredByPlan, Limits DEF TooOld
  <2> QED BY <1>1, <2>1, <2>2, <2>4, <2>5, <2>6, CoveredByPlan, Limits
<1>3. CASE \E pin \in BOOLEAN : Start(pin)
  BY <1>3 DEF Start
<1>4. CASE Handshake \/ HandshakeFails
  BY <1>4 DEF Handshake, HandshakeFails, Base, HandshakeInv
<1>5. CASE ThreadEnds
  <2>1. loop'.cmd = loop.cmd /\ loop'.planSlots = loop.planSlots
          /\ UNCHANGED <<setup, now, sent>>
    BY <1>1, <1>5 DEF ThreadEnds, Loop
  <2> QED BY <2>1 DEF SilenceInv
<1>6. CASE \/ HandshakeTimeout \/ Unpin \/ Wait \/ Take \/ PlannerDies \/ PlannerRestarts
           \/ \E slots \in 0..setup.slots, tag \in Tags : Reply(slots, tag) \/ Push(slots, tag)
           \/ UNCHANGED vars
  <2>1. UNCHANGED <<setup, now, sent, loop>>
    BY <1>6 DEF HandshakeTimeout, Unpin, Wait, Take, PlannerDies, PlannerRestarts,
                Reply, Push, vars
  <2> QED BY <2>1 DEF SilenceInv
<1> QED BY <1>2, <1>3, <1>4, <1>5, <1>6 DEF Next

(* With the planner silent the robot is driven for the stale limit and     *)
(* what a plan covers at most, whatever the planner did before.            *)
THEOREM SilentPlannerStops == Spec => []SilenceStops
<1>1. Init => SilenceInv
  BY DEF Init, SilenceInv
<1>2. SilenceInv => SilenceStops
  BY DEF SilenceInv, SilenceStops
<1> QED BY <1>1, <1>2, BaseInit, BaseNext, SilenceNext, PTL DEF Spec

----------------------------------------------------------------------------
(* Alignment.                                                              *)

(* A hold that drives has a step left.                                     *)
LEMMA StepsLeft ==
  ASSUME TypeOK, NEW l, Middle(l), l.mode # "damp", Paced,
         Scheduled(l).have, Scheduled(l).mode # "damp"
  PROVE  Scheduled(l).steps > 0
<1>1. /\ l \in Loop /\ Unpaced(l) /\ setup \in Setup /\ SetupOK(setup)
      /\ setup.hold \in Nat /\ setup.hold > 0
  BY MiddleIsTimed, Configured DEF Middle, Setup, SetupOK
<1>2. ASSUME NEW a, Middle(a), Waiting(a), Accepted(a).mode # "damp"
      PROVE  Accepted(a).steps > 0
  <2>1. Elapsed(a) \in Nat /\ a \in Loop
    BY <1>2, MiddleIsTimed, ElapsedTyped DEF Middle
  <2>2. Elapsed(a) % setup.hold \in 0..setup.hold - 1
    BY <1>1, <2>1, Division
  <2>3. Accepted(a) # Damped(a, "contract")
    BY <1>2, <2>1, DampedIs
  <2>4. Accepted(a).steps \in {setup.hold, setup.hold - (Elapsed(a) % setup.hold)}
    BY <1>2, <2>3, AcceptedCases
  <2> QED BY <1>1, <2>2, <2>4
<1>3. CASE Waiting(l) /\ Scheduled(l) = Accepted(l)
  BY <1>2, <1>3
<1>4. CASE ~l.have /\ ~Waiting(l) /\ Scheduled(l) = Requested(l)
  BY <1>1, <1>4 DEF Requested, Loop
<1>5. CASE Scheduled(l) = HoldOver(AskAhead(l))
  <2>1. Middle(AskAhead(l)) /\ AskAhead(l) \in Loop
    BY AskAheadMiddle DEF Middle
  <2> QED BY <1>1, <1>2, <1>5, <2>1, HoldOverCases, NextSlotIs, AgainIs
<1>6. CASE AskAhead(l).steps # 0 /\ Scheduled(l) = AskAhead(l)
  BY <1>6, AskAheadMiddle DEF Middle, Loop
<1> QED BY <1>1, <1>3, <1>4, <1>5, <1>6, ScheduledCases

(* What a reading that takes no direct command leaves alone.               *)
Plain == answer.ask.seq > 0 => ~Direct

LEMMA ReadKeeps ==
  ASSUME TypeOK, Plain, NEW l \in Loop, NEW m, m = Read(l)
  PROVE  /\ m.ticks = l.ticks /\ m.ref = l.ref /\ m.have = l.have /\ m.steps = l.steps
         /\ m.planSlots = l.planSlots /\ m.cursor = l.cursor /\ m.cmd = l.cmd
         /\ m.active = l.active /\ m.consumed = l.consumed
         /\ m.missed = l.missed /\ m.late = l.late
         /\ m.mode \in {l.mode, "damp"}
<1>1. answer.ask.seq \in Nat
  BY DEF TypeOK, Answer, Ask
<1>2. Noted(l) \in Loop
  BY <1>1 DEF Noted, Loop
<1>3. /\ Noted(l).ticks = l.ticks /\ Noted(l).ref = l.ref /\ Noted(l).have = l.have
      /\ Noted(l).steps = l.steps /\ Noted(l).planSlots = l.planSlots
      /\ Noted(l).cursor = l.cursor /\ Noted(l).cmd = l.cmd
      /\ Noted(l).active = l.active /\ Noted(l).consumed = l.consumed
      /\ Noted(l).missed = l.missed /\ Noted(l).late = l.late
      /\ Noted(l).mode = l.mode
  BY DEF Noted, Loop
<1>4. /\ Held(l).ticks = l.ticks /\ Held(l).ref = l.ref /\ Held(l).have = l.have
      /\ Held(l).steps = l.steps /\ Held(l).planSlots = l.planSlots
      /\ Held(l).cursor = l.cursor /\ Held(l).cmd = l.cmd
      /\ Held(l).active = l.active /\ Held(l).consumed = l.consumed
      /\ Held(l).missed = l.missed /\ Held(l).late = l.late
      /\ Held(l).mode = l.mode
  BY DEF Held, Loop
<1>5. LET d == Damped(Noted(l), "contract")
      IN  /\ d.ticks = l.ticks /\ d.ref = l.ref /\ d.have = l.have /\ d.steps = l.steps
          /\ d.planSlots = l.planSlots /\ d.cursor = l.cursor /\ d.cmd = l.cmd
          /\ d.active = l.active /\ d.consumed = l.consumed
          /\ d.missed = l.missed /\ d.late = l.late /\ d.mode = "damp"
  BY <1>2, <1>3 DEF Damped, Loop
<1>6. answer.ask.seq > l.last => ~Direct
  BY <1>1 DEF Loop, Plain
<1> QED BY <1>3, <1>4, <1>5, <1>6, ReadCases

(* A direct command ends the plan.                                         *)
LEMMA ReadAligned ==
  ASSUME TypeOK, NEW l \in Loop, Aligned(l, 1)
  PROVE  Aligned(Read(l), 1)
<1>1. CASE Plain
  BY <1>1, ReadKeeps DEF Aligned
<1>2. CASE Read(l) = DirectTaken(Noted(l))
  <2>1. Noted(l) \in Loop
    BY DEF Noted, Loop, TypeOK, Answer, Ask
  <2>2. Read(l).planSlots = 0
    BY <1>2, <2>1 DEF DirectTaken, Loop
  <2> QED BY <2>2 DEF Aligned
<1>3. CASE ~Plain /\ Read(l) # DirectTaken(Noted(l))
  <2>1. Read(l) \in {l, Noted(l), Damped(Noted(l), "contract")}
    BY <1>3, ReadCases DEF Plain, Direct
  <2>2. Noted(l) \in Loop
    BY DEF Noted, Loop, TypeOK, Answer, Ask
  <2>3. /\ Noted(l).planSlots = l.planSlots /\ Noted(l).mode = l.mode
        /\ Noted(l).ticks = l.ticks /\ Noted(l).cmd = l.cmd
        /\ Noted(l).cursor = l.cursor /\ Noted(l).steps = l.steps
    BY DEF Noted, Loop
  <2>4. Damped(Noted(l), "contract").mode = "damp"
    BY <2>2, DampedIs
  <2> QED BY <2>1, <2>3, <2>4 DEF Aligned
<1> QED BY <1>1, <1>2, <1>3

LEMMA RequestedIs ==
  ASSUME TypeOK, NEW l \in Loop, NEW m, m = Requested(l)
  PROVE  /\ m.ticks = l.ticks /\ m.ref = l.ref /\ m.have = l.have /\ m.steps = l.steps
         /\ m.planSlots = l.planSlots /\ m.cursor = l.cursor /\ m.cmd = l.cmd
         /\ m.active = l.active /\ m.consumed = l.consumed /\ m.pending = l.pending
         /\ m.missed = l.missed /\ m.late = l.late /\ m.last = l.last
         /\ m.mode = l.mode /\ m.fault = l.fault
BY DEF Requested, Loop

(* The numbers the plan's place in time is made of.                        *)
Place(l) == <<l.planSlots, l.mode, l.ticks, l.cmd, l.cursor, l.steps>>

LEMMA AlignedByPlace ==
  ASSUME NEW l, NEW m, NEW d,
         Place(m) = Place(l) \/ (m.mode = "damp")
  PROVE  Aligned(l, d) => Aligned(m, d)
BY DEF Place, Aligned

LEMMA AlignedAccepted ==
  ASSUME TypeOK, setup.asks, NEW l, Middle(l), Waiting(l), Paced
  PROVE  Aligned(Accepted(l), 1)
<1> DEFINE m == Accepted(l)
           e == Elapsed(l)
           h == setup.hold
           q == e \div h
           rest == e % h
<1>1. /\ l \in Loop /\ m \in Loop /\ e \in Nat /\ h \in Nat /\ h > 0
      /\ setup.slots \in Nat
  BY MiddleIsTimed, ElapsedTyped, AcceptedTyped, Configured DEF Middle, Setup, SetupOK
<1>2. q \in Nat /\ rest \in 0..h - 1 /\ e = q * h + rest
  BY <1>1, Division
<1>3. e = l.ticks - l.pending.ask.tick
  BY DEF Elapsed
<1>4. CASE m = Damped(l, "contract")
  BY <1>1, <1>4, DampedIs DEF Aligned
<1>5. CASE setup.kind # "plan" /\ m # Damped(l, "contract")
  <2>1. m.planSlots = l.planSlots /\ l.planSlots = 0
    BY <1>1, <1>5, AcceptedCases DEF Middle, Shape, Loop
  <2> QED BY <2>1 DEF Aligned
<1>6. CASE setup.kind = "plan" /\ m # Damped(l, "contract")
  <2>1. /\ m.planSlots \in 1..setup.slots /\ m.cmd = l.pending /\ m.ticks = l.ticks
        /\ m.mode = "control"
        /\ IF q >= m.planSlots
           THEN m.cursor = m.planSlots - 1 /\ m.steps = h
           ELSE m.cursor = q /\ m.steps = h - rest
    BY <1>6, AcceptedCases
  <2> SUFFICES Aligned(m, 1)
    OBVIOUS
  <2> HIDE DEF m, e, h, q, rest
  <2>2. m.ticks - m.cmd.ask.tick = e
    BY <1>3, <2>1
  <2>3. CASE q >= m.planSlots
    <3>1. PICK n \in Nat : n = m.planSlots
      BY <1>1, <2>1
    <3>2. q * h >= n * h
      BY <1>1, <1>2, <2>3, <3>1
    <3>3. ~(e + 1 <= n * h)
      BY <1>1, <1>2, <3>2
    <3>4. ~(e + 1 <= m.planSlots * setup.hold)
      BY <3>1, <3>3 DEF h
    <3> QED BY <2>2, <3>4 DEF Aligned
  <2>4. CASE ~(q >= m.planSlots)
    <3>1. m.cursor * h + h - m.steps = e
      BY <1>1, <1>2, <2>1, <2>4
    <3>2. m.cursor * setup.hold + setup.hold - m.steps = e
      BY <3>1 DEF h
    <3> QED BY <2>2, <3>2 DEF Aligned
  <2> QED BY <2>3, <2>4
<1> QED BY <1>4, <1>5, <1>6

LEMMA AlignedHoldOver ==
  ASSUME TypeOK, setup.asks, NEW l, Middle(l), l.mode # "damp", l.have, Paced,
         l.steps = 0, Aligned(l, 1)
  PROVE  Aligned(HoldOver(l), 1)
<1> DEFINE h == setup.hold
           age == l.ticks - l.cmd.ask.tick
<1>1. l \in Loop /\ h \in Nat
  BY Configured DEF Middle, Setup
<1>2. l.planSlots \in Nat /\ l.cursor \in Nat /\ age \in Int
  BY <1>1 DEF Loop, Answer, Ask
<1> HIDE DEF age, h
<1>3. l.planSlots > 0 /\ age + 1 <= l.planSlots * h => l.cursor * h + h = age
  <2>1. l.cursor * h \in Nat
    BY <1>1, <1>2
  <2> QED BY <1>1, <1>2, <2>1 DEF Aligned, age, h
<1>4. CASE l.planSlots # 0 /\ l.cursor + 1 < l.planSlots /\ HoldOver(l) = NextSlot(l)
  <2>1. (l.cursor + 1) * h + h - h = l.cursor * h + h
    BY <1>1, <1>2, OneMore
  <2>2. /\ HoldOver(l).planSlots = l.planSlots /\ HoldOver(l).ticks = l.ticks
        /\ HoldOver(l).cmd = l.cmd /\ HoldOver(l).cursor = l.cursor + 1
        /\ HoldOver(l).steps = h
    BY <1>1, <1>4, NextSlotIs DEF h
  <2> QED BY <1>3, <2>1, <2>2 DEF Aligned, age, h
<1>5. CASE Waiting(l) /\ HoldOver(l) = Accepted(l)
  BY <1>5, AlignedAccepted
<1>6. CASE l.cursor + 1 >= l.planSlots /\ HoldOver(l) = Again(l)
  <2>1. /\ HoldOver(l).planSlots = l.planSlots /\ HoldOver(l).ticks = l.ticks
        /\ HoldOver(l).cmd = l.cmd
    BY <1>1, <1>6, AgainIs
  <2>2. (l.cursor + 1) * h >= l.planSlots * h
    BY <1>1, <1>2, <1>6
  <2>3. l.cursor * h + h >= l.planSlots * h
    BY <1>1, <1>2, <2>2, OneMore
  <2>4. l.planSlots * h \in Nat /\ l.cursor * h \in Nat
    BY <1>1, <1>2
  <2>5. ~(l.planSlots > 0 /\ age + 1 <= l.planSlots * h)
    BY <1>2, <1>3, <2>3, <2>4
  <2> QED BY <2>1, <2>5 DEF Aligned, age, h
<1> QED BY <1>1, <1>4, <1>5, <1>6, HoldOverCases

LEMMA AlignedScheduled ==
  ASSUME TypeOK, setup.asks, Paced, NEW l, Middle(l), l.mode # "damp", Aligned(l, 1)
  PROVE  Aligned(Scheduled(l), 1)
<1>1. l \in Loop /\ Unpaced(l)
  BY MiddleIsTimed DEF Middle
<1>2. Aligned(Requested(l), 1) /\ Aligned(AskAhead(l), 1)
  BY <1>1, RequestedIs DEF Aligned, AskAhead
<1>3. CASE Scheduled(l) = HoldOver(AskAhead(l)) /\ AskAhead(l).steps = 0 /\ l.have
  BY <1>2, <1>3, AskAheadMiddle, AlignedHoldOver
<1> QED BY <1>1, <1>2, <1>3, AlignedAccepted, ScheduledCases

(* What a tick that does not damp did: it read, scheduled, and either had  *)
(* no command to play or played a step of one.                             *)
Played(s) == /\ loop'.ticks = s.ticks + 1 /\ loop'.ref = s.ref /\ loop'.have = s.have
             /\ loop'.planSlots = s.planSlots /\ loop'.cursor = s.cursor
             /\ loop'.cmd = s.cmd /\ loop'.active = s.active
             /\ loop'.pending = s.pending /\ loop'.consumed = s.consumed
             /\ loop'.last = s.last /\ loop'.out = s.out /\ loop'.asks = s.asks
             /\ loop'.missed = s.missed /\ loop'.late = s.late
             /\ loop'.mode = s.mode /\ loop'.fault = s.fault

LEMMA LiveTick ==
  ASSUME Base, Paced, NEW before \in Before, NEW later \in Later,
         Tick(before, later), loop'.mode # "damp",
         NEW l, l = ClockMoved(loop), NEW r, r = Read(l), NEW s, s = Scheduled(r)
  PROVE  /\ Middle(l) /\ Middle(r) /\ Middle(s) /\ Mailed(l)
         /\ r.mode # "damp" /\ s.mode # "damp" /\ Played(s)
         /\ \/ ~s.have /\ loop'.steps = s.steps
            \/ s.have /\ s.steps > 0 /\ loop'.steps = s.steps - 1 /\ ~Unencodable(s)
<1> DEFINE t == OneTick(l, before, later)
<1>1. /\ TypeOK /\ InTick(r, s) /\ Middle(l) /\ Mailed(l) /\ l \in Loop /\ r \in Loop
      /\ s \in Loop
  <2>1. Mailed(loop) /\ Middle(loop) /\ TypeOK
    BY DEF Base, Mailed, MailInv
  <2> QED BY <2>1, TickPhases, ClockMiddle DEF InTick, Middle
<1>2. loop' = [t.loop EXCEPT !.ticks = @ + 1] /\ t.loop \in Loop
  BY TickMiddle DEF Tick, Middle
<1> HIDE DEF t
<1>3. t.loop.mode # "damp"
  BY <1>2, OlderIs
<1>4. /\ r.mode # "damp"
      /\ \/ ~s.have /\ t.loop = Counted(s)
         \/ s.have /\ ~Unencodable(s) /\ t.loop = Stepped(s)
  <2>1. /\ \A why : Damped(l, why).mode = "damp" /\ Damped(s, why).mode = "damp"
        /\ Damped(Counted(s), "absent").mode = "damp"
    BY <1>1, DampedIs DEF Counted, Loop
  <2> QED BY <1>1, <1>3, <2>1, TickCases DEF t
<1>5. Middle(s)
  BY <1>1, <1>4 DEF InTick
<1>6. CASE ~s.have /\ t.loop = Counted(s)
  <2>1. Counted(s).mode = s.mode /\ Counted(s).steps = s.steps
    BY <1>1 DEF Counted, Loop
  <2>2. Played(s)
    BY <1>1, <1>2, <1>6 DEF Played, Counted, Loop
  <2>3. loop'.steps = s.steps
    BY <1>2, <1>6, <2>1, OlderIs
  <2> QED BY <1>1, <1>3, <1>4, <1>5, <1>6, <2>1, <2>2, <2>3 DEF InTick
<1>7. CASE s.have /\ ~Unencodable(s) /\ t.loop = Stepped(s)
  <2>1. Stepped(s).mode = s.mode
    BY <1>1 DEF Stepped, Loop
  <2>2. s.steps > 0
    BY <1>1, <1>3, <1>4, <1>7, <2>1, StepsLeft DEF InTick
  <2>3. Stepped(s).steps = s.steps - 1
    BY <1>1, <2>2 DEF Stepped, Loop
  <2>4. loop'.steps = s.steps - 1
    BY <1>2, <1>7, <2>3, OlderIs
  <2>5. Played(s)
    <3> DEFINE next == Stepped(s)
    <3>1. /\ next.ref = s.ref /\ next.have = s.have /\ next.planSlots = s.planSlots
          /\ next.cursor = s.cursor /\ next.cmd = s.cmd /\ next.active = s.active
          /\ next.pending = s.pending /\ next.consumed = s.consumed
      BY <1>1 DEF Stepped, Loop
    <3>2. /\ next.ticks = s.ticks /\ next.last = s.last /\ next.out = s.out
          /\ next.asks = s.asks /\ next.missed = s.missed /\ next.late = s.late
          /\ next.mode = s.mode /\ next.fault = s.fault
      BY <1>1 DEF Stepped, Loop
    <3>3. loop' = [next EXCEPT !.ticks = next.ticks + 1] /\ next \in Loop
      BY <1>1, <1>2, <1>7
    <3> HIDE DEF next
    <3> QED BY <3>1, <3>2, <3>3, OlderIs DEF Played
  <2> QED BY <1>1, <1>3, <1>4, <1>5, <1>7, <2>1, <2>2, <2>4, <2>5 DEF InTick
<1> QED BY <1>4, <1>6, <1>7

LEMMA AlignedTick ==
  ASSUME Base, setup.asks, Aligned(loop, 0),
         NEW before \in Before, NEW later \in Later, Tick(before, later)
  PROVE  Aligned(loop, 0)'
<1> DEFINE l == ClockMoved(loop)
           r == Read(l)
           s == Scheduled(r)
<1>1. Paced /\ setup' = setup /\ TypeOK /\ loop \in Loop /\ setup.hold \in Nat
  BY Configured DEF Base, SetupOK, Setup, Paced, Tick, Middle
<1>2. CASE loop'.mode = "damp"
  BY <1>2 DEF Aligned
<1>3. CASE loop'.mode # "damp"
  <2>1. /\ Middle(l) /\ Middle(r) /\ Middle(s) /\ Played(s)
        /\ r.mode # "damp" /\ s.mode # "damp"
        /\ \/ ~s.have
           \/ loop'.steps = s.steps - 1
    BY <1>1, <1>3, LiveTick
  <2>2. Aligned(l, 1)
    BY <1>1 DEF Aligned, ClockMoved, Loop, Answer, Ask
  <2> HIDE DEF l
  <2>3. Aligned(r, 1)
    BY <1>1, <2>1, <2>2, ReadAligned DEF Middle
  <2> HIDE DEF r
  <2>4. Aligned(s, 1)
    BY <1>1, <2>1, <2>3, AlignedScheduled
  <2> HIDE DEF s
  <2>5. /\ s.planSlots \in Nat /\ s.cursor \in Nat /\ s.ticks \in Nat /\ s.steps \in Nat
        /\ s.cmd.ask.tick \in Nat /\ s.have \in BOOLEAN
    BY <2>1 DEF Middle, Loop, Answer, Ask
  <2>6. s.planSlots > 0 => s.have
    BY <2>1 DEF Middle, Shape
  <2>7. s.cursor * setup.hold \in Nat /\ s.planSlots * setup.hold \in Nat
    BY <1>1, <2>5
  <2>8. ASSUME s.planSlots > 0, s.ticks + 1 - s.cmd.ask.tick <= s.planSlots * setup.hold
        PROVE  s.cursor * setup.hold + setup.hold - (s.steps - 1)
                 = s.ticks + 1 - s.cmd.ask.tick
    <3>1. (s.ticks - s.cmd.ask.tick) + 1 <= s.planSlots * setup.hold
      BY <2>5, <2>7, <2>8
    <3>2. s.cursor * setup.hold + setup.hold - s.steps = s.ticks - s.cmd.ask.tick
      BY <2>1, <2>4, <2>8, <3>1, Zenon DEF Aligned
    <3>3. PICK c \in Nat : c = s.cursor * setup.hold
      BY <2>7
    <3>4. c + setup.hold - s.steps = s.ticks - s.cmd.ask.tick
      BY <3>2, <3>3, Zenon
    <3>5. setup.hold \in Nat
      BY <1>1
    <3>6. c + setup.hold - (s.steps - 1) = s.ticks + 1 - s.cmd.ask.tick
      BY <2>5, <3>4, <3>5
    <3> QED BY <3>3, <3>6
  <2>9. (loop'.ticks - loop'.cmd.ask.tick) + 0 = s.ticks + 1 - s.cmd.ask.tick
    BY <2>1, <2>5 DEF Played
  <2> QED BY <1>1, <2>1, <2>5, <2>6, <2>8, <2>9 DEF Played, Aligned
<1> QED BY <1>2, <1>3

LEMMA SetupFixed ==
  ASSUME [Next]_vars
  PROVE  setup' = setup
<1>1. CASE \E before \in Before, later \in Later : Tick(before, later)
  BY <1>1 DEF Tick
<1>2. CASE \E pin \in BOOLEAN : Start(pin)
  BY <1>2 DEF Start
<1>3. CASE \E slots \in 0..setup.slots, tag \in Tags : Reply(slots, tag) \/ Push(slots, tag)
  BY <1>3 DEF Reply, Push
<1>4. CASE \/ Handshake \/ HandshakeFails \/ HandshakeTimeout \/ Unpin \/ ThreadEnds \/ Wait \/ Take
           \/ PlannerDies \/ PlannerRestarts \/ UNCHANGED vars
  BY <1>4 DEF Handshake, HandshakeFails, HandshakeTimeout, Unpin, ThreadEnds, Wait, Take, PlannerDies,
              PlannerRestarts, vars
<1> QED BY <1>1, <1>2, <1>3, <1>4 DEF Next

LEMMA AlignedNext ==
  Base /\ (setup.asks => Aligned(loop, 0)) /\ [Next]_vars
    => (setup.asks => Aligned(loop, 0))'
<1> SUFFICES ASSUME Base, setup.asks => Aligned(loop, 0), [Next]_vars, setup'.asks
             PROVE  Aligned(loop, 0)'
  OBVIOUS
<1>1. setup' = setup
  BY SetupFixed
<1>2. setup.asks /\ Aligned(loop, 0) /\ TypeOK /\ Middle(loop) /\ loop \in Loop
  <2>1. setup.asks
    BY <1>1, Zenon
  <2> QED BY <2>1 DEF Base, Middle
<1>3. CASE \E before \in Before, later \in Later : Tick(before, later)
  BY <1>2, <1>3, AlignedTick
<1>4. ASSUME NEW pin \in BOOLEAN, Start(pin) PROVE Aligned(loop, 0)'
  <2>1. loop'.planSlots = 0
    BY <1>2, <1>4, StartIs
  <2> QED BY <2>1 DEF Aligned
<1>5. CASE Handshake
  <2>1. Plain /\ loop' = Read(loop)
    BY <1>5 DEF Handshake, Base, HandshakeInv, Plain, Direct
  <2> QED BY <1>1, <1>2, <2>1, ReadKeeps DEF Aligned
<1>8. CASE HandshakeFails
  <2>1. loop'.mode = "damp"
    BY <1>2, <1>8, DampedIs DEF HandshakeFails
  <2> QED BY <2>1 DEF Aligned
<1>6. CASE ThreadEnds
  <2>1. /\ loop'.planSlots = loop.planSlots /\ loop'.ticks = loop.ticks
        /\ loop'.cmd = loop.cmd /\ loop'.cursor = loop.cursor
        /\ loop'.steps = loop.steps /\ (loop'.mode # "damp" => loop.mode # "damp")
    BY <1>2, <1>6 DEF ThreadEnds, Loop
  <2> QED BY <1>1, <1>2, <2>1 DEF Aligned
<1>7. CASE \/ HandshakeTimeout \/ Unpin \/ Wait \/ Take \/ PlannerDies \/ PlannerRestarts
           \/ \E slots \in 0..setup.slots, tag \in Tags : Reply(slots, tag) \/ Push(slots, tag)
           \/ UNCHANGED vars
  <2>1. UNCHANGED loop
    BY <1>7 DEF HandshakeTimeout, Unpin, Wait, Take, PlannerDies, PlannerRestarts,
                Reply, Push, vars
  <2> QED BY <1>1, <1>2, <2>1 DEF Aligned
<1> QED BY <1>3, <1>4, <1>5, <1>6, <1>7, <1>8 DEF Next

(* Inside its horizon a plan is executed at the tick it was predicted for, *)
(* for any hold, lead and number of slots.                                 *)
THEOREM PlansStayAligned == Spec => []PlanIsAligned
<1>1. Init => (setup.asks => Aligned(loop, 0))
  BY DEF Init, FreshLoop, Aligned
<1>2. Base /\ (setup.asks => Aligned(loop, 0)) => PlanIsAligned
  <2> SUFFICES ASSUME TypeOK, loop \in Loop, setup \in Setup, setup.asks, Aligned(loop, 0),
                      loop.planSlots > 0, loop.mode = "control",
                      loop.ticks - loop.cmd.ask.tick <= loop.planSlots * setup.hold
               PROVE  loop.cursor * setup.hold + setup.hold - loop.steps
                        = loop.ticks - loop.cmd.ask.tick
    BY Configured DEF Base, Middle, PlanIsAligned
  <2>1. (loop.ticks - loop.cmd.ask.tick) + 0 = loop.ticks - loop.cmd.ask.tick
    BY DEF Loop, Answer, Ask
  <2> QED BY <2>1 DEF Aligned
<1> QED BY <1>1, <1>2, BaseInit, BaseNext, AlignedNext, PTL DEF Spec

----------------------------------------------------------------------------
(* Punctuality: the tick of a prompt planner's runtime.                    *)
Prompt == setup.prompt /\ RoomToAsk

LEMMA PromptSetup ==
  ASSUME TypeOK, setup.prompt
  PROVE  /\ setup.asks /\ Paced /\ setup.lead \in Nat /\ setup.lead > 0
         /\ setup.hold \in Nat /\ setup.hold > 0 /\ setup.slots \in Nat /\ setup.slots > 0
         /\ setup.spare \in Nat /\ setup.kind \in {"plan", "chunk", "oracle"}
         /\ setup.lead < setup.slots * setup.hold
         /\ setup.kind # "plan" => setup.slots = 1 /\ setup.lead < setup.hold
<1>1. setup \in Setup /\ SetupOK(setup)
  BY Configured
<1>2. /\ setup.hold \in Nat /\ setup.slots \in Nat /\ setup.lead \in Nat
      /\ setup.spare \in Nat /\ setup.kind \in Kinds
  BY <1>1 DEF Setup
<1>3. setup.lead < setup.hold * setup.slots
  BY <1>1 DEF SetupOK
<1>4. setup.lead < setup.slots * setup.hold
  BY <1>2, <1>3
<1>5. /\ setup.asks /\ setup.lead > 0 /\ setup.hold > 0 /\ setup.slots > 0
      /\ setup.kind # "direct" /\ (setup.kind # "plan" => setup.slots = 1)
  BY <1>1 DEF SetupOK
<1>6. setup.kind # "plan" => setup.lead < setup.hold
  BY <1>2, <1>3, <1>5
<1> QED BY <1>2, <1>4, <1>5, <1>6 DEF Kinds, Paced

(* Two forms of what is left of the command in hand.                       *)
LEMMA RemainingIs ==
  ASSUME TypeOK, NEW l \in Loop
  PROVE  /\ Remaining(l) \in Int
         /\ l.planSlots = 0 => Remaining(l) = l.steps
<1>1. setup.hold \in Nat /\ l.steps \in Nat /\ l.planSlots \in Nat /\ l.cursor \in Nat
  BY Configured DEF Setup, Loop
<1>2. (l.planSlots - 1 - l.cursor) * setup.hold \in Int
  BY <1>1
<1> QED BY <1>1, <1>2 DEF Remaining

(* Punctual when the mailbox was read: a request still out is not due yet. *)
ReadPunctual(l) ==
  /\ ~l.missed /\ ~l.late
  /\ l.mode # "damp" =>
       /\ l.have /\ l.out.seq = 0 /\ ~Waiting(l) => Remaining(l) >= setup.lead
       /\ l.have /\ l.out.seq # 0 =>
            Remaining(l) + l.ticks - l.out.tick = setup.lead /\ Remaining(l) > 0
       /\ l.have /\ Waiting(l) =>
            Remaining(l) + l.ticks - l.pending.ask.tick = setup.lead
       /\ ~l.have /\ setup.kind # "oracle" =>
            /\ l.out.seq # 0 => l.ticks + 1 - l.out.tick <= setup.lead
            /\ Waiting(l) => Elapsed(l) <= setup.lead

LEMMA WholePlain == WholeInv => Plain
BY DEF WholeInv, Plain, Direct

LEMMA PunctualRead ==
  ASSUME Base, setup.prompt, WholeInv, InTime, Punctual(loop, 0),
         NEW l, l = ClockMoved(loop), NEW r, r = Read(l)
  PROVE  ReadPunctual(r)
<1>1. /\ TypeOK /\ setup.asks /\ Paced /\ setup.lead \in Nat /\ setup.prompt
      /\ Middle(loop) /\ MailInv /\ loop \in Loop
  BY PromptSetup DEF Base, Middle
<1>2. /\ l \in Loop /\ l.ticks = loop.ticks /\ l.out = loop.out /\ l.have = loop.have
      /\ l.mode = loop.mode /\ l.steps = loop.steps /\ l.planSlots = loop.planSlots
      /\ l.cursor = loop.cursor /\ l.pending = loop.pending /\ l.consumed = loop.consumed
      /\ l.missed = loop.missed /\ l.late = loop.late /\ l.last = loop.last
  BY <1>1 DEF ClockMoved, Loop
<1> HIDE DEF Base
<1>3. Remaining(l) = Remaining(loop) /\ Waiting(l) = Waiting(loop) /\ Remaining(l) \in Int
  BY <1>1, <1>2, RemainingIs DEF Remaining, Waiting
<1>4. /\ l.out.seq \in Nat /\ l.last \in Nat /\ answer.ask.seq \in Nat /\ l.ticks \in Nat
      /\ l.out.tick \in Nat /\ answer \in Answer
  BY <1>1, <1>2 DEF Loop, Ask, Answer, TypeOK
<1>5. l.mode # "damp" /\ l.out.seq # 0 => l.last < l.out.seq /\ l.out = asked
  BY <1>1, <1>2 DEF Middle, Own, MailInv
<1>15. Plain
  BY WholePlain
<1>6. /\ r.missed = l.missed /\ r.late = l.late /\ r.have = l.have /\ r.ticks = l.ticks
      /\ r.steps = l.steps /\ r.planSlots = l.planSlots /\ r.cursor = l.cursor
      /\ r.consumed = l.consumed /\ r.mode \in {l.mode, "damp"}
  BY <1>1, <1>2, <1>15, ReadKeeps
<1>7. Remaining(r) = Remaining(l)
  BY <1>6 DEF Remaining
<1>8. ~r.missed /\ ~r.late
  BY <1>2, <1>6 DEF Punctual
<1>9. CASE r.mode = "damp"
  BY <1>8, <1>9 DEF ReadPunctual
<1>10. ASSUME l.mode # "damp", r.pending = l.pending, r.out = l.out,
              l.out.seq # 0 => answer.ask.seq # l.out.seq
       PROVE  ReadPunctual(r)
  <2>1. Waiting(r) = Waiting(l)
    BY <1>6, <1>10 DEF Waiting
  <2>2. l.out.seq # 0 => l.ticks - l.out.tick < setup.lead
    BY <1>1, <1>2, <1>10 DEF InTime
  <2> QED BY <1>1, <1>2, <1>3, <1>4, <1>6, <1>7, <1>8, <1>10, <2>1, <2>2 DEF Punctual, ReadPunctual
<1>11. CASE answer.ask.seq <= l.last /\ r = l /\ r.mode # "damp"
  BY <1>4, <1>5, <1>10, <1>11
<1>12. CASE answer.ask.seq < l.out.seq /\ r = Noted(l) /\ r.mode # "damp"
  <2>1. r.pending = l.pending /\ r.out = l.out /\ l.mode # "damp"
    BY <1>2, <1>12 DEF Noted, Loop
  <2> QED BY <1>4, <1>10, <1>12, <2>1
<1>13. CASE /\ answer.ask.seq > l.last /\ answer.ask.seq = l.out.seq
            /\ r = Held(l) /\ r.mode # "damp"
  <2>1. r.pending = answer /\ r.out = NoAsk /\ NoAsk.seq = 0
    BY <1>2, <1>13 DEF Held, Loop, NoAsk
  <2>2. l.mode # "damp" /\ l.out.seq # 0
    BY <1>4, <1>6, <1>13
  <2>3. answer.ask = l.out
    BY <1>1, <1>5, <1>13, <2>2 DEF MailInv
  <2>4. Waiting(r)
    BY <1>1, <1>2, <1>4, <1>6, <1>13, <2>1 DEF Waiting, Middle, Own, Loop
  <2>5. Elapsed(r) = l.ticks - l.out.tick
    BY <1>1, <1>6, <2>1, <2>3 DEF Elapsed
  <2>6. l.have => Remaining(l) + l.ticks - l.out.tick = setup.lead
    BY <1>2, <1>3, <2>2 DEF Punctual
  <2>7. ~l.have /\ setup.kind # "oracle" => l.ticks - l.out.tick <= setup.lead
    BY <1>2, <1>4, <2>2 DEF Punctual
  <2> QED BY <1>6, <1>7, <1>8, <2>1, <2>3, <2>4, <2>5, <2>6, <2>7 DEF ReadPunctual
<1>14. CASE r = Damped(Noted(l), "contract")
  <2>1. Noted(l) \in Loop
    BY <1>2, <1>4 DEF Noted, Loop
  <2> QED BY <1>9, <1>14, <2>1, DampedIs
<1>16. answer.ask.seq > l.last => ~Direct
  BY <1>4, <1>15 DEF Plain
<1> QED BY <1>1, <1>2, <1>9, <1>11, <1>12, <1>13, <1>14, <1>16, ReadCases

(* A reply of that planner, taken within the lead, starts in time and      *)
(* leaves more than the lead to play.                                      *)
LEMMA PunctualAccepted ==
  ASSUME TypeOK, Prompt, NEW l, Middle(l), Waiting(l), ~l.missed, ~l.late,
         l.pending.slots = setup.slots,
         setup.kind # "oracle" => Elapsed(l) <= setup.lead
  PROVE  Punctual(Accepted(l), 1)
<1> DEFINE m == Accepted(l)
           e == Elapsed(l)
           h == setup.hold
           n == setup.slots
           q == e \div h
           rest == e % h
<1>1. /\ Paced /\ setup.asks /\ l \in Loop /\ e \in Nat /\ h \in Nat /\ h > 0 /\ n \in Nat
      /\ n > 0 /\ setup.lead \in Nat /\ setup.lead < n * h
      /\ setup.kind # "plan" => setup.lead < h
      /\ setup.kind = "plan" => n * h > 2 * setup.lead
  BY PromptSetup, MiddleIsTimed, ElapsedTyped DEF Middle, Prompt, RoomToAsk
<1>2. q \in Nat /\ rest \in 0..h - 1 /\ e = q * h + rest
  BY <1>1, Division
<1>3. m.missed = l.missed /\ m.out = l.out /\ l.out.seq = 0 /\ m \in Loop
  BY <1>1, AcceptedCases, AcceptedTyped, MiddleIsTimed DEF Own, Middle
<1>4. CASE m = Damped(l, "contract")
  BY <1>1, <1>4, DampedIs DEF Punctual
<1>5. CASE m # Damped(l, "contract")
  <2>1. m.have /\ m.pending = NoAnswer /\ m.consumed = l.pending.ask.seq
    BY <1>1, <1>5, AcceptedCases
  <2>2. ~Waiting(m)
    BY <1>1, <2>1 DEF Waiting, NoAnswer, NoAsk, Loop, Answer, Ask
  <2>3. m.late = FALSE /\ Remaining(m) >= setup.lead + 1
    <3>1. CASE setup.kind = "plan"
      <4>1. /\ m.planSlots = n
            /\ m.late = (l.late \/ q >= m.planSlots)
            /\ ~(q >= m.planSlots) => m.cursor = q /\ m.steps = h - rest
        BY <1>1, <1>5, <3>1, AcceptedCases
      <4>2. ~(q >= n)
        <5> SUFFICES ASSUME q >= n PROVE FALSE
          OBVIOUS
        <5> HIDE DEF e, h, n, q, rest
        <5>1. q * h >= n * h
          BY <1>1, <1>2
        <5> QED BY <1>1, <1>2, <3>1, <5>1 DEF e
      <4>3. Remaining(m) = (h - rest) + (n - 1 - q) * h
        BY <1>1, <4>1, <4>2 DEF Remaining
      <4>4. (h - rest) + (n - 1 - q) * h = n * h - e
        <5> HIDE DEF e, h, n, q, rest
        <5>1. (n - 1 - q) * h = n * h - h - q * h
          BY <1>1, <1>2
        <5>2. n * h \in Int /\ q * h \in Int
          BY <1>1, <1>2
        <5> QED BY <1>1, <1>2, <5>1, <5>2
      <4>5. n * h - e >= setup.lead + 1
        <5>1. PICK w \in Nat : w = n * h
          BY <1>1
        <5>2. e <= setup.lead
          BY <3>1
        <5> HIDE DEF e, h, n, q, rest
        <5> QED BY <1>1, <3>1, <5>1, <5>2
      <4> QED BY <4>1, <4>2, <4>3, <4>4, <4>5
    <3>2. CASE setup.kind # "plan"
      <4>1. m.planSlots = 0 /\ m.steps = h /\ m.late = l.late
        BY <1>1, <1>5, <3>2, AcceptedCases DEF Middle, Shape, Loop
      <4>2. Remaining(m) = h
        BY <4>1 DEF Remaining
      <4> QED BY <1>1, <3>2, <4>1, <4>2
    <3> QED BY <3>1, <3>2
  <2> HIDE DEF m
  <2>4. Punctual(m, 1)
    BY <1>3, <2>1, <2>2, <2>3 DEF Punctual
  <2> QED BY <2>4 DEF m
<1> QED BY <1>4, <1>5

(* Between asking ahead and the end of a hold.                             *)
Asked(l) ==
  /\ ~l.missed /\ ~l.late /\ l.have
  /\ l.out.seq = 0 /\ ~Waiting(l) => Remaining(l) >= setup.lead + 1
  /\ l.out.seq # 0 =>
       Remaining(l) + l.ticks - l.out.tick = setup.lead /\ Remaining(l) > 0
  /\ Waiting(l) => Remaining(l) + l.ticks - l.pending.ask.tick = setup.lead

LEMMA PunctualAskAhead ==
  ASSUME TypeOK, setup.prompt, NEW l, Middle(l), l.mode # "damp", l.have, ReadPunctual(l)
  PROVE  Asked(AskAhead(l))
<1>1. /\ setup.asks /\ setup.lead \in Nat /\ setup.lead > 0 /\ l \in Loop
      /\ Remaining(l) \in Int /\ l.ticks \in Nat /\ l.asks \in Nat
  BY PromptSetup, RemainingIs DEF Middle, Loop
<1>2. CASE Remaining(l) <= setup.lead /\ ~Waiting(l) /\ l.out.seq = 0
  <2> DEFINE m == Requested(l)
  <2>1. Remaining(l) = setup.lead
    BY <1>1, <1>2 DEF ReadPunctual
  <2>2. m.out.tick = l.ticks /\ m.out.seq = l.asks + 1
    BY <1>1, <1>2 DEF Requested, Loop
  <2>3. /\ m.missed = l.missed /\ m.late = l.late /\ m.have = l.have /\ m.ticks = l.ticks
        /\ m.steps = l.steps /\ m.planSlots = l.planSlots /\ m.cursor = l.cursor
        /\ m.pending = l.pending /\ m.consumed = l.consumed
    <3>1. l \in Loop
      BY <1>1
    <3> QED BY <3>1 DEF Requested, Loop
  <2> HIDE DEF m
  <2>4. Remaining(m) = Remaining(l) /\ Waiting(m) = Waiting(l)
    BY <2>3 DEF Remaining, Waiting
  <2>5. Asked(m)
    BY <1>1, <1>2, <2>1, <2>2, <2>3, <2>4 DEF Asked, ReadPunctual
  <2> QED BY <1>2, <2>5 DEF AskAhead, m
<1>3. CASE ~(Remaining(l) <= setup.lead /\ ~Waiting(l) /\ l.out.seq = 0)
  <2>1. AskAhead(l) = l
    BY <1>3 DEF AskAhead, Requested
  <2> QED BY <1>1, <1>3, <2>1 DEF Asked, ReadPunctual
<1> QED BY <1>2, <1>3

LEMMA PunctualHoldOver ==
  ASSUME TypeOK, Prompt, NEW l, Middle(l), l.mode # "damp", Asked(l), l.steps = 0,
         Waiting(l) => l.pending.slots = setup.slots
  PROVE  Punctual(HoldOver(l), 1)
<1>1. /\ setup.asks /\ Paced /\ setup.lead \in Nat /\ l \in Loop /\ setup.hold \in Nat
      /\ l.planSlots \in Nat /\ l.cursor \in Nat /\ l.ticks \in Nat
      /\ l.pending.ask.tick \in Nat
  BY PromptSetup DEF Middle, Loop, Prompt, Answer, Ask
<1>2. CASE l.planSlots # 0 /\ l.cursor + 1 < l.planSlots /\ HoldOver(l) = NextSlot(l)
  <2> DEFINE m == NextSlot(l)
  <2>1. /\ m.cursor = l.cursor + 1 /\ m.steps = setup.hold /\ m.planSlots = l.planSlots
        /\ m.out = l.out /\ m.ticks = l.ticks /\ m.pending = l.pending
        /\ m.consumed = l.consumed /\ m.late = l.late /\ m.missed = l.missed
        /\ m.have = l.have
    BY <1>1, NextSlotIs
  <2> HIDE DEF m
  <2>2. (l.planSlots - 1 - l.cursor) * setup.hold
          = setup.hold + (l.planSlots - 1 - (l.cursor + 1)) * setup.hold
    BY <1>1
  <2>3. Remaining(m) = Remaining(l)
    BY <1>1, <1>2, <2>1, <2>2 DEF Remaining
  <2>4. Waiting(m) = Waiting(l)
    BY <2>1 DEF Waiting
  <2>5. Punctual(m, 1)
    BY <2>1, <2>3, <2>4 DEF Punctual, Asked
  <2> QED BY <1>2, <2>5 DEF m
<1>3. ASSUME l.cursor + 1 >= l.planSlots PROVE Remaining(l) = 0
  <2>1. CASE l.planSlots = 0
    BY <1>1, <2>1 DEF Remaining
  <2>2. CASE l.planSlots # 0
    <3>1. l.planSlots - 1 - l.cursor = 0
      BY <1>1, <1>3, <2>2 DEF Middle, Shape
    <3>2. Remaining(l) = l.steps + 0 * setup.hold
      BY <2>2, <3>1 DEF Remaining
    <3> QED BY <1>1, <3>2
  <2> QED BY <2>1, <2>2
<1>4. CASE l.cursor + 1 >= l.planSlots /\ Waiting(l) /\ HoldOver(l) = Accepted(l)
  <2>1. Elapsed(l) = setup.lead
    BY <1>1, <1>3, <1>4 DEF Asked, Elapsed
  <2> QED BY <1>1, <1>4, <2>1, PunctualAccepted DEF Asked
<1>5. CASE l.cursor + 1 >= l.planSlots /\ ~Waiting(l)
  BY <1>1, <1>3, <1>5 DEF Asked
<1> QED BY <1>1, <1>2, <1>4, <1>5, HoldOverCases

LEMMA PunctualScheduled ==
  ASSUME TypeOK, Prompt, NEW l, Middle(l), l.mode # "damp", ReadPunctual(l),
         Waiting(l) => l.pending.slots = setup.slots
  PROVE  Punctual(Scheduled(l), 1)
<1>1. /\ setup.asks /\ Paced /\ setup.prompt /\ setup.lead \in Nat /\ setup.lead > 0
      /\ l \in Loop /\ Unpaced(l) /\ l.ticks \in Nat /\ l.asks \in Nat
  BY PromptSetup, MiddleIsTimed DEF Middle, Loop, Prompt
<1>2. CASE ~l.have /\ Waiting(l) /\ Scheduled(l) = Accepted(l)
  BY <1>1, <1>2, PunctualAccepted DEF ReadPunctual
<1>3. CASE ~l.have /\ ~Waiting(l) /\ Scheduled(l) = Requested(l)
  <2> DEFINE m == Requested(l)
  <2>1. /\ m.missed = l.missed /\ m.late = l.late /\ m.have = l.have /\ m.ticks = l.ticks
        /\ m.pending = l.pending /\ m.consumed = l.consumed
    BY <1>1, RequestedIs
  <2>2. l.out.seq = 0 => m.out.tick = l.ticks
    BY <1>1 DEF Requested, Loop
  <2>3. l.out.seq # 0 => m.out = l.out
    BY <1>1 DEF Requested
  <2> HIDE DEF m
  <2>4. Waiting(m) = Waiting(l)
    BY <2>1 DEF Waiting
  <2>5. ~m.missed /\ ~m.late /\ ~m.have /\ ~Waiting(m)
    BY <1>3, <2>1, <2>4 DEF ReadPunctual
  <2>6. setup.kind # "oracle" => m.ticks + 1 - m.out.tick <= setup.lead
    <3>1. CASE l.out.seq = 0
      BY <1>1, <2>1, <2>2, <3>1
    <3>2. CASE l.out.seq # 0
      BY <1>3, <2>1, <2>3, <3>2 DEF ReadPunctual
    <3> QED BY <3>1, <3>2
  <2>7. Punctual(m, 1)
    BY <2>5, <2>6 DEF Punctual
  <2> QED BY <1>3, <2>7 DEF m
<1>4. ASSUME l.have PROVE Asked(AskAhead(l)) /\ Middle(AskAhead(l)) /\ AskAhead(l).mode # "damp"
  BY <1>1, <1>4, PunctualAskAhead, AskAheadMiddle
<1>5. CASE l.have /\ AskAhead(l).steps = 0 /\ Scheduled(l) = HoldOver(AskAhead(l))
  <2>1. Waiting(AskAhead(l)) => AskAhead(l).pending.slots = setup.slots
    BY <1>1, RequestedIs DEF AskAhead, Waiting
  <2> QED BY <1>4, <1>5, <2>1, PunctualHoldOver
<1>6. CASE l.have /\ Scheduled(l) = AskAhead(l)
  BY <1>4, <1>6 DEF Asked, Punctual
<1> QED BY <1>1, <1>2, <1>3, <1>5, <1>6, ScheduledCases

(* What waits after a tick waited before it, or was in the mailbox.        *)
LEMMA ReadPending ==
  ASSUME TypeOK, NEW l \in Loop
  PROVE  Read(l).pending \in {l.pending, answer}
<1>1. Noted(l) \in Loop /\ Noted(l).pending = l.pending
  BY DEF Noted, Loop, TypeOK, Answer, Ask
<1>2. Held(l).pending = answer
  BY DEF Held, Loop
<1>3. DirectTaken(Noted(l)).pending = l.pending
  BY <1>1 DEF DirectTaken, Loop
<1> QED BY <1>1, <1>2, <1>3, ReadCases, DampedIs

LEMMA ScheduledPending ==
  ASSUME TypeOK, Paced, NEW l, Middle(l)
  PROVE  Scheduled(l).pending \in {l.pending, NoAnswer}
<1>1. l \in Loop /\ Unpaced(l)
  BY MiddleIsTimed DEF Middle
<1>2. ASSUME NEW a, Middle(a), Waiting(a) PROVE Accepted(a).pending \in {a.pending, NoAnswer}
  BY <1>2, AcceptedCases, DampedIs DEF Middle
<1>3. Requested(l).pending = l.pending /\ AskAhead(l).pending = l.pending
  BY <1>1, RequestedIs DEF AskAhead
<1>4. CASE Scheduled(l) = HoldOver(AskAhead(l))
  <2>1. Middle(AskAhead(l)) /\ AskAhead(l) \in Loop
    BY AskAheadMiddle DEF Middle
  <2> QED BY <1>2, <1>3, <1>4, <2>1, HoldOverCases, NextSlotIs, AgainIs
<1> QED BY <1>1, <1>2, <1>3, <1>4, ScheduledCases

(* A tick that damps keeps the flags and the reply of its last phase.      *)
EndsAs(m) == /\ loop'.missed = m.missed /\ loop'.late = m.late
             /\ loop'.pending = m.pending /\ loop'.out = m.out
             /\ loop'.last = m.last /\ loop'.asks = m.asks
FaultOf(m) == loop'.fault = m.fault \/ (m.fault = "none" /\ loop'.fault # "contract")

LEMMA DampTick ==
  ASSUME Base, Paced, NEW before \in Before, NEW later \in Later,
         Tick(before, later), loop'.mode = "damp",
         NEW l, l = ClockMoved(loop), NEW r, r = Read(l), NEW s, s = Scheduled(r)
  PROVE  /\ Middle(l) /\ Middle(r)
         /\ \/ EndsAs(l) /\ FaultOf(l)
            \/ EndsAs(r) /\ FaultOf(r)
            \/ /\ r.mode # "damp" /\ Middle(s) /\ EndsAs(s)
               /\ FaultOf(s) \/ (s.have /\ Unencodable(s))
<1> DEFINE t == OneTick(l, before, later)
<1>1. /\ TypeOK /\ InTick(r, s) /\ Middle(l) /\ Mailed(l) /\ l \in Loop /\ r \in Loop
      /\ s \in Loop
  <2>1. Mailed(loop) /\ Middle(loop) /\ TypeOK
    BY DEF Base, Mailed, MailInv
  <2> QED BY <2>1, TickPhases, ClockMiddle DEF InTick, Middle
<1>2. loop' = [t.loop EXCEPT !.ticks = @ + 1] /\ t.loop \in Loop
  BY TickMiddle DEF Tick, Middle
<1> HIDE DEF t
<1>3. /\ loop'.missed = t.loop.missed /\ loop'.late = t.loop.late
      /\ loop'.pending = t.loop.pending /\ loop'.out = t.loop.out
      /\ loop'.last = t.loop.last /\ loop'.asks = t.loop.asks
      /\ loop'.fault = t.loop.fault
  BY <1>2, OlderIs
<1>4. Middle(r) /\ (r.mode # "damp" => Middle(s))
  BY <1>1 DEF InTick
<1>5. ASSUME NEW m \in Loop, NEW why, t.loop = Damped(m, why)
      PROVE  EndsAs(m) /\ (why # "contract" => FaultOf(m))
  BY <1>3, <1>5, DampedIs DEF EndsAs, FaultOf
<1>6. /\ Counted(s) \in Loop /\ Counted(s).missed = s.missed /\ Counted(s).late = s.late
      /\ Counted(s).pending = s.pending /\ Counted(s).fault = s.fault
      /\ Counted(s).out = s.out /\ Counted(s).last = s.last /\ Counted(s).asks = s.asks
  BY <1>1 DEF Counted, Loop
<1>7. /\ Stepped(s).missed = s.missed /\ Stepped(s).late = s.late
      /\ Stepped(s).pending = s.pending /\ Stepped(s).fault = s.fault
      /\ Stepped(s).out = s.out /\ Stepped(s).last = s.last /\ Stepped(s).asks = s.asks
  BY <1>1 DEF Stepped, Loop
<1>8. CASE t.loop \in {Damped(l, "state"), Damped(l, "mailbox")}
  BY <1>1, <1>4, <1>5, <1>8
<1>9. CASE r.mode = "damp" /\ t.loop = r
  BY <1>1, <1>3, <1>4, <1>9 DEF EndsAs, FaultOf
<1>10. CASE r.mode # "damp" /\ t.loop = Damped(Counted(s), "absent")
  <2>1. EndsAs(s) /\ FaultOf(s)
    BY <1>3, <1>6, <1>10, DampedIs DEF EndsAs, FaultOf
  <2> QED BY <1>1, <1>4, <1>10, <2>1
<1>11. CASE r.mode # "damp" /\ t.loop \in {Counted(s), Stepped(s)}
  <2>1. EndsAs(s) /\ FaultOf(s)
    BY <1>3, <1>6, <1>7, <1>11 DEF EndsAs, FaultOf
  <2> QED BY <1>1, <1>4, <1>11, <2>1
<1>12. CASE r.mode # "damp" /\ s.have
              /\ \E why \in Whys :
                   t.loop = Damped(s, why) /\ (why = "contract" => Unencodable(s))
  <2>1. EndsAs(s) /\ (FaultOf(s) \/ Unencodable(s))
    BY <1>1, <1>5, <1>12
  <2> QED BY <1>1, <1>4, <1>12, <2>1
<1> QED BY <1>1, <1>8, <1>9, <1>10, <1>11, <1>12, TickCases DEF t

(* Who may leave these three predicates' state and the mailbox changed.    *)
LEMMA WholeTick ==
  ASSUME Base, setup.prompt, WholeInv,
         NEW before \in Before, NEW later \in Later, Tick(before, later)
  PROVE  loop'.pending \in {loop.pending, answer, NoAnswer}
<1> DEFINE l == ClockMoved(loop)
           r == Read(l)
           s == Scheduled(r)
<1>1. Paced /\ TypeOK /\ loop \in Loop
  BY PromptSetup DEF Base, Middle
<1>2. l \in Loop /\ l.pending = loop.pending
  BY <1>1 DEF ClockMoved, Loop
<1>3. r.pending \in {loop.pending, answer}
  BY <1>1, <1>2, ReadPending
<1>4. Middle(r) => s.pending \in {r.pending, NoAnswer}
  BY <1>1, ScheduledPending
<1> HIDE DEF l, r, s
<1>5. CASE loop'.mode # "damp"
  <2>1. Middle(r) /\ loop'.pending = s.pending
    BY <1>1, <1>5, LiveTick DEF l, r, s, Played
  <2> QED BY <1>3, <1>4, <2>1
<1>6. CASE loop'.mode = "damp"
  <2>1. Middle(r) /\ loop'.pending \in {l.pending, r.pending, s.pending}
    BY <1>1, <1>6, DampTick DEF l, r, s, EndsAs
  <2> QED BY <1>2, <1>3, <1>4, <2>1
<1> QED BY <1>5, <1>6

LEMMA PunctualTick ==
  ASSUME Base, Prompt, WholeInv, Punctual(loop, 0),
         NEW before \in Before, NEW later \in Later, Tick(before, later)
  PROVE  Punctual(loop, 0)'
<1> DEFINE l == ClockMoved(loop)
           r == Read(l)
           s == Scheduled(r)
<1>1. /\ Paced /\ TypeOK /\ loop \in Loop /\ setup.prompt /\ setup.lead \in Nat
      /\ setup' = setup /\ InTime /\ setup.hold \in Nat
  BY PromptSetup DEF Base, Middle, Prompt, Tick
<1>2. l \in Loop /\ l.missed = loop.missed /\ l.late = loop.late /\ l.pending = loop.pending
        /\ ~loop.missed /\ ~loop.late
  BY <1>1 DEF ClockMoved, Loop, Punctual
<1>3. ReadPunctual(r)
  BY <1>1, PunctualRead
<1>4. ASSUME r.mode # "damp", Middle(r) PROVE Punctual(s, 1)
  <2>1. Waiting(r) => r.pending.slots = setup.slots
    <3>1. r.pending \in {loop.pending, answer}
      BY <1>1, <1>2, ReadPending
    <3>2. r.pending.ask.seq \in Nat /\ r.consumed \in Nat
      BY <1>4 DEF Middle, Loop, Answer, Ask
    <3> QED BY <3>1, <3>2 DEF WholeInv, Waiting
  <2> QED BY <1>1, <1>3, <1>4, <2>1, PunctualScheduled
<1> HIDE DEF l, r, s
<1>5. CASE loop'.mode = "damp"
  <2>1. ~loop'.missed /\ ~loop'.late
    BY <1>1, <1>2, <1>3, <1>4, <1>5, DampTick
       DEF l, r, s, EndsAs, ReadPunctual, Punctual
  <2> QED BY <1>5, <2>1 DEF Punctual
<1>6. CASE loop'.mode # "damp"
  <2>1. /\ Middle(r) /\ Middle(s) /\ r.mode # "damp" /\ s.mode # "damp" /\ Played(s)
        /\ \/ ~s.have /\ loop'.steps = s.steps
           \/ s.have /\ loop'.steps = s.steps - 1
    BY <1>1, <1>6, LiveTick DEF l, r, s
  <2>2. Punctual(s, 1)
    BY <1>4, <2>1
  <2>3. /\ s \in Loop /\ s.ticks \in Nat /\ s.out.tick \in Nat /\ s.pending.ask.tick \in Nat
        /\ s.steps \in Nat /\ s.planSlots \in Nat /\ s.cursor \in Nat
    BY <2>1 DEF Middle, Loop, Answer, Ask
  <2>4. Waiting(loop)' = Waiting(s)
    BY <2>1 DEF Waiting, Played
  <2>5. s.have => Remaining(loop)' = Remaining(s) - 1
    <3>1. (s.planSlots - 1 - s.cursor) * setup.hold \in Int
      BY <1>1, <2>3
    <3> QED BY <1>1, <2>1, <2>3, <3>1 DEF Remaining, Played
  <2>6. Remaining(s) \in Int
    BY <1>1, <2>3, RemainingIs
  <2>7. CASE s.have
    BY <1>1, <2>1, <2>2, <2>3, <2>4, <2>5, <2>6, <2>7 DEF Punctual, Played
  <2>8. CASE ~s.have
    BY <1>1, <2>1, <2>2, <2>3, <2>4, <2>8 DEF Punctual, Played
  <2> QED BY <2>7, <2>8
<1> QED BY <1>5, <1>6

----------------------------------------------------------------------------
(* The reference block of a prompt oracle.                                 *)
Oracle == setup.prompt /\ RoomToAsk /\ setup.kind = "oracle"

LEMMA FedClock ==
  ASSUME TypeOK, loop \in Loop, Fed(loop, 1), NEW l, l = ClockMoved(loop), setup.lead \in Nat,
         setup.hold \in Nat
  PROVE  Fed(l, 0)
<1>1. /\ l.ticks = loop.ticks /\ l.out = loop.out /\ l.have = loop.have /\ l.mode = loop.mode
      /\ l.steps = loop.steps /\ l.pending = loop.pending /\ l.consumed = loop.consumed
      /\ l.last = loop.last /\ l.asks = loop.asks /\ l.fault = loop.fault
      /\ l.active = loop.active
      /\ l.ref = IF loop.ticks > 0 /\ ~pinned THEN loop.ref + 1 ELSE loop.ref
  BY DEF ClockMoved, Loop
<1>2. /\ loop.ref \in Nat /\ loop.steps \in Nat /\ loop.active \in Nat /\ loop.ticks \in Nat
      /\ loop.out.ref \in Nat /\ loop.pending.ask.ref \in Nat
  BY DEF Loop, Ask, Answer
<1>3. Waiting(l) = Waiting(loop)
  BY <1>1 DEF Waiting
<1>4. ASSUME l.mode # "damp", ~l.have
      PROVE  /\ l.ticks = 0 /\ l.ref = 0 /\ (l.out.seq # 0 => l.out.ref = 0)
             /\ Waiting(l) => l.pending.ask.ref = 0
  BY <1>1, <1>2, <1>3, <1>4 DEF Fed
<1>5. ASSUME l.mode # "damp", l.have
      PROVE  /\ l.ticks > 0 \/ 0 = 0
             /\ l.active <= l.ref
             /\ l.ref + 0 + l.steps <= l.active + setup.lead + setup.hold
             /\ l.out.seq # 0 => Due(l, l.out.ref, 0)
             /\ Waiting(l) => Due(l, l.pending.ask.ref, 0)
             /\ pinned => /\ l.ref = 0 /\ l.active = 0
                          /\ l.out.seq # 0 => l.out.ref = 0
                          /\ Waiting(l) => l.pending.ask.ref = 0
  <2>1. /\ loop.mode # "damp" /\ loop.have /\ loop.ticks > 0 /\ loop.active <= loop.ref
        /\ loop.ref + 1 + loop.steps <= loop.active + setup.lead + setup.hold
        /\ loop.out.seq # 0 => Due(loop, loop.out.ref, 1)
        /\ Waiting(loop) => Due(loop, loop.pending.ask.ref, 1)
    BY <1>1, <1>2, <1>5 DEF Fed
  <2>2. ASSUME pinned
        PROVE  /\ l.ref = loop.ref /\ loop.ref = 0 /\ loop.active = 0
               /\ l.out.seq # 0 => l.out.ref = 0
               /\ Waiting(l) => l.pending.ask.ref = 0
    <3>1. /\ loop.ref = 0 /\ loop.active = 0
          /\ loop.out.seq # 0 => loop.out.ref = 0
          /\ Waiting(loop) => loop.pending.ask.ref = 0
      BY <2>1, <2>2 DEF Fed
    <3> QED BY <1>1, <1>3, <2>2, <3>1
  <2>3. ~pinned => l.ref = loop.ref + 1
    BY <1>1, <2>1
  <2>4. l.active <= l.ref /\ l.ref + 0 + l.steps <= l.active + setup.lead + setup.hold
    BY <1>1, <1>2, <2>1, <2>2, <2>3
  <2>5. l.out.seq # 0 => Due(l, l.out.ref, 0)
    BY <1>1, <1>2, <2>1, <2>2, <2>3 DEF Due
  <2>6. Waiting(l) => Due(l, l.pending.ask.ref, 0)
    <3>1. /\ Waiting(l) => Due(loop, loop.pending.ask.ref, 1)
          /\ l.pending.ask.ref = loop.pending.ask.ref /\ l.steps = loop.steps
      BY <1>1, <1>3, <2>1
    <3>2. CASE pinned
      <4>1. l.ref = 0 /\ loop.ref = 0 /\ (Waiting(l) => l.pending.ask.ref = 0)
        BY <2>2, <3>2
      <4> QED BY <1>2, <3>1, <4>1 DEF Due
    <3>3. CASE ~pinned
      BY <1>2, <2>3, <3>1, <3>3 DEF Due
    <3> QED BY <3>2, <3>3
  <2> QED BY <1>1, <2>2, <2>4, <2>5, <2>6
<1>6. l.fault # "contract" /\ (l.out.seq = 0 => l.last = l.asks)
  BY <1>1 DEF Fed
<1>7. l.mode # "damp" /\ ~l.have =>
        /\ l.ticks = 0 /\ l.ref = 0 /\ (l.out.seq # 0 => l.out.ref = 0)
        /\ Waiting(l) => l.pending.ask.ref = 0
  BY <1>4, Zenon
<1>8. l.mode # "damp" /\ l.have =>
        /\ l.ticks > 0 \/ 0 = 0
        /\ l.active <= l.ref
        /\ l.ref + 0 + l.steps <= l.active + setup.lead + setup.hold
        /\ l.out.seq # 0 => Due(l, l.out.ref, 0)
        /\ Waiting(l) => Due(l, l.pending.ask.ref, 0)
        /\ pinned => /\ l.ref = 0 /\ l.active = 0
                     /\ l.out.seq # 0 => l.out.ref = 0
                     /\ Waiting(l) => l.pending.ask.ref = 0
  BY <1>5, Zenon
<1> QED BY <1>6, <1>7, <1>8, Zenon DEF Fed

LEMMA FedRead ==
  ASSUME TypeOK, setup.asks => MailInv, Oracle, WholeInv, NEW d \in {0, 1}, NEW l, Middle(l),
         Mailed(l), Fed(l, d), NEW r, r = Read(l)
  PROVE  /\ Fed(r, d) /\ r.mode = l.mode /\ (Waiting(l) => Waiting(r))
         /\ answer.ask.seq > l.last => r.out.seq # 0 \/ Waiting(r)
<1>1. /\ setup.asks /\ Paced /\ setup.prompt /\ l \in Loop /\ MailInv
      /\ answer \in Answer /\ answer.ask.seq \in Nat /\ l.last \in Nat
      /\ l.out.seq \in Nat /\ l.asks \in Nat /\ l.consumed \in Nat
  <2>1. setup.prompt /\ setup.asks /\ Paced /\ MailInv /\ l \in Loop
    BY PromptSetup DEF Middle, Oracle
  <2> QED BY <2>1 DEF TypeOK, Answer, Ask, Loop
<1>2. /\ r.ticks = l.ticks /\ r.ref = l.ref /\ r.have = l.have /\ r.steps = l.steps
      /\ r.active = l.active /\ r.consumed = l.consumed
  BY <1>1, WholePlain, ReadKeeps
<1>3. CASE answer.ask.seq <= l.last /\ r = l
  BY <1>1, <1>3
<1>4. CASE answer.ask.seq > l.last /\ answer.ask.seq < l.out.seq /\ r = Noted(l)
  <2>1. /\ r.mode = l.mode /\ r.fault = l.fault /\ r.out = l.out /\ r.pending = l.pending
    BY <1>1, <1>4 DEF Noted, Loop
  <2>2. Waiting(r) = Waiting(l) /\ r.out.seq # 0
    BY <1>1, <1>2, <1>4, <2>1 DEF Waiting
  <2>3. Fed(r, d)
    BY <1>2, <2>1, <2>2 DEF Fed, Due
  <2> QED BY <2>1, <2>2, <2>3
<1>5. CASE /\ answer.ask.seq > l.last
           /\ answer.ask.seq > l.out.seq \/ (answer.ask.seq = l.out.seq /\ answer.tag # "own")
  <2>1. answer.tag = "own" /\ answer.ask.seq <= l.asks
    BY <1>1, <1>5 DEF WholeInv, MailInv, Mailed
  <2>2. l.out.seq = 0 => l.last = l.asks
    BY DEF Fed
  <2>3. l.out.seq # 0 => l.out.seq = l.asks
    BY <1>1 DEF Middle, Own
  <2> QED BY <1>1, <1>5, <2>1, <2>2, <2>3
<1>6. CASE answer.ask.seq > l.last /\ answer.ask.seq = l.out.seq /\ r = Held(l)
  <2>1. /\ r.mode = l.mode /\ r.fault = l.fault /\ r.out = NoAsk /\ r.pending = answer
        /\ r.last = answer.ask.seq /\ r.asks = l.asks /\ NoAsk.seq = 0
    BY <1>1, <1>6 DEF Held, Loop, NoAsk
  <2>2. answer.ask = l.out /\ l.out.seq = l.asks /\ l.consumed <= l.last /\ l.out.seq # 0
    BY <1>1, <1>6 DEF MailInv, Mailed, Middle, Own
  <2>3. Waiting(r)
    BY <1>1, <1>2, <1>6, <2>1, <2>2 DEF Waiting
  <2>4. Fed(r, d)
    BY <1>2, <2>1, <2>2, <2>3 DEF Fed, Due
  <2> QED BY <2>1, <2>3, <2>4
<1>7. ~Direct
  BY DEF Direct, Oracle
<1> QED BY <1>1, <1>3, <1>4, <1>5, <1>6, <1>7, ReadCases

LEMMA FedAccepted ==
  ASSUME TypeOK, Oracle, NEW l, Middle(l), Waiting(l), l.pending.slots = setup.slots,
         l.fault # "contract", l.out.seq = 0 => l.last = l.asks,
         l.pending.ask.ref <= l.ref, l.ref <= l.pending.ask.ref + setup.lead,
         pinned => l.ref = 0
  PROVE  Fed(Accepted(l), 0) /\ Accepted(l).mode = "control" /\ Accepted(l).have
<1> DEFINE m == Accepted(l)
<1>1. /\ setup.asks /\ Paced /\ setup.prompt /\ l \in Loop /\ setup.lead \in Nat
      /\ setup.hold \in Nat /\ setup.hold > 0 /\ setup.spare \in Nat /\ setup.slots > 0
      /\ setup.slots \in Nat /\ setup.spare + 1 >= setup.lead + setup.hold
      /\ setup.kind = "oracle"
  <2>1. setup.prompt /\ setup.kind = "oracle"
    BY DEF Oracle
  <2>2. setup.spare + 1 >= setup.lead + setup.hold
    BY <2>1 DEF Oracle, RoomToAsk
  <2>3. l \in Loop
    BY DEF Middle
  <2> QED BY <2>1, <2>2, <2>3, PromptSetup
<1>2. l.ref \in Nat /\ l.pending.ask.ref \in Nat
  BY <1>1 DEF Loop, Answer, Ask
<1>3. ~(Offset(l, l.pending.ask.ref) > setup.spare)
  BY <1>1, <1>2 DEF Offset
<1>4. m = [Taken(l) EXCEPT !.steps = setup.hold, !.active = l.pending.ask.ref]
  BY <1>1, <1>3 DEF Accepted, ReferenceAccepted
<1>5. m.mode = "control" /\ m # Damped(l, "contract")
  <2>1. Taken(l) \in Loop /\ Taken(l).mode = "control"
    BY <1>1, TakenTyped DEF Taken, Loop
  <2>2. m.mode = "control"
    BY <1>4, <2>1 DEF Loop
  <2>3. Damped(l, "contract").mode = "damp"
    BY <1>1, DampedIs
  <2> QED BY <2>2, <2>3
<1>6. /\ m.steps = setup.hold /\ m.active = l.pending.ask.ref /\ m.ref = l.ref
      /\ m.fault = l.fault /\ m.out = l.out /\ m.last = l.last /\ m.asks = l.asks
      /\ m.have /\ m.pending = NoAnswer /\ m.consumed = l.pending.ask.seq
  BY <1>1, <1>5, AcceptedCases
<1> HIDE DEF m
<1>7. ~Waiting(m) /\ m.out.seq = 0
  BY <1>1, <1>6 DEF Waiting, NoAnswer, NoAsk, Loop, Answer, Ask, Middle, Own
<1>8. Fed(m, 0)
  BY <1>1, <1>2, <1>5, <1>6, <1>7 DEF Fed
<1> QED BY <1>5, <1>6, <1>8 DEF m

LEMMA FedAskAhead ==
  ASSUME TypeOK, Oracle, NEW l, Middle(l), Fed(l, 0), l.mode # "damp", l.have,
         NEW a, a = AskAhead(l)
  PROVE  Fed(a, 0)
<1>1. /\ setup.asks /\ l \in Loop /\ setup.lead \in Nat /\ l.ref \in Nat /\ l.steps \in Nat
      /\ l.planSlots \in Nat
  <2>1. setup.prompt /\ l \in Loop
    BY DEF Oracle, Middle
  <2> QED BY <2>1, PromptSetup DEF Loop
<1>2. CASE a = l
  BY <1>2
<1>3. CASE Remaining(l) <= setup.lead /\ ~Waiting(l) /\ l.out.seq = 0 /\ a = Requested(l)
  <2>1. l.planSlots = 0
    BY <1>1 DEF Middle, Shape, Oracle
  <2>2. l.steps <= setup.lead
    BY <1>1, <1>3, <2>1, RemainingIs
  <2>3. /\ a.out.ref = (IF ~pinned THEN l.ref + l.steps ELSE l.ref)
        /\ a.out.seq = l.asks + 1
    BY <1>1, <1>3 DEF Requested, Loop
  <2>4. /\ a.ticks = l.ticks /\ a.ref = l.ref /\ a.have = l.have /\ a.steps = l.steps
        /\ a.active = l.active /\ a.consumed = l.consumed /\ a.pending = l.pending
        /\ a.mode = l.mode /\ a.fault = l.fault
    <3>1. PICK ask : a = [l EXCEPT !.asks = l.asks + 1, !.out = ask]
      BY <1>1, <1>3 DEF Requested
    <3> QED BY <1>1, <3>1 DEF Loop
  <2>5. ~Waiting(a) /\ a.out.seq # 0
    BY <1>1, <1>3, <2>3, <2>4 DEF Waiting, Loop
  <2>6. Due(a, a.out.ref, 0) /\ (pinned => a.out.ref = 0)
    <3>1. pinned => l.ref = 0
      BY DEF Fed
    <3> QED BY <1>1, <2>2, <2>3, <2>4, <3>1 DEF Due
  <2>7. /\ l.fault # "contract" /\ l.active <= l.ref
        /\ l.ref + 0 + l.steps <= l.active + setup.lead + setup.hold
        /\ pinned => l.ref = 0 /\ l.active = 0
    BY DEF Fed
  <2> QED BY <2>4, <2>5, <2>6, <2>7 DEF Fed
<1> QED BY <1>1, <1>2, <1>3 DEF AskAhead, Requested

LEMMA FedScheduled ==
  ASSUME TypeOK, Oracle, NEW l, Middle(l), Fed(l, 0), l.mode # "damp", ReadPunctual(l),
         l.have \/ Waiting(l), Waiting(l) => l.pending.slots = setup.slots,
         NEW s, s = Scheduled(l)
  PROVE  Fed(s, 0) /\ s.mode # "damp" /\ s.have /\ ~Unencodable(s)
<1>1. /\ setup.asks /\ Paced /\ Prompt /\ setup.lead \in Nat /\ setup.hold \in Nat
      /\ setup.spare \in Nat /\ setup.spare + 1 >= setup.lead + setup.hold
      /\ l \in Loop /\ Unpaced(l)
  <2>1. setup.prompt /\ Prompt
    BY DEF Oracle, Prompt
  <2>2. setup.spare + 1 >= setup.lead + setup.hold
    BY DEF Oracle, RoomToAsk
  <2> QED BY <2>1, <2>2, PromptSetup, MiddleIsTimed DEF Middle
<1>2. ASSUME ~l.have /\ Waiting(l) /\ s = Accepted(l)
      PROVE  Fed(s, 0) /\ s.mode # "damp" /\ s.have
  <2>1. l.ref = 0 /\ l.pending.ask.ref = 0
    BY <1>2 DEF Fed
  <2>2. Fed(s, 0) /\ s.mode = "control" /\ s.have
    BY <1>1, <1>2, <2>1, FedAccepted DEF Fed
  <2> QED BY <2>2
<1>3. ASSUME l.have
      PROVE  /\ Fed(AskAhead(l), 0) /\ Middle(AskAhead(l)) /\ Asked(AskAhead(l))
             /\ AskAhead(l).mode = l.mode /\ AskAhead(l).have = l.have
             /\ AskAhead(l).pending = l.pending /\ Waiting(AskAhead(l)) = Waiting(l)
  <2>1. setup.prompt
    BY DEF Oracle
  <2>2. /\ AskAhead(l).pending = l.pending
        /\ AskAhead(l).consumed = l.consumed
    BY <1>1, RequestedIs DEF AskAhead
  <2> QED BY <1>1, <1>3, <2>1, <2>2, FedAskAhead, AskAheadMiddle, PunctualAskAhead DEF Waiting
<1>4. ASSUME l.have /\ AskAhead(l).steps = 0 /\ s = HoldOver(AskAhead(l))
      PROVE  Fed(s, 0) /\ s.mode # "damp" /\ s.have
  <2> DEFINE a == AskAhead(l)
  <2>1. /\ Fed(a, 0) /\ Middle(a) /\ Asked(a) /\ a.mode # "damp" /\ a.have /\ a \in Loop
        /\ Waiting(a) => a.pending.slots = setup.slots
    BY <1>3, <1>4 DEF Middle
  <2>2. a.steps = 0 /\ s = HoldOver(a)
    BY <1>4
  <2> HIDE DEF a
  <2>3. ~s.missed
    BY <1>1, <2>1, <2>2, PunctualHoldOver DEF Punctual
  <2>4. a.planSlots = 0 /\ a.cursor \in Nat /\ a.ref \in Nat /\ a.pending.ask.ref \in Nat
    BY <2>1 DEF Middle, Shape, Loop, Oracle, Answer, Ask
  <2>5. Waiting(a) /\ s = Accepted(a)
    BY <2>1, <2>2, <2>3, <2>4, HoldOverCases, AgainIs
  <2>6. Due(a, a.pending.ask.ref, 0) /\ (pinned => a.ref = 0)
    BY <2>1, <2>5 DEF Fed
  <2>7. a.pending.ask.ref <= a.ref /\ a.ref <= a.pending.ask.ref + setup.lead
    BY <1>1, <2>2, <2>4, <2>6 DEF Due
  <2>8. Fed(s, 0) /\ s.mode = "control" /\ s.have
    <3>1. a.fault # "contract" /\ (a.out.seq = 0 => a.last = a.asks)
      BY <2>1 DEF Fed
    <3> QED BY <1>1, <2>1, <2>5, <2>6, <2>7, <3>1, FedAccepted
  <2> QED BY <2>8
<1>5. ASSUME l.have /\ s = AskAhead(l)
      PROVE  Fed(s, 0) /\ s.mode # "damp" /\ s.have
  BY <1>3, <1>5
<1>6. Fed(s, 0) /\ s.mode # "damp" /\ s.have
  BY <1>1, <1>2, <1>4, <1>5, ScheduledCases
<1>7. ~Unencodable(s)
  <2>1. s \in Loop /\ s.steps > 0
    BY <1>1, <1>6, StepsLeft, ScheduledMiddle DEF Middle
  <2>2. s.ref \in Nat /\ s.active \in Nat /\ s.steps \in Nat
    BY <2>1 DEF Loop
  <2>3. s.active <= s.ref /\ s.ref + 0 + s.steps <= s.active + setup.lead + setup.hold
    BY <1>6 DEF Fed
  <2> QED BY <1>1, <2>1, <2>2, <2>3 DEF Unencodable, Offset
<1> QED BY <1>6, <1>7

LEMMA FedTick ==
  ASSUME Base, Oracle, WholeInv, Punctual(loop, 0), FedInv,
         NEW before \in Before, NEW later \in Later, Tick(before, later)
  PROVE  FedInv'
<1> DEFINE l == ClockMoved(loop)
           r == Read(l)
           s == Scheduled(r)
<1>1. /\ Paced /\ TypeOK /\ loop \in Loop /\ setup.prompt /\ setup.asks /\ MailInv
      /\ setup' = setup /\ pinned' = pinned /\ InTime /\ phase = "up"
      /\ setup.lead \in Nat /\ setup.hold \in Nat /\ Mailed(loop) /\ Middle(loop)
  <2>1. setup.prompt /\ TypeOK /\ Middle(loop)
    BY DEF Oracle, Base
  <2>2. setup.asks /\ Paced /\ setup.lead \in Nat /\ setup.hold \in Nat
    BY <2>1, PromptSetup
  <2> QED BY <2>1, <2>2 DEF Base, Middle, Tick, Mailed, MailInv
<1>2. /\ l \in Loop /\ Middle(l) /\ Mailed(l) /\ Fed(l, 0) /\ l.mode = loop.mode
      /\ l.have = loop.have /\ l.pending = loop.pending /\ Waiting(l) = Waiting(loop)
  <2>1. /\ l.mode = loop.mode /\ l.have = loop.have /\ l.pending = loop.pending
        /\ l.consumed = loop.consumed
    BY <1>1 DEF ClockMoved, Loop
  <2>2. Fed(l, 0)
    BY <1>1, FedClock DEF FedInv
  <2> QED BY <1>1, <2>1, <2>2, ClockMiddle, ClockTyped DEF Waiting
<1>3. ReadPunctual(r)
  BY <1>1, PunctualRead
<1>4. r.pending \in {loop.pending, answer} /\ r.have = l.have
  BY <1>1, <1>2, WholePlain, ReadPending, ReadKeeps
<1>5. Middle(r) /\ Fed(r, 0) /\ r.mode = l.mode /\ (Waiting(l) => Waiting(r))
  <2> HIDE DEF l
  <2> QED BY <1>1, <1>2, FedRead, ReadMiddle
<1>6. Waiting(r) => r.pending.slots = setup.slots
  <2>1. r.pending.ask.seq \in Nat /\ r.consumed \in Nat
    BY <1>5 DEF Middle, Loop, Answer, Ask
  <2> QED BY <1>4, <2>1 DEF WholeInv, Waiting
<1>7. r.mode # "damp" => r.have \/ Waiting(r)
  BY <1>1, <1>2, <1>4, <1>5 DEF FedInv
<1>8. ASSUME r.mode # "damp" PROVE Fed(s, 0) /\ s.have /\ ~Unencodable(s)
  <2> HIDE DEF r
  <2> QED BY <1>1, <1>3, <1>5, <1>6, <1>7, <1>8, FedScheduled
<1> HIDE DEF l, r, s
<1>9. CASE loop'.mode = "damp"
  <2>1. \/ EndsAs(l) /\ FaultOf(l)
        \/ EndsAs(r) /\ FaultOf(r)
        \/ r.mode # "damp" /\ EndsAs(s) /\ (FaultOf(s) \/ Unencodable(s))
    BY <1>1, <1>9, DampTick DEF l, r, s
  <2>2. loop'.fault # "contract" /\ (loop'.out.seq = 0 => loop'.last = loop'.asks)
    BY <1>2, <1>5, <1>8, <2>1 DEF EndsAs, FaultOf, Fed
  <2> QED BY <1>9, <2>2 DEF FedInv, Fed
<1>10. CASE loop'.mode # "damp"
  <2>1. /\ Middle(s) /\ r.mode # "damp" /\ s.mode # "damp" /\ Played(s)
        /\ ~s.have \/ loop'.steps = s.steps - 1
    BY <1>1, <1>10, LiveTick DEF l, r, s
  <2>2. Fed(s, 0) /\ s.have /\ loop'.steps = s.steps - 1
    BY <1>8, <2>1
  <2>3. /\ s.ticks \in Nat /\ s.ref \in Nat /\ s.steps \in Nat /\ s.active \in Nat
        /\ s.out.ref \in Nat /\ s.pending.ask.ref \in Nat
    BY <2>1 DEF Middle, Loop, Answer, Ask
  <2>4. Waiting(loop)' = Waiting(s)
    BY <2>1 DEF Waiting, Played
  <2>5. /\ s.active <= s.ref /\ s.ref + 0 + s.steps <= s.active + setup.lead + setup.hold
        /\ s.fault # "contract" /\ (s.out.seq = 0 => s.last = s.asks)
        /\ s.out.seq # 0 => Due(s, s.out.ref, 0)
        /\ Waiting(s) => Due(s, s.pending.ask.ref, 0)
        /\ pinned => /\ s.ref = 0 /\ s.active = 0
                     /\ s.out.seq # 0 => s.out.ref = 0
                     /\ Waiting(s) => s.pending.ask.ref = 0
    BY <2>1, <2>2 DEF Fed
  <2>6. loop'.ref + 1 + loop'.steps = s.ref + 0 + s.steps
    BY <2>1, <2>2, <2>3 DEF Played
  <2>7. \A first \in Nat : Due(s, first, 0) =>
          first <= loop'.ref + 1 + loop'.steps /\ loop'.ref + 1 + loop'.steps <= first + setup.lead
    BY <2>6 DEF Due
  <2>8. Fed(loop, 1)'
    BY <1>1, <2>1, <2>2, <2>3, <2>4, <2>5, <2>6, <2>7 DEF Fed, Due, Played
  <2> QED BY <2>1, <2>2, <2>8 DEF FedInv, Played
<1> QED BY <1>9, <1>10

----------------------------------------------------------------------------
(* Every step of a prompt planner's system.                                *)
PromptInv ==
  /\ setup.prompt => WholeInv
  /\ Prompt => Punctual(loop, 0) /\ (setup.kind = "oracle" => FedInv)

LEMMA PromptInit == Init => PromptInv
<1> SUFFICES ASSUME Init PROVE PromptInv
  OBVIOUS
<1>1. /\ loop = FreshLoop /\ answer = NoAnswer /\ phase = "idle"
      /\ NoAnswer.ask.seq = 0 /\ NoAsk.seq = 0
  BY DEF Init, NoAnswer, NoAsk
<1>2. /\ ~loop.missed /\ ~loop.late /\ ~loop.have /\ loop.out = NoAsk /\ loop.pending = NoAnswer
      /\ loop.consumed = 0 /\ loop.ticks = 0 /\ loop.ref = 0 /\ loop.fault = "none"
      /\ loop.last = 0 /\ loop.asks = 0
  BY <1>1 DEF FreshLoop
<1>3. ~Waiting(loop)
  BY <1>1, <1>2 DEF Waiting
<1>4. WholeInv
  BY <1>1, <1>2 DEF WholeInv
<1>5. Punctual(loop, 0)
  BY <1>1, <1>2, <1>3 DEF Punctual
<1>6. FedInv
  BY <1>1, <1>2, <1>3 DEF FedInv, Fed
<1> QED BY <1>4, <1>5, <1>6 DEF PromptInv

(* start() leaves nothing to be late for; the oracle's first request names *)
(* frame 0.                                                                *)
LEMMA PromptStart ==
  ASSUME Base, PromptInv, NEW pin \in BOOLEAN, Start(pin)
  PROVE  PromptInv'
<1>1. /\ loop \in Loop /\ loop.asks \in Nat /\ loop.last \in Nat /\ NoAnswer.ask.seq = 0
      /\ NoAsk.seq = 0
  BY DEF Base, TypeOK, Loop, NoAnswer, NoAsk
<1>2. /\ loop'.fault = "none" /\ loop'.ticks = 0 /\ loop'.ref = 0
      /\ ~loop'.have /\ loop'.pending = NoAnswer
      /\ loop'.consumed = loop.last /\ ~loop'.missed /\ ~loop'.late
      /\ setup.kind = "oracle" =>
           loop'.out.seq = loop.asks + 1 /\ loop'.out.ref = 0 /\ phase' = "starting"
      /\ setup.kind # "oracle" => loop'.out = NoAsk
      /\ UNCHANGED <<setup, answer>>
  BY <1>1, StartIs
<1>3. ~Waiting(loop)'
  BY <1>1, <1>2 DEF Waiting
<1>4. setup.prompt => WholeInv'
  BY <1>1, <1>2 DEF PromptInv, WholeInv
<1>5. Punctual(loop, 0)'
  BY <1>1, <1>2, <1>3 DEF Punctual
<1>6. setup.kind = "oracle" => FedInv'
  BY <1>1, <1>2, <1>3 DEF FedInv, Fed
<1>7. setup' = setup /\ Prompt' = Prompt
  BY <1>2 DEF Prompt, RoomToAsk
<1> QED BY <1>4, <1>5, <1>6, <1>7 DEF PromptInv

(* The handshake takes the answer to that request or goes on waiting.      *)
LEMMA PromptHandshake ==
  ASSUME Base, PromptInv, Handshake
  PROVE  PromptInv'
<1>1. /\ TypeOK /\ Middle(loop) /\ Mailed(loop) /\ (setup.asks => MailInv)
      /\ loop \in Loop /\ setup.kind = "oracle" /\ Paced /\ Plain /\ ~loop.have
  BY DEF Base, Mailed, MailInv, Middle, HandshakeInv, Handshake, Paced, Plain, Direct
<1>2. /\ loop' = Read(loop) /\ answer.ask.seq > loop.last
      /\ phase' = "up" => loop'.out.seq = 0
      /\ UNCHANGED <<setup, pinned, answer>>
  BY DEF Handshake
<1>3. /\ ~loop'.have /\ loop'.missed = loop.missed /\ loop'.late = loop.late
      /\ loop'.pending \in {loop.pending, answer}
  BY <1>1, <1>2, ReadKeeps, ReadPending
<1>4. setup.prompt => WholeInv'
  BY <1>2, <1>3 DEF PromptInv, WholeInv
<1>5. Prompt => Punctual(loop, 0)'
  BY <1>1, <1>2, <1>3 DEF PromptInv, Punctual
<1>6. ASSUME Prompt PROVE FedInv'
  <2>1. Oracle /\ WholeInv /\ Fed(loop, 1)
    BY <1>1, <1>6 DEF PromptInv, Prompt, Oracle, FedInv
  <2>2. /\ Fed(loop', 1)
        /\ loop'.out.seq # 0 \/ Waiting(loop')
    <3> DEFINE r == Read(loop)
    <3>1. Fed(r, 1) /\ (r.out.seq # 0 \/ Waiting(r))
      BY <1>1, <1>2, <2>1, FedRead
    <3> HIDE DEF r
    <3>2. loop' = r
      BY <1>2 DEF r
    <3> QED BY <3>1, <3>2
  <2>3. Fed(loop, 1)' /\ (loop'.out.seq # 0 \/ Waiting(loop)')
    BY <1>2, <2>2 DEF Fed, Due, Waiting
  <2> QED BY <1>2, <2>3 DEF FedInv
<1>7. setup' = setup /\ Prompt' = Prompt
  BY <1>2 DEF Prompt, RoomToAsk
<1> QED BY <1>4, <1>5, <1>6, <1>7 DEF PromptInv

(* A mailbox it cannot read makes it damp, not late.                       *)
LEMMA PromptHandshakeFails ==
  ASSUME Base, PromptInv, HandshakeFails
  PROVE  PromptInv'
<1>1. /\ loop \in Loop /\ UNCHANGED <<setup, answer, pinned, phase>> /\ phase = "starting"
      /\ loop' = Damped(loop, "mailbox")
  BY DEF Base, TypeOK, HandshakeFails
<1>2. /\ loop'.mode = "damp" /\ loop'.missed = loop.missed /\ loop'.late = loop.late
      /\ loop'.pending = loop.pending /\ loop'.out = loop.out /\ loop'.last = loop.last
      /\ loop'.asks = loop.asks
      /\ loop'.fault = IF loop.fault = "none" THEN "mailbox" ELSE loop.fault
  BY <1>1, DampedIs
<1>3. setup' = setup /\ Prompt' = Prompt
  BY <1>1 DEF Prompt, RoomToAsk
<1>4. setup.prompt => WholeInv'
  BY <1>1, <1>2 DEF PromptInv, WholeInv
<1>5. Prompt => Punctual(loop, 0)'
  BY <1>2 DEF PromptInv, Punctual
<1>6. Prompt /\ setup.kind = "oracle" => FedInv'
  BY <1>1, <1>2 DEF PromptInv, FedInv, Fed
<1> QED BY <1>3, <1>4, <1>5, <1>6 DEF PromptInv

LEMMA PromptTick ==
  ASSUME Base, PromptInv, NEW before \in Before, NEW later \in Later,
         Tick(before, later)
  PROVE  PromptInv'
<1>1. UNCHANGED <<setup, answer>> /\ NoAnswer.ask.seq = 0
  BY DEF Tick, NoAnswer, NoAsk
<1>2. ASSUME setup.prompt PROVE WholeInv'
  <2>1. WholeInv /\ loop'.pending \in {loop.pending, answer, NoAnswer}
    BY <1>2, WholeTick DEF PromptInv
  <2> QED BY <1>1, <2>1 DEF WholeInv
<1>3. Prompt => Punctual(loop, 0)'
  BY PunctualTick DEF PromptInv, Prompt
<1>4. Prompt /\ setup.kind = "oracle" => FedInv'
  BY FedTick DEF PromptInv, Prompt, Oracle
<1>5. setup' = setup /\ Prompt' = Prompt
  BY <1>1 DEF Prompt, RoomToAsk
<1> QED BY <1>2, <1>3, <1>4, <1>5 DEF PromptInv

(* Steps beside the control thread: the predicates read little of them.    *)
LEMMA PromptQuiet ==
  ASSUME PromptInv, UNCHANGED setup, loop' = loop, pinned' = pinned \/ ~pinned',
         phase' # "up" \/ phase' = phase, setup.prompt => WholeInv'
  PROVE  PromptInv'
<1>1. Prompt' = Prompt
  BY DEF Prompt, RoomToAsk
<1>2. Punctual(loop, 0) => Punctual(loop, 0)'
  BY DEF Punctual, Remaining, Waiting
<1>3. Fed(loop, 1) => Fed(loop, 1)'
  BY DEF Fed, Due, Waiting
<1>4. FedInv => FedInv'
  BY <1>3 DEF FedInv, Waiting
<1> QED BY <1>1, <1>2, <1>4 DEF PromptInv

LEMMA PromptEnds ==
  ASSUME Base, PromptInv, ThreadEnds
  PROVE  PromptInv'
<1>1. /\ loop \in Loop /\ UNCHANGED <<setup, answer, pinned>> /\ phase' = "over"
      /\ loop' = [loop EXCEPT !.mode = IF @ = "damp" THEN @ ELSE "stopped"]
  BY DEF Base, TypeOK, ThreadEnds
<1>2. /\ loop'.ticks = loop.ticks /\ loop'.out = loop.out /\ loop'.have = loop.have
      /\ loop'.steps = loop.steps /\ loop'.pending = loop.pending
      /\ loop'.consumed = loop.consumed /\ loop'.last = loop.last
      /\ loop'.asks = loop.asks /\ loop'.fault = loop.fault
      /\ loop'.active = loop.active /\ loop'.ref = loop.ref
      /\ loop'.planSlots = loop.planSlots /\ loop'.cursor = loop.cursor
      /\ loop'.missed = loop.missed /\ loop'.late = loop.late
      /\ (loop'.mode # "damp" => loop.mode # "damp")
  BY <1>1 DEF Loop
<1>3. Prompt' = Prompt /\ setup' = setup /\ pinned' = pinned /\ phase' # "up"
  BY <1>1 DEF Prompt, RoomToAsk
<1>4. Waiting(loop)' = Waiting(loop) /\ Remaining(loop)' = Remaining(loop)
  BY <1>2, <1>3 DEF Waiting, Remaining
<1>5. WholeInv => WholeInv'
  BY <1>1, <1>2 DEF WholeInv
<1>6. Punctual(loop, 0) => Punctual(loop, 0)'
  BY <1>2, <1>3, <1>4 DEF Punctual
<1>7. Fed(loop, 1) => Fed(loop, 1)'
  BY <1>2, <1>3, <1>4 DEF Fed, Due
<1> QED BY <1>3, <1>5, <1>6, <1>7 DEF PromptInv, FedInv

LEMMA PromptOther ==
  ASSUME Base, PromptInv,
         \/ HandshakeTimeout \/ Unpin \/ Wait
         \/ Take \/ PlannerDies \/ PlannerRestarts
         \/ \E slots \in 0..setup.slots, tag \in Tags : Reply(slots, tag) \/ Push(slots, tag)
         \/ UNCHANGED vars
  PROVE  PromptInv'
<1>1. CASE HandshakeTimeout \/ Unpin \/ Wait \/ Take \/ PlannerDies \/ PlannerRestarts
             \/ UNCHANGED vars
  <2>1. /\ UNCHANGED <<setup, loop, answer>> /\ (pinned' = pinned \/ ~pinned')
        /\ phase' # "up" \/ phase' = phase
    BY <1>1 DEF HandshakeTimeout, Unpin, Wait, Take, PlannerDies, PlannerRestarts, vars
  <2>2. WholeInv => WholeInv'
    BY <2>1 DEF WholeInv
  <2> QED BY <2>1, <2>2, PromptQuiet DEF PromptInv
<1>2. ASSUME NEW slots \in 0..setup.slots, NEW tag \in Tags, Reply(slots, tag)
      PROVE  PromptInv'
  <2>1. /\ answer'.tag = tag /\ answer'.slots = slots /\ UNCHANGED <<setup, phase, loop, pinned>>
        /\ setup.prompt => tag = "own" /\ slots = setup.slots
    BY <1>2 DEF Reply
  <2>2. setup.prompt /\ WholeInv => WholeInv'
    BY <2>1 DEF WholeInv
  <2> QED BY <2>1, <2>2, PromptQuiet DEF PromptInv
<1>3. ASSUME NEW slots \in 0..setup.slots, NEW tag \in Tags, Push(slots, tag)
      PROVE  PromptInv'
  <2>1. UNCHANGED <<setup, phase, loop, pinned>> /\ ~setup.asks
    BY <1>3 DEF Push
  <2>2. ~setup.prompt
    BY <2>1, PromptSetup DEF Base
  <2> QED BY <2>1, <2>2, PromptQuiet
<1> QED BY <1>1, <1>2, <1>3

LEMMA PromptNext == Base /\ PromptInv /\ [Next]_vars => PromptInv'
BY PromptTick, PromptStart, PromptHandshake, PromptHandshakeFails, PromptEnds, PromptOther
   DEF Next

(* A planner that answers within the lead is always in time: no hold is    *)
(* repeated, no plan starts late and no reference block runs out, for any  *)
(* hold, lead, number of slots and spare frames that leave room to ask.    *)
THEOREM PromptIsServed == Spec => []PromptPlannerServes
<1>1. PromptInv => PromptPlannerServes
  BY DEF PromptInv, Prompt, PromptPlannerServes, Punctual, FedInv, Fed
<1> QED BY <1>1, BaseInit, BaseNext, PromptInit, PromptNext, PTL DEF Spec
=============================================================================
