------------------------- MODULE WriterAndLoop_proofs -------------------------
(***************************************************************************)
(* The loop that makes the robot's commands, and the writer that sends     *)
(* them.                                                                   *)
(***************************************************************************)
EXTENDS UnitreeWriter, ControlLoop, SequenceTheorems, WellFoundedInduction, TLAPS

-------------------------------------------------------------------------------
(***************************************************************************)
(* The Python control loop, its publishers and its command buffers: the    *)
(* watchdog, the history, what a local publisher has planned and what a    *)
(* pushing process has put on the wire, for every window, stride, hold,    *)
(* history and number of episodes.                                         *)
(***************************************************************************)

\* A set of positions has a last one.
LEMMA HasMax ==
  ASSUME NEW n \in Nat, NEW S \in SUBSET (1 .. n), S # {}
  PROVE  \E x \in S : \A y \in S : y <= x
<1> DEFINE R == OpToRel(<, Nat)
           T == {n - i : i \in S}
<1>1. IsWellFoundedOn(R, Nat)
  BY NatLessThanWellFounded, Zenon
<1>2. T \subseteq Nat
  <2>1. ASSUME NEW i \in S PROVE n - i \in Nat
    OBVIOUS
  <2> QED BY <2>1
<1>3. T # {}
  <2>1. PICK i \in S : TRUE
    OBVIOUS
  <2>2. n - i \in T
    OBVIOUS
  <2> QED BY <2>2
<1>4. \A a, b \in Nat : a < b => <<a, b>> \in R
  BY DEF OpToRel
<1> HIDE DEF R
<1>5. PICK t \in T : \A u \in T : ~ (<<u, t>> \in R)
  <2> HIDE DEF T
  <2> QED BY <1>1, <1>2, <1>3, WFMin
<1>6. PICK x \in S : t = n - x
  OBVIOUS
<1>7. ASSUME NEW y \in S PROVE y <= x
  <2>1. n - y \in T /\ n - y \in Nat /\ n - x \in Nat
    OBVIOUS
  <2>2. ~ (n - y < n - x)
    BY <1>4, <1>5, <1>6, <2>1
  <2> QED BY <2>2
<1> QED BY <1>7

\* The last position that FiniteSetsExt chooses is that one.
LEMMA MaxIn ==
  ASSUME NEW n \in Nat, NEW S \in SUBSET (1 .. n), S # {}
  PROVE  Max(S) \in S /\ \A y \in S : y <= Max(S)
<1>1. PICK x \in S : \A y \in S : x >= y
  BY HasMax
<1> QED BY <1>1 DEF Max

\* A step around a ring.
LEMMA Around ==
  ASSUME NEW s \in Nat \ {0}, NEW i \in 0 .. s - 1
  PROVE  (i + 1) % s = IF i + 1 = s THEN 0 ELSE i + 1
<1>1. CASE i + 1 = s
  BY <1>1
<1>2. CASE i + 1 # s
  BY <1>2
<1> QED BY <1>1, <1>2

\* The ring read a whole number of turns on is where it was.
LEMMA Turns ==
  ASSUME NEW s \in Nat \ {0}, NEW i \in 0 .. s - 1, NEW q \in Nat
  PROVE  (i + s * q) % s = i
<1> QED OBVIOUS

--------------------------------------------------------------------------------
(* Types *)

\* The ring has room for a frame, and a run has an episode.
LEMMA SpanTyped == Span \in Nat \ {0} /\ Total \in Nat \ {0}
<1>1. Episodes \in Nat \ {0} /\ Past \in Nat \ {0} /\ Stride \in Nat \ {0}
  BY LoopAssumption
<1>2. (Past - 1) * Stride \in Nat
  BY <1>1
<1> QED BY <1>1, <1>2 DEF Span, Total

\* The end of an episode: one more result, and the next episode or the report.
LEMMA EndTyped ==
  ASSUME LoopTypeOK, Running, job' = job, NEW n \in 0 .. MaxSteps,
         NEW s \in {"completed", "reference_finished", "fell", "damped"},
         EndEpisode(s, n)
  PROVE  /\ pc' \in {"report", "reset"} /\ ep' \in 0 .. Total'
         /\ results' \in Seq(EpisodeResults)
         /\ pc' = "report" => Len(results') = Total'
         /\ pc' = "reset" => ep' = Len(results') + 1
<1> DEFINE r == [status |-> s, steps |-> n]
<1>1. r \in EpisodeResults
  BY DEF EpisodeResults
<1>2. ep \in 0 .. Total /\ results \in Seq(EpisodeResults) /\ ep = Len(results) + 1
  BY DEF LoopTypeOK
<1>3. Total' = Total
  BY DEF Total, Playground
<1>4. results' = Append(results, r)
  BY DEF EndEpisode
<1> HIDE DEF r
<1>5. results' \in Seq(EpisodeResults) /\ Len(results') = Len(results) + 1
  BY <1>1, <1>2, <1>4
<1>6. CASE ep = Total
  BY <1>2, <1>3, <1>5, <1>6, SpanTyped DEF EndEpisode
<1>7. CASE ep # Total
  BY <1>2, <1>3, <1>5, <1>7, SpanTyped DEF EndEpisode
<1> QED BY <1>6, <1>7

\* What the robot is given: a pose, a joint command or damping.
LEMMA GivenTyped ==
  ASSUME NEW k \in {"pose", "joint", "damp"}, NEW p \in Packets \cup {NONE}
  PROVE  Given(k, p) \in Plants /\ Given(k, p).kind = k /\ Given(k, p).packet = p
<1> QED BY DEF Given, Plants

\* What is read is what came, and only a newer packet replaces one.
LEMMA DrainedTyped ==
  ASSUME LoopTypeOK, NEW n \in 0 .. Len(buf.wire)
  PROVE  /\ Drained(n) \in Buffers
         /\ Drained(n).wire = SubSeq(buf.wire, n + 1, Len(buf.wire))
         /\ Taken(n) = {} => Drained(n).packet = buf.packet /\ Drained(n).high = buf.high
         /\ Taken(n) # {} =>
              /\ Max(Taken(n)) \in Taken(n) /\ \A i \in Taken(n) : i <= Max(Taken(n))
              /\ Drained(n).packet = buf.wire[Max(Taken(n))]
              /\ Drained(n).high = buf.wire[Max(Taken(n))].seq
              /\ Drained(n).packet \in Packets
<1> DEFINE rest == SubSeq(buf.wire, n + 1, Len(buf.wire))
<1>1. buf \in Buffers
  BY DEF LoopTypeOK
<1>2. buf.wire \in Seq(Packets) /\ Len(buf.wire) \in Nat
  BY <1>1 DEF Buffers
<1>3. rest \in Seq(Packets)
  BY <1>2
<1> HIDE DEF rest
<1>4. CASE Taken(n) = {}
  <2>1. Drained(n) = [buf EXCEPT !.wire = rest]
    BY <1>4 DEF Drained, rest
  <2> QED BY <1>1, <1>3, <1>4, <2>1 DEF Buffers, rest
<1>5. CASE Taken(n) # {}
  <2> DEFINE m == Max(Taken(n))
             newest == buf.wire[m]
  <2>1. Taken(n) \in SUBSET (1 .. n)
    BY DEF Taken
  <2>2. m \in Taken(n) /\ \A i \in Taken(n) : i <= m
    <3>1. n \in Nat
      BY <1>2
    <3> QED BY <1>5, <2>1, <3>1, MaxIn
  <2>3. m \in 1 .. Len(buf.wire)
    BY <1>2, <2>1, <2>2
  <2>4. newest \in Packets
    BY <1>2, <2>3
  <2>5. Drained(n) = [packet |-> newest, high |-> newest.seq, wire |-> rest]
    BY <1>5 DEF Drained, rest
  <2> HIDE DEF m, newest
  <2>6. newest.seq \in Int
    BY <2>4 DEF Packets
  <2>7. Drained(n) \in Buffers
    BY <1>3, <2>4, <2>5, <2>6 DEF Buffers
  <2>8. /\ Drained(n).packet = newest /\ Drained(n).high = newest.seq
        /\ Drained(n).wire = rest
    BY <2>5
  <2> QED BY <1>5, <2>2, <2>4, <2>7, <2>8 DEF m, newest, rest
<1> QED BY <1>4, <1>5

\* A snapshot never loses the packet there was.
LEMMA Kept ==
  ASSUME LoopTypeOK, NEW n \in 0 .. Len(buf.wire), buf.packet # NONE
  PROVE  Drained(n).packet # NONE
<1> QED BY DrainedTyped, LoopAssumption

\* A snapshot reads all that came.
LEMMA SnapshotTyped ==
  ASSUME LoopTypeOK
  PROVE  Snapshot \in Buffers /\ Snapshot = Drained(Len(buf.wire)) /\ Snapshot.wire = <<>>
         /\ Len(buf.wire) \in 0 .. Len(buf.wire)
<1>1. buf.wire \in Seq(Packets)
  BY DEF LoopTypeOK, Buffers
<1>2. Len(buf.wire) \in Nat /\ SubSeq(buf.wire, Len(buf.wire) + 1, Len(buf.wire)) = <<>>
  BY <1>1
<1> QED BY <1>2, DrainedTyped DEF Snapshot

\* A window holds frames of the reference.
LEMMA WindowTyped ==
  ASSUME LoopTypeOK, NEW n \in Nat
  PROVE  Windowed(n) \in Seq(0 .. Frames - 1)
<1>1. Frames \in Nat \ {0} /\ pub.cursor \in 0 .. Frames - 1
  BY LoopAssumption DEF LoopTypeOK, Publishers
<1>2. \A k \in Nat : FrameAt(k) \in 0 .. Frames - 1
  BY <1>1 DEF FrameAt
<1>3. \A i \in 1 .. n + 1 : FrameAt(i - 1) \in 0 .. Frames - 1
  BY <1>2
<1>4. Windowed(n) \in [1 .. n + 1 -> 0 .. Frames - 1]
  BY <1>3 DEF Windowed
<1>5. n + 1 \in Nat
  OBVIOUS
<1> QED BY <1>4, <1>5, SeqDef

\* A latent says which episode and step it was asked for in.
LEMMA LatentTyped ==
  ASSUME LoopTypeOK, NEW slot \in Nat \ {0}, NEW fs \in Seq(0 .. Frames - 1)
  PROVE  /\ Latent(slot, fs) \in Latents
         /\ Latent(slot, fs).ep = ep /\ Latent(slot, fs).at = step
         /\ Latent(slot, fs).goal = Goal /\ Latent(slot, fs).slot = slot
         /\ Latent(slot, fs).seed = NONE
<1>1. ep \in Nat /\ step \in Nat /\ pub.index \in Nat
  BY SpanTyped, LoopAssumption DEF LoopTypeOK, Publishers
<1>2. Goal \in Nat
  BY <1>1 DEF Goal
<1> HIDE DEF Goal
<1> QED BY <1>1, <1>2 DEF Latent, Latents

\* Publishing a latent numbers it, and it is what the buffer then holds.
LEMMA PublishTyped ==
  ASSUME LoopTypeOK, NEW p \in Publishers, p.held < HoldSteps, p.seq = pub.seq,
         Publish(p)
  PROVE  /\ pub' \in Publishers /\ buf' \in Buffers /\ buf'.wire = buf.wire
         /\ pub' = [p EXCEPT !.seq = @ + 1, !.held = @ + 1]
         /\ buf.packet # NONE => buf'.packet # NONE
         /\ buf.high = pub.seq =>
              /\ buf'.high = pub'.seq /\ buf'.packet # NONE
              /\ buf'.packet.z = p.z /\ buf'.packet.nth = others.nth + 1
<1> DEFINE packet == [seq |-> p.seq + 1, nth |-> others.nth + 1, z |-> p.z]
<1>1. p.seq \in Nat /\ p.held \in 0 .. HoldSteps /\ HoldSteps \in Nat /\ others.nth \in Nat
      /\ p.z \in Latents \cup {NONE}
  BY LoopAssumption DEF LoopTypeOK, Publishers, Beside
<1>2. packet \in Packets /\ packet # NONE /\ packet.seq = p.seq + 1
      /\ packet.nth = others.nth + 1 /\ packet.z = p.z
  BY <1>1, LoopAssumption DEF Packets
<1>3. pub' = [p EXCEPT !.seq = @ + 1, !.held = @ + 1] /\ buf' = Accept(packet)
  BY DEF Publish
<1>4. pub' \in Publishers /\ pub'.seq = p.seq + 1
  <2>1. p.held + 1 \in 0 .. HoldSteps /\ p.seq + 1 \in Nat
    BY <1>1
  <2>2. pub' = [p EXCEPT !.seq = p.seq + 1, !.held = p.held + 1]
    BY <1>3
  <2>3. pub' \in Publishers
    BY <2>1, <2>2 DEF Publishers
  <2>4. pub'.seq = p.seq + 1
    BY <2>2 DEF Publishers
  <2> QED BY <2>3, <2>4
<1> HIDE DEF packet
<1>5. buf \in Buffers /\ packet.seq \in Int
  BY <1>1, <1>2 DEF LoopTypeOK
<1>6. CASE packet.seq <= buf.high
  BY <1>1, <1>2, <1>3, <1>4, <1>5, <1>6 DEF Accept
<1>7. CASE ~ (packet.seq <= buf.high)
  <2>1. buf' = [buf EXCEPT !.packet = packet, !.high = packet.seq]
    BY <1>3, <1>7 DEF Accept
  <2>2. buf' \in Buffers /\ buf'.wire = buf.wire /\ buf'.packet = packet
        /\ buf'.high = packet.seq
    BY <1>2, <1>5, <2>1 DEF Buffers
  <2> QED BY <1>2, <1>3, <1>4, <2>2
<1> QED BY <1>6, <1>7

\* What a tick of a local publisher may publish: what is held, the next latent of
\* the prediction, or a latent asked for now.
Asked(p) ==
    /\ p.z \in Latents /\ p.z.ep = ep /\ p.z.at = step /\ p.z.goal = Goal
    /\ p.z.slot = 1 /\ p.z.seed \in {NONE, pub.prev} /\ p.held = 0
    /\ \/ job.source # "gr00t" /\ p.queue = pub.queue
       \/ /\ job.source = "gr00t"
          /\ \A i \in DOMAIN p.queue : p.queue[i] = [p.z EXCEPT !.slot = i + 1]

Choice(p) ==
    /\ p \in Publishers /\ Publish(p) /\ p.held < HoldSteps
    /\ p.seq = pub.seq /\ p.index = pub.index /\ p.prev \in {pub.prev, ep}
    /\ \/ ~Due /\ p.z = pub.z /\ p.held = pub.held /\ p.queue = pub.queue
       \/ /\ Due /\ job.source = "gr00t" /\ pub.queue # <<>>
          /\ p.z = Head(pub.queue) /\ p.queue = Tail(pub.queue) /\ p.held = 0
       \/ Asked(p)

\* Moving the playhead changes nothing else of the publisher.
LEMMA ForwardTyped ==
  ASSUME NEW p \in Publishers
  PROVE  /\ Forward(p) \in Publishers /\ Forward(p).seq = p.seq /\ Forward(p).z = p.z
         /\ Forward(p).held = p.held /\ Forward(p).queue = p.queue
         /\ Forward(p).prev = p.prev /\ Forward(p).index = p.index
         /\ Forward(p).renewals = p.renewals
<1>1. Frames \in Nat \ {0} /\ p.cursor \in 0 .. Frames - 1
  BY LoopAssumption DEF Publishers
<1> DEFINE cur == IF p.cursor < Frames - 1 THEN p.cursor + 1 ELSE p.cursor
<1>2. cur \in 0 .. Frames - 1
  BY <1>1
<1>3. Forward(p) = [p EXCEPT !.cursor = cur]
  BY DEF Forward
<1> HIDE DEF cur
<1> QED BY <1>2, <1>3 DEF Publishers

\* What the dataset publisher publishes is one of them.
LEMMA PlaybackChoice ==
  ASSUME LoopTypeOK, Playback
  PROVE  \E p : Choice(p)
<1> DEFINE z == Latent(1, Windowed(0))
           p == [Forward(pub) EXCEPT !.z = z, !.held = 0]
<1>1. z \in Latents /\ z.ep = ep /\ z.at = step /\ z.goal = Goal /\ z.slot = 1
      /\ z.seed = NONE
  BY WindowTyped, LatentTyped
<1>2. Publish(p) /\ job.source = "playback"
  BY DEF Playback
<1>3. pub \in Publishers /\ HoldSteps \in Nat \ {0}
  BY LoopAssumption DEF LoopTypeOK
<1> HIDE DEF z
<1>4. /\ p \in Publishers /\ p.seq = pub.seq /\ p.z = z /\ p.held = 0
      /\ p.queue = pub.queue /\ p.prev = pub.prev /\ p.index = pub.index
  <2> DEFINE f == Forward(pub)
  <2>1. /\ f \in Publishers /\ f.seq = pub.seq /\ f.queue = pub.queue
        /\ f.prev = pub.prev /\ f.index = pub.index
    BY <1>3, ForwardTyped
  <2> HIDE DEF f
  <2>2. p = [f EXCEPT !.z = z, !.held = 0]
    BY DEF f
  <2>3. 0 \in 0 .. HoldSteps /\ z \in Latents \cup {NONE}
    BY <1>1, <1>3
  <2> HIDE DEF p
  <2>4. p \in Publishers
    BY <2>1, <2>2, <2>3 DEF Publishers
  <2>5. p.z = z /\ p.held = 0 /\ p.seq = f.seq
    BY <2>1, <2>2 DEF Publishers
  <2>6. p.queue = f.queue /\ p.prev = f.prev /\ p.index = f.index
    BY <2>1, <2>2 DEF Publishers
  <2> QED BY <2>1, <2>4, <2>5, <2>6
<1> HIDE DEF p
<1>5. Asked(p)
  BY <1>1, <1>2, <1>4 DEF Asked
<1> QED BY <1>2, <1>3, <1>4, <1>5 DEF Choice

\* What the encoder publisher publishes is one of them.
LEMMA EncodeChoice ==
  ASSUME LoopTypeOK, Encode
  PROVE  \E p : Choice(p)
<1> DEFINE z == IF job.ends = "sequence" THEN Sequenced ELSE Encoded
<1>1. /\ pub \in Publishers /\ HoldSteps \in Nat \ {0} /\ Frames \in Nat \ {0}
      /\ pub.renewals \in Nat /\ Window \in Nat /\ pub.held \in Nat
  BY LoopAssumption DEF LoopTypeOK, Publishers
<1>2. z \in Latents /\ z.ep = ep /\ z.at = step /\ z.goal = Goal /\ z.slot = 1
      /\ z.seed = NONE
  <2> DEFINE f == IF pub.renewals < Frames THEN pub.renewals ELSE Frames - 1
  <2>1. f \in 0 .. Frames - 1
    BY <1>1
  <2>2. Sequenced = Latent(1, <<f>>)
    BY DEF Sequenced
  <2> HIDE DEF f
  <2>3. <<f>> \in Seq(0 .. Frames - 1)
    BY <2>1
  <2>4. Encoded = Latent(1, Windowed(Window)) /\ Windowed(Window) \in Seq(0 .. Frames - 1)
    BY <1>1, WindowTyped DEF Encoded
  <2>5. CASE job.ends = "sequence"
    <3> DEFINE fs == <<f>>
    <3>1. z = Latent(1, fs) /\ fs \in Seq(0 .. Frames - 1)
      BY <2>2, <2>3, <2>5
    <3> HIDE DEF z, fs
    <3> QED BY <3>1, LatentTyped
  <2>6. CASE job.ends # "sequence"
    <3>1. z = Latent(1, Windowed(Window))
      BY <2>4, <2>6
    <3> HIDE DEF z
    <3> QED BY <2>4, <3>1, LatentTyped
  <2> QED BY <2>5, <2>6
<1> DEFINE q == IF ~Due THEN pub
                ELSE [pub EXCEPT !.z = z, !.held = 0, !.renewals = @ + 1]
           p == Forward(q)
<1>3. Publish(p) /\ job.source # "gr00t"
  BY DEF Encode
<1> HIDE DEF z
<1>4. CASE Due
  <2>1. /\ q \in Publishers /\ q.seq = pub.seq /\ q.z = z /\ q.held = 0
        /\ q.queue = pub.queue /\ q.prev = pub.prev /\ q.index = pub.index
    <3>1. q = [pub EXCEPT !.z = z, !.held = 0, !.renewals = pub.renewals + 1]
      BY <1>4
    <3>2. pub.renewals + 1 \in Nat /\ z \in Latents
      BY <1>1, <1>2
    <3>3. 0 \in 0 .. HoldSteps /\ z \in Latents \cup {NONE}
      BY <1>1, <1>2
    <3> HIDE DEF q
    <3>4. q \in Publishers
      BY <1>1, <3>1, <3>2, <3>3 DEF Publishers
    <3>5. q.seq = pub.seq /\ q.z = z /\ q.held = 0
      BY <1>1, <3>1 DEF Publishers
    <3>6. q.queue = pub.queue /\ q.prev = pub.prev /\ q.index = pub.index
      BY <1>1, <3>1 DEF Publishers
    <3> QED BY <3>4, <3>5, <3>6
  <2> HIDE DEF q
  <2>2. /\ p \in Publishers /\ p.seq = pub.seq /\ p.z = z /\ p.held = 0
        /\ p.queue = pub.queue /\ p.prev = pub.prev /\ p.index = pub.index
    BY <2>1, ForwardTyped
  <2> HIDE DEF p
  <2>3. Asked(p)
    BY <1>2, <1>3, <2>2 DEF Asked
  <2> QED BY <1>1, <1>3, <2>2, <2>3 DEF Choice
<1>5. CASE ~Due
  <2>1. q = pub /\ pub.held < HoldSteps
    BY <1>1, <1>5 DEF Due
  <2> HIDE DEF q
  <2>2. /\ p \in Publishers /\ p.seq = pub.seq /\ p.z = pub.z /\ p.held = pub.held
        /\ p.queue = pub.queue /\ p.prev = pub.prev /\ p.index = pub.index
    BY <1>1, <2>1, ForwardTyped
  <2> HIDE DEF p
  <2> QED BY <1>3, <1>5, <2>1, <2>2 DEF Choice
<1> QED BY <1>4, <1>5

\* What the planner publishers publish is one of them: a held latent, the next
\* of the plan, or the first of a new plan.
LEMMA Gr00tChoice ==
  ASSUME LoopTypeOK, Gr00t
  PROVE  \E p : Choice(p)
<1>1. /\ pub \in Publishers /\ HoldSteps \in Nat \ {0} /\ Slots \in Nat \ {0}
      /\ pub.held \in Nat /\ job.source = "gr00t" /\ ep \in Nat
      /\ pub.queue \in Seq(Latents) /\ pub.prev \in Nat \cup {NONE} /\ pub.z \in Latents \cup {NONE}
  BY SpanTyped, LoopAssumption DEF LoopTypeOK, Publishers, Gr00t
<1>2. CASE ~Due /\ Publish(pub)
  <2>1. pub.held < HoldSteps
    BY <1>1, <1>2 DEF Due
  <2> QED BY <1>1, <1>2, <2>1 DEF Choice
<1>3. CASE Due /\ pub.queue # <<>>
           /\ Publish([pub EXCEPT !.z = Head(pub.queue), !.held = 0, !.queue = Tail(@)])
  <2> DEFINE head == Head(pub.queue)
             rest == Tail(pub.queue)
  <2>1. head \in Latents /\ rest \in Seq(Latents)
    BY <1>1, <1>3
  <2> HIDE DEF head, rest
  <2> DEFINE p == [pub EXCEPT !.z = head, !.held = 0, !.queue = rest]
  <2>2. 0 \in 0 .. HoldSteps /\ head \in Latents \cup {NONE}
    BY <1>1, <2>1
  <2>3. p \in Publishers
    BY <1>1, <2>1, <2>2 DEF Publishers
  <2>4. p.z = head /\ p.held = 0 /\ p.queue = rest
    BY <1>1 DEF Publishers
  <2>5. p.seq = pub.seq /\ p.prev = pub.prev /\ p.index = pub.index
    BY <1>1 DEF Publishers
  <2>6. Publish(p)
    BY <1>3 DEF head, rest
  <2> HIDE DEF p
  <2> QED BY <1>1, <1>3, <2>3, <2>4, <2>5, <2>6 DEF Choice, head, rest
<1>4. CASE Due /\ pub.queue = <<>> /\ Publish(Request)
  <2> DEFINE fs == <<>>
             next == [Latent(1, fs) EXCEPT
                        !.seed = IF job.rtc /\ pub.prev # NONE THEN pub.prev ELSE NONE]
             rest == IF job.rtc \/ job.chunk THEN <<>>
                     ELSE [i \in 1 .. Slots - 1 |-> [next EXCEPT !.slot = i + 1]]
             p == [pub EXCEPT !.z = next, !.held = 0, !.prev = ep, !.queue = rest]
  <2>1. fs \in Seq(0 .. Frames - 1)
    OBVIOUS
  <2>2. Publish(p)
    BY <1>4 DEF Request
  <2> HIDE DEF fs
  <2>3. /\ next \in Latents /\ next.ep = ep /\ next.at = step /\ next.goal = Goal
        /\ next.slot = 1 /\ next.seed \in {NONE, pub.prev}
    <3> DEFINE l == Latent(1, fs)
               s == IF job.rtc /\ pub.prev # NONE THEN pub.prev ELSE NONE
    <3>1. /\ l \in Latents /\ l.ep = ep /\ l.at = step /\ l.goal = Goal
          /\ l.slot = 1
      BY <2>1, LatentTyped
    <3>2. s \in Nat \cup {NONE} /\ s \in {NONE, pub.prev}
      BY <1>1
    <3>3. next = [l EXCEPT !.seed = s]
      OBVIOUS
    <3> HIDE DEF l, s, next
    <3> QED BY <3>1, <3>2, <3>3 DEF Latents
  <2> HIDE DEF next
  <2>4. rest \in Seq(Latents) /\ \A i \in DOMAIN rest : rest[i] = [next EXCEPT !.slot = i + 1]
    <3>1. CASE job.rtc \/ job.chunk
      BY <3>1
    <3>2. CASE ~ (job.rtc \/ job.chunk)
      <4>1. rest = [i \in 1 .. Slots - 1 |-> [next EXCEPT !.slot = i + 1]]
        BY <3>2
      <4>2. \A i \in 1 .. Slots - 1 : [next EXCEPT !.slot = i + 1] \in Latents
        <5>1. ASSUME NEW n \in Nat \ {0} PROVE [next EXCEPT !.slot = n] \in Latents
          BY <2>3 DEF Latents
        <5>2. \A i \in 1 .. Slots - 1 : i + 1 \in Nat \ {0}
          BY <1>1
        <5> QED BY <5>1, <5>2
      <4> HIDE DEF rest
      <4>3. rest \in [1 .. Slots - 1 -> Latents]
        BY <4>1, <4>2
      <4>4. Slots - 1 \in Nat
        BY <1>1
      <4>5. rest \in Seq(Latents)
        BY <4>3, <4>4, SeqDef
      <4> QED BY <4>1, <4>5
    <3> QED BY <3>1, <3>2
  <2> HIDE DEF rest
  <2>5. 0 \in 0 .. HoldSteps /\ next \in Latents \cup {NONE} /\ ep \in Nat \cup {NONE}
    BY <1>1, <2>3
  <2>6. p \in Publishers
    BY <1>1, <2>4, <2>5 DEF Publishers
  <2>7. p.z = next /\ p.held = 0 /\ p.queue = rest /\ p.prev = ep
    BY <1>1 DEF Publishers
  <2>8. p.seq = pub.seq /\ p.index = pub.index
    BY <1>1 DEF Publishers
  <2> HIDE DEF p
  <2>9. Asked(p)
    BY <1>1, <2>3, <2>4, <2>7 DEF Asked
  <2> QED BY <1>1, <2>2, <2>6, <2>7, <2>8, <2>9 DEF Choice
<1> QED BY <1>2, <1>3, <1>4 DEF Gr00t

\* So every tick of a publisher is one of them.
LEMMA TickChoice ==
  ASSUME LoopTypeOK, Tick
  PROVE  \E p : Choice(p)
<1> QED BY PlaybackChoice, EncodeChoice, Gr00tChoice DEF Tick

\* The run's own part of the type: where it is, and what it has counted.
Reckoned ==
    /\ job \in Jobs
    /\ pc \in {"build", "reset", "tick", "publish", "track", "report", "done", "raised"}
    /\ ep \in 0 .. Total /\ (Running => ep > 0)
    /\ results \in Seq(EpisodeResults)
    /\ pc \in {"report", "done"} => Len(results) = Total
    /\ Running \/ pc = "reset" => ep = Len(results) + 1
    /\ pc = "build" => ep = 0 /\ results = <<>>

\* A step inside an episode, or one that raises, leaves the run's part typed.
LEMMA SameReckoned ==
  ASSUME LoopTypeOK, job' = job, results' = results, ep' = ep,
         pc' = pc \/ pc' = "raised" \/ (Running /\ pc' \in {"tick", "publish", "track"})
  PROVE  Reckoned'
<1>1. Total' = Total
  BY DEF Total, Playground
<1> QED BY <1>1 DEF LoopTypeOK, Reckoned, Running

\* So does the end of an episode.
LEMMA EndReckoned ==
  ASSUME LoopTypeOK, Running, job' = job, NEW n \in 0 .. MaxSteps,
         NEW s \in {"completed", "reference_finished", "fell", "damped"},
         EndEpisode(s, n)
  PROVE  Reckoned' /\ pc' \in {"report", "reset"}
<1>1. job \in Jobs
  BY DEF LoopTypeOK
<1> QED BY <1>1, EndTyped DEF Reckoned, Running

\* The three ways in which a tick fails.
LEMMA RaiseTyped ==
  ASSUME LoopTypeOK, job' = job, Raise
  PROVE  /\ Reckoned' /\ pc' = "raised" /\ plant' = plant
         /\ others' \in Beside /\ others'.service # "hung"
         /\ others'.writer = others.writer /\ others'.seq = others.seq
         /\ others'.restarts = others.restarts /\ others'.nth = others.nth
<1>1. others \in Beside
  BY DEF LoopTypeOK
<1>2. others' = [others EXCEPT !.service = Closed(others.service)]
  BY DEF Raise
<1>3. Closed(others.service) \in Services \cup {NONE} /\ Closed(others.service) # "hung"
  BY <1>1 DEF Closed, Beside, Services
<1> QED BY <1>1, <1>2, <1>3, SameReckoned DEF Beside, Raise

\* The second way: the robot is damped, and the episode is over.
LEMMA DampTyped ==
  ASSUME LoopTypeOK, Running, job' = job, Damp
  PROVE  /\ Reckoned' /\ pc' \in {"report", "reset"}
         /\ plant' \in Plants /\ plant'.kind = "damp"
<1>1. step \in 0 .. MaxSteps
  BY DEF LoopTypeOK
<1> QED BY <1>1, EndReckoned, GivenTyped DEF Damp

\* The third: the one or the other, as the job says.
LEMMA FaultTyped ==
  ASSUME LoopTypeOK, Running, job' = job, Fault, others.service # "hung"
  PROVE  /\ Reckoned' /\ pc' \in {"report", "reset", "raised"}
         /\ plant' \in Plants /\ (plant'.kind = "damp" \/ pc' = "raised")
         /\ others' \in Beside /\ others'.service # "hung"
         /\ others'.writer = others.writer /\ others'.seq = others.seq
         /\ others'.restarts = others.restarts /\ others'.nth = others.nth
<1>1. CASE Playground
  BY <1>1, RaiseTyped DEF Fault, LoopTypeOK
<1>2. CASE ~Playground
  BY <1>2, DampTyped DEF Fault, LoopTypeOK
<1> QED BY <1>1, <1>2

\* A tick that is over goes on, or ends the episode.
LEMMA EndTickTyped ==
  ASSUME LoopTypeOK, Running, job' = job, EndTick
  PROVE  /\ Reckoned' /\ step' = step + 1 /\ step' \in 0 .. MaxSteps
         /\ \/ pc' = "tick" /\ ep' = ep /\ step' < MaxSteps
            \/ pc' \in {"report", "reset"}
<1>1. step \in Nat /\ step < MaxSteps /\ MaxSteps \in Nat \ {0}
  BY LoopAssumption DEF LoopTypeOK
<1>2. step' = step + 1 /\ step + 1 \in 0 .. MaxSteps
  BY <1>1 DEF EndTick
<1>3. CASE step + 1 < MaxSteps /\ pc' = "tick" /\ UNCHANGED <<ep, results>>
  BY <1>2, <1>3, SameReckoned
<1>4. CASE EndEpisode(IF Exhausted THEN "reference_finished" ELSE "completed", step + 1)
  <2> DEFINE s == IF Exhausted THEN "reference_finished" ELSE "completed"
  <2>1. s \in {"completed", "reference_finished", "fell", "damped"}
    OBVIOUS
  <2>2. EndEpisode(s, step + 1)
    BY <1>4
  <2> HIDE DEF s
  <2> QED BY <1>2, <2>1, <2>2, EndReckoned
<1>5. CASE EndEpisode("fell", step + 1)
  BY <1>2, <1>5, EndReckoned
<1> QED BY <1>3, <1>4, <1>5 DEF EndTick

\* The history that a tick leaves.
LEMMA AssembleTyped ==
  ASSUME LoopTypeOK
  PROVE  Assemble \in Histories
<1>1. /\ hist \in Histories /\ ep \in Nat /\ step \in Nat /\ Span \in Nat \ {0}
  BY SpanTyped, LoopAssumption DEF LoopTypeOK
<1>2. CASE hist.seen = <<>>
  <2> DEFINE r == [i \in 0 .. Span - 1 |->
                     IF i = 0 \/ job.fill = "repeat_first" THEN <<ep, step>> ELSE <<0, 0>>]
  <2>1. Assemble = [ring |-> r, at |-> 0, seen |-> <<step>>]
    BY <1>2 DEF Assemble
  <2>2. r \in [0 .. Span - 1 -> (Nat \X Nat) \cup {NONE}]
    BY <1>1
  <2>3. 0 \in 0 .. Span - 1 /\ <<step>> \in Seq(Nat)
    BY <1>1
  <2> HIDE DEF r
  <2> QED BY <2>1, <2>2, <2>3 DEF Histories
<1>3. CASE hist.seen # <<>>
  <2> DEFINE at == (hist.at + 1) % Span
             r == [hist.ring EXCEPT ![at] = <<ep, step>>]
             t == Append(hist.seen, step)
  <2>1. Assemble = [hist EXCEPT !.at = at, !.ring = r, !.seen = t]
    BY <1>3 DEF Assemble
  <2>2. hist.at \in 0 .. Span - 1 /\ hist.ring \in [0 .. Span - 1 -> (Nat \X Nat) \cup {NONE}]
    BY <1>1 DEF Histories
  <2>3. at \in 0 .. Span - 1
    BY <1>1, <2>2, Around
  <2> HIDE DEF at
  <2>4. <<ep, step>> \in (Nat \X Nat) \cup {NONE}
    BY <1>1
  <2>5. r \in [0 .. Span - 1 -> (Nat \X Nat) \cup {NONE}]
    BY <2>2, <2>3, <2>4
  <2>6. t \in Seq(Nat)
    <3>1. hist.seen \in Seq(Nat)
      BY <1>1 DEF Histories
    <3> QED BY <1>1, <3>1
  <2> HIDE DEF r, t
  <2> QED BY <1>1, <2>1, <2>3, <2>5, <2>6 DEF Histories
<1> QED BY <1>2, <1>3

\* The record of where commands came from, after a packet was used.
LEMMA SampledTyped ==
  ASSUME LoopTypeOK, NEW p \in Packets
  PROVE  Sampled(p) \in Sources
<1>1. src \in Sources /\ p.seq \in Int
  BY DEF LoopTypeOK, Packets
<1> QED BY <1>1 DEF Sampled, Sources

\* The rest of the type, given the run's own part.
LEMMA Typed ==
  ASSUME Reckoned', step' \in 0 .. MaxSteps, Running' => step' < MaxSteps,
         artifacts' \in {NONE, "succeeded", "failed"},
         plant' \in Plants, pub' \in Publishers, buf' \in Buffers,
         src' \in Sources, hist' \in Histories, others' \in Beside,
         others'.service = "hung" => pc' = "publish" /\ Asks'
  PROVE  LoopTypeOK'
<1> QED BY DEF Reckoned, LoopTypeOK

\* The initial state is well typed.
LEMMA LoopTypeInit ==
  ASSUME LoopInit
  PROVE  LoopTypeOK
<1> USE DEF LoopInit
<1>1. job \in Jobs /\ pc = "build" /\ ep = 0 /\ step = 0 /\ results = <<>> /\ artifacts = NONE
  OBVIOUS
<1>2. MaxSteps \in Nat /\ Frames \in Nat \ {0} /\ HoldSteps \in Nat
  BY LoopAssumption
<1>3. pub \in Publishers
  BY <1>2 DEF Publishers
<1>4. buf \in Buffers
  BY DEF Buffers
<1>5. src \in Sources /\ plant \in Plants
  BY DEF Sources, Plants, Posed
<1>6. hist \in Histories
  <2> DEFINE r == [i \in 0 .. Span - 1 |-> NONE]
  <2>1. r \in [0 .. Span - 1 -> (Nat \X Nat) \cup {NONE}] /\ 0 \in 0 .. Span - 1
    BY SpanTyped
  <2>2. hist = [ring |-> r, at |-> 0, seen |-> <<>>]
    OBVIOUS
  <2>3. <<>> \in Seq(Nat)
    OBVIOUS
  <2> HIDE DEF r
  <2> QED BY <2>1, <2>2, <2>3 DEF Histories
<1>7. others \in Beside /\ others.service # "hung"
  <2>1. (job.source \notin Local) \in BOOLEAN
    OBVIOUS
  <2>2. CASE job.source = "gr00t"
    BY <2>1, <2>2 DEF Beside, Services
  <2>3. CASE job.source # "gr00t"
    <3>1. others = [service |-> NONE, writer |-> job.source \notin Local,
                    inside |-> FALSE, seq |-> 0, restarts |-> 0, nth |-> 0]
      BY <2>3
    <3>2. NONE # "hung"
      BY LoopAssumption DEF Services
    <3> QED BY <2>1, <3>1, <3>2 DEF Beside, Services
  <2> QED BY <2>2, <2>3
<1>8. 0 \in 0 .. Total /\ 0 \in 0 .. MaxSteps /\ <<>> \in Seq(EpisodeResults)
  BY <1>2, SpanTyped
<1> QED
  BY <1>1, <1>3, <1>4, <1>5, <1>6, <1>7, <1>8 DEF LoopTypeOK, Running

\* Building the loop keeps the type.
LEMMA TypeBuild ==
  ASSUME LoopTypeOK, Build
  PROVE  LoopTypeOK'
<1>1. others' \in Beside /\ others'.service # "hung"
  BY DEF Build, LoopTypeOK, Beside, Services
<1>2. Reckoned'
  <2>1. Total' = Total
    BY DEF Build, Total, Playground
  <2>2. (pc' = "reset" /\ ep' = 1) \/ (pc' = "raised" /\ ep' = 0)
    BY DEF Build, LoopTypeOK
  <2>3. results' = <<>> /\ <<>> \in Seq(EpisodeResults) /\ Len(<<>>) = 0
    BY DEF Build, LoopTypeOK
  <2> QED BY <2>1, <2>2, <2>3, SpanTyped DEF Build, LoopTypeOK, Reckoned, Running
<1>3. ~Running'
  BY DEF Build, Running
<1> QED BY <1>1, <1>2, <1>3, Typed DEF Build, LoopTypeOK

\* publisher.reset, in its parts.
LEMMA ResetTyped ==
  ASSUME LoopTypeOK
  PROVE  /\ ResetPublisher \in Publishers /\ ResetPublisher.seq = pub.seq
         /\ ResetPublisher.z = NONE /\ ResetPublisher.queue = <<>>
         /\ ResetPublisher.prev = NONE /\ ResetPublisher.index = pub.index + 1
<1>1. pub \in Publishers /\ pub.index + 1 \in Nat
  BY DEF LoopTypeOK, Publishers
<1>2. 0 \in 0 .. HoldSteps /\ 0 \in 0 .. Frames - 1 /\ <<>> \in Seq(Latents)
  BY LoopAssumption
<1> DEFINE n == pub.index + 1
           p == [pub EXCEPT !.cursor = 0, !.z = NONE, !.held = 0, !.renewals = 0,
                            !.queue = <<>>, !.prev = NONE, !.index = n]
<1>3. ResetPublisher = p
  BY DEF ResetPublisher
<1> HIDE DEF n
<1>4. p \in Publishers
  BY <1>1, <1>2 DEF Publishers, n
<1>5. p.seq = pub.seq /\ p.z = NONE /\ p.queue = <<>>
  BY <1>1 DEF Publishers
<1>6. p.prev = NONE /\ p.index = n
  BY <1>1 DEF Publishers
<1> HIDE DEF p
<1> QED BY <1>3, <1>4, <1>5, <1>6 DEF n

\* Beginning an episode keeps it.
LEMMA TypeReset ==
  ASSUME LoopTypeOK, Reset
  PROVE  LoopTypeOK'
<1>1. Reckoned' /\ pc = "reset" /\ pc' = "tick"
  <2>1. Total' = Total
    BY DEF Reset, Total, Playground
  <2>2. ep = Len(results) + 1 /\ Len(results) \in Nat
    BY DEF Reset, LoopTypeOK
  <2> QED BY <2>1, <2>2, SpanTyped DEF Reset, LoopTypeOK, Reckoned, Running
<1>2. MaxSteps \in Nat \ {0}
  BY LoopAssumption
<1>3. src' \in Sources /\ plant' \in Plants
  BY DEF Reset, Sources, Plants, Posed
<1>4. hist' \in Histories
  <2> DEFINE r == [i \in 0 .. Span - 1 |-> NONE]
  <2>1. r \in [0 .. Span - 1 -> (Nat \X Nat) \cup {NONE}] /\ 0 \in 0 .. Span - 1
    BY SpanTyped
  <2>2. hist' = [ring |-> r, at |-> 0, seen |-> <<>>]
    BY DEF Reset, ResetHistory
  <2>3. <<>> \in Seq(Nat)
    OBVIOUS
  <2> HIDE DEF r
  <2> QED BY <2>1, <2>2, <2>3 DEF Histories
<1>5. pub' \in Publishers
  BY ResetTyped DEF Reset
<1>6. step' = 0 /\ others'.service # "hung" /\ UNCHANGED <<artifacts, buf, others>>
  BY <1>1 DEF Reset, LoopTypeOK
<1> QED BY <1>1, <1>2, <1>3, <1>4, <1>5, <1>6, Typed DEF LoopTypeOK

\* Checking the robot's state keeps it.
LEMMA TypeCheckState ==
  ASSUME LoopTypeOK, CheckState
  PROVE  LoopTypeOK'
<1>1. /\ pc = "tick" /\ Running /\ others.service # "hung"
      /\ UNCHANGED <<job, step, artifacts, pub, buf, src, hist, others>>
  BY DEF CheckState, Running, LoopTypeOK
<1>2. CASE Damp
  BY <1>1, <1>2, DampTyped, Typed DEF LoopTypeOK, Running
<1>3. CASE pc' \in {"publish", "track"} /\ UNCHANGED <<ep, results, plant>>
  BY <1>1, <1>3, SameReckoned, Typed DEF LoopTypeOK, Running
<1> QED BY <1>1, <1>2, <1>3 DEF CheckState

\* A tick of the publisher keeps it.
LEMMA TypeTick ==
  ASSUME LoopTypeOK, Tick
  PROVE  LoopTypeOK'
<1>1. /\ pc = "publish" /\ pc' = "track" /\ others' = [others EXCEPT !.nth = @ + 1]
      /\ UNCHANGED <<job, ep, step, results, artifacts, src, hist, plant>>
  BY DEF Tick
<1>2. PICK p : Choice(p)
  BY TickChoice
<1>3. pub' \in Publishers /\ buf' \in Buffers
  BY <1>2, PublishTyped DEF Choice
<1>4. others.service # "hung"
  BY DEF Tick, LoopTypeOK, Asks, Playback, Encode, Gr00t, Publish, Due
<1>5. others' \in Beside /\ others'.service # "hung"
  BY <1>1, <1>4 DEF LoopTypeOK, Beside
<1>6. Reckoned' /\ Running
  BY <1>1, SameReckoned DEF Running
<1> QED BY <1>1, <1>3, <1>5, <1>6, Typed DEF LoopTypeOK, Running

\* So does one that fails.
LEMMA TypeTickFails ==
  ASSUME LoopTypeOK, TickFails
  PROVE  LoopTypeOK'
<1>1. /\ pc = "publish" /\ Running
      /\ UNCHANGED <<job, step, artifacts, src, hist, buf, pub>>
  BY DEF TickFails, Running
<1>2. CASE job.source \in {"encoder", "latent"} /\ Fault
  <2>1. others.service # "hung"
    BY <1>2 DEF LoopTypeOK, Asks
  <2> QED BY <1>1, <1>2, <2>1, FaultTyped, Typed DEF LoopTypeOK, Running
<1>3. CASE Damp /\ \E s \in {"up", "dead"} : others' = [others EXCEPT !.service = s]
  <2>1. others' \in Beside /\ others'.service # "hung"
    BY <1>3 DEF LoopTypeOK, Beside, Services
  <2> QED BY <1>1, <1>3, <2>1, DampTyped, Typed DEF LoopTypeOK, Running
<1>4. CASE Raise
  BY <1>1, <1>4, RaiseTyped, Typed DEF LoopTypeOK, Running
<1> QED BY <1>2, <1>3, <1>4 DEF TickFails

\* So does a planner that does not answer.
LEMMA TypeServiceHangs ==
  ASSUME LoopTypeOK, ServiceHangs
  PROVE  LoopTypeOK'
<1>1. pc = "publish" /\ Asks /\ others' = [others EXCEPT !.service = "hung"]
      /\ UNCHANGED <<job, pc, ep, step, results, artifacts, pub, buf, src, hist, plant>>
  BY DEF ServiceHangs
<1>2. others' \in Beside
  BY <1>1 DEF LoopTypeOK, Beside, Services
<1>3. Asks' /\ Reckoned'
  BY <1>1, SameReckoned DEF Asks, Due
<1> QED BY <1>1, <1>2, <1>3, Typed DEF LoopTypeOK, Running

\* So does a tick without a command.
LEMMA TypeUnavailable ==
  ASSUME LoopTypeOK, Unavailable
  PROVE  LoopTypeOK'
<1>1. /\ pc = "track" /\ Running /\ buf' = Snapshot /\ others.service # "hung"
      /\ UNCHANGED <<job, artifacts, pub, hist, others>>
  BY DEF Unavailable, Running, LoopTypeOK
<1>2. src' \in Sources
  <2>1. src \in Sources /\ src.stale + 1 \in Nat /\ src.age + 1 \in Nat
    BY DEF LoopTypeOK, Sources
  <2>2. src' = [src EXCEPT !.stale = src.stale + 1, !.age = src.age + 1]
    BY DEF Unavailable
  <2> QED BY <2>1, <2>2 DEF Sources
<1>3. buf' \in Buffers
  BY <1>1, SnapshotTyped
<1>4. CASE Damp /\ step' = step
  BY <1>1, <1>2, <1>3, <1>4, DampTyped, Typed DEF LoopTypeOK, Running
<1>5. CASE EndTick /\ UNCHANGED plant
  BY <1>1, <1>2, <1>3, <1>5, EndTickTyped, Typed DEF LoopTypeOK, Running
<1> QED BY <1>4, <1>5 DEF Unavailable

\* So does a tick of the tracker.
LEMMA TypeTrack ==
  ASSUME LoopTypeOK, Track
  PROVE  LoopTypeOK'
<1>1. /\ pc = "track" /\ Running /\ buf' = Snapshot /\ others.service # "hung"
      /\ hist' \in {hist, Assemble} /\ src' = Sampled(Snapshot.packet)
      /\ UNCHANGED <<job, artifacts, pub>> /\ Snapshot.packet # NONE
  BY DEF Track, Running, LoopTypeOK
<1>2. Snapshot \in Buffers /\ Snapshot.packet \in Packets
  BY <1>1, SnapshotTyped DEF Buffers
<1>3. buf' \in Buffers /\ src' \in Sources /\ hist' \in Histories
  BY <1>1, <1>2, SampledTyped, AssembleTyped DEF LoopTypeOK
<1>4. CASE plant' = Given("joint", Snapshot.packet) /\ EndTick /\ UNCHANGED others
  BY <1>1, <1>2, <1>3, <1>4, GivenTyped, EndTickTyped, Typed DEF LoopTypeOK, Running
<1>5. CASE Fault /\ step' = step
  BY <1>1, <1>3, <1>5, FaultTyped, Typed DEF LoopTypeOK, Running
<1>6. CASE Raise /\ step' = step
  BY <1>1, <1>3, <1>6, RaiseTyped, Typed DEF LoopTypeOK, Running
<1> QED BY <1>4, <1>5, <1>6 DEF Track

\* A message that does not decode goes, and those before it have been read.
LEMMA MalformedTyped ==
  ASSUME LoopTypeOK, Malformed
  PROVE  \E n \in 1 .. Len(buf.wire) :
           /\ n - 1 \in 0 .. Len(buf.wire) /\ buf' \in Buffers
           /\ buf'.packet = Drained(n - 1).packet /\ buf'.high = Drained(n - 1).high
           /\ buf'.wire = Tail(SubSeq(buf.wire, n, Len(buf.wire)))
<1>1. PICK n \in 1 .. Len(buf.wire) : buf' = [Drained(n - 1) EXCEPT !.wire = Tail(@)]
  BY DEF Malformed
<1>2. buf.wire \in Seq(Packets) /\ Len(buf.wire) \in Nat
  BY DEF LoopTypeOK, Buffers
<1>3. n - 1 \in 0 .. Len(buf.wire) /\ n - 1 + 1 = n
  BY <1>2
<1> DEFINE d == Drained(n - 1)
           rest == SubSeq(buf.wire, n, Len(buf.wire))
<1>4. d \in Buffers /\ d.wire = rest
  BY <1>3, DrainedTyped
<1>5. Tail(rest) \in Seq(Packets)
  <2>1. rest \in Seq(Packets) /\ Len(rest) = Len(buf.wire) - n + 1
    BY <1>2
  <2> HIDE DEF rest
  <2>2. rest # <<>>
    BY <1>2, <2>1
  <2> QED BY <2>1, <2>2
<1> HIDE DEF d, rest
<1>6. buf' = [d EXCEPT !.wire = Tail(rest)]
  BY <1>1, <1>4 DEF d
<1>7. buf' \in Buffers /\ buf'.packet = d.packet /\ buf'.high = d.high /\ buf'.wire = Tail(rest)
  BY <1>4, <1>5, <1>6 DEF Buffers
<1> QED BY <1>3, <1>7 DEF d, rest

\* So does such a message.
LEMMA TypeMalformed ==
  ASSUME LoopTypeOK, Malformed
  PROVE  LoopTypeOK'
<1>1. /\ pc = "track" /\ Running /\ others.service # "hung"
      /\ UNCHANGED <<job, step, artifacts, pub, src, hist>>
  BY DEF Malformed, Running, LoopTypeOK
<1>2. buf' \in Buffers
  BY MalformedTyped
<1>3. CASE Damp /\ UNCHANGED others
  BY <1>1, <1>2, <1>3, DampTyped, Typed DEF LoopTypeOK, Running
<1>4. CASE Raise
  BY <1>1, <1>2, <1>4, RaiseTyped, Typed DEF LoopTypeOK, Running
<1> QED BY <1>3, <1>4 DEF Malformed

\* So does the report.
LEMMA TypeReport ==
  ASSUME LoopTypeOK, Report
  PROVE  LoopTypeOK'
<1>1. others' \in Beside /\ others'.service # "hung"
  <2>1. Closed(others.service) \in Services \cup {NONE} /\ Closed(others.service) # "hung"
    BY DEF Closed, LoopTypeOK, Beside, Services
  <2> QED BY <2>1 DEF Report, LoopTypeOK, Beside
<1>2. Reckoned' /\ ~Running'
  <2>1. Total' = Total
    BY DEF Report, Total, Playground
  <2> QED BY <2>1 DEF Report, LoopTypeOK, Reckoned, Running
<1>3. artifacts' \in {NONE, "succeeded", "failed"}
  BY DEF Report
<1> QED BY <1>1, <1>2, <1>3, Typed DEF Report, LoopTypeOK

\* So does Ctrl-C.
LEMMA TypeInterrupt ==
  ASSUME LoopTypeOK, Interrupt
  PROVE  LoopTypeOK'
<1> QED BY RaiseTyped, Typed DEF Interrupt, LoopTypeOK, Running

\* So does a planner that exits.
LEMMA TypeServiceDies ==
  ASSUME LoopTypeOK, ServiceDies
  PROVE  LoopTypeOK'
<1>1. others' \in Beside /\ others'.service # "hung"
      /\ UNCHANGED <<job, step, artifacts, pub, buf, src, hist>>
  BY DEF ServiceDies, LoopTypeOK, Beside, Services
<1>2. CASE others.service = "hung"
  <2>1. Running /\ Damp
    BY <1>2 DEF ServiceDies, LoopTypeOK, Running
  <2> QED BY <1>1, <2>1, DampTyped, Typed DEF LoopTypeOK, Running
<1>3. CASE others.service # "hung"
  <2>1. UNCHANGED <<pc, ep, results, plant>>
    BY <1>3 DEF ServiceDies
  <2> QED BY <1>1, <2>1, SameReckoned, Typed DEF LoopTypeOK, Running
<1> QED BY <1>2, <1>3

\* A pushed message is a packet.
LEMMA PacketTyped ==
  ASSUME NEW s \in Nat, NEW k \in Nat
  PROVE  [seq |-> s, nth |-> k, z |-> NONE] \in Packets
<1> QED BY DEF Packets

\* A push keeps the type, whatever the wire drops or overwrites.
LEMMA TypePush ==
  ASSUME LoopTypeOK, Push
  PROVE  LoopTypeOK'
<1> DEFINE packet == [seq |-> others.seq + 1, nth |-> others.nth + 1, z |-> NONE]
<1>1. /\ others.seq \in Nat /\ others.nth \in Nat /\ others \in Beside /\ buf \in Buffers
      /\ UNCHANGED <<job, pc, ep, step, results, artifacts, pub, src, hist, plant>>
      /\ others' = [others EXCEPT !.seq = @ + 1, !.nth = @ + 1]
  BY DEF Push, LoopTypeOK, Beside
<1>2. packet \in Packets
  BY <1>1, PacketTyped
<1>3. others' \in Beside /\ others'.service = others.service
  <2>1. others.seq + 1 \in Nat /\ others.nth + 1 \in Nat
    BY <1>1
  <2>2. others' = [others EXCEPT !.seq = others.seq + 1, !.nth = others.nth + 1]
    BY <1>1
  <2>3. others' \in Beside
    BY <1>1, <2>1, <2>2 DEF Beside
  <2>4. others'.service = others.service
    BY <1>1, <2>2 DEF Beside
  <2> QED BY <2>3, <2>4
<1>4. \/ buf' = [buf EXCEPT !.wire = Append(@, packet)]
      \/ buf' = [buf EXCEPT !.packet = packet]
      \/ buf' = buf
  BY DEF Push
<1> HIDE DEF packet
<1>5. buf' \in Buffers
  <2>1. buf.wire \in Seq(Packets)
    BY <1>1 DEF Buffers
  <2> DEFINE wire == Append(buf.wire, packet)
  <2>2. wire \in Seq(Packets)
    BY <1>2, <2>1
  <2>3. buf' = [buf EXCEPT !.wire = wire] \/ buf' = [buf EXCEPT !.packet = packet] \/ buf' = buf
    BY <1>4
  <2> HIDE DEF wire
  <2> QED BY <1>1, <1>2, <2>2, <2>3 DEF Buffers
<1>6. Asks => Asks'
  BY <1>1 DEF Asks, Due
<1> QED BY <1>1, <1>3, <1>5, <1>6, SameReckoned, Typed DEF LoopTypeOK, Running

\* So does a pushing process that starts again.
LEMMA TypePusherRestarts ==
  ASSUME LoopTypeOK, PusherRestarts
  PROVE  LoopTypeOK'
<1>1. UNCHANGED <<job, pc, ep, step, results, artifacts, pub, buf, src, hist, plant>>
  BY DEF PusherRestarts
<1>2. others' \in Beside /\ others'.service = others.service
  <2>1. others \in Beside
    BY DEF LoopTypeOK
  <2>2. CASE \E inside \in {others.inside, job.source = "shm"} :
               others' = [others EXCEPT !.writer = FALSE, !.inside = inside]
    <3>1. PICK inside \in {others.inside, job.source = "shm"} :
            others' = [others EXCEPT !.writer = FALSE, !.inside = inside]
      BY <2>2
    <3>2. inside \in BOOLEAN
      BY <2>1 DEF Beside
    <3> QED BY <2>1, <3>1, <3>2 DEF Beside
  <2>3. CASE others' = [others EXCEPT !.writer = TRUE, !.seq = 0, !.restarts = 1]
    <3>1. others' \in Beside
      <4> DEFINE n == 0
                 r == 1
      <4>1. n \in Nat /\ r \in 0 .. 1 /\ others' = [others EXCEPT !.writer = TRUE, !.seq = n, !.restarts = r]
        BY <2>3
      <4> HIDE DEF n, r
      <4> QED BY <2>1, <4>1 DEF Beside
    <3>2. others'.service = others.service
      BY <2>1, <2>3 DEF Beside
    <3> QED BY <3>1, <3>2
  <2> QED BY <2>2, <2>3 DEF PusherRestarts
<1>3. Asks => Asks'
  BY <1>1 DEF Asks, Due
<1> QED BY <1>1, <1>2, <1>3, SameReckoned, Typed DEF LoopTypeOK, Running

\* Every step keeps the state well typed.
LEMMA LoopTypeStep ==
  ASSUME LoopTypeOK, [LoopNext]_loopVars
  PROVE  LoopTypeOK'
<1>1. CASE UNCHANGED loopVars
  <2>1. UNCHANGED <<job, pc, ep, step, results, artifacts, pub, buf, src, hist, plant, others>>
    BY <1>1 DEF loopVars
  <2>2. Asks => Asks'
    BY <2>1 DEF Asks, Due
  <2> QED BY <2>1, <2>2, SameReckoned, Typed DEF LoopTypeOK, Running
<1>2. CASE LoopNext
  BY <1>2, TypeBuild, TypeReset, TypeCheckState, TypeTick, TypeTickFails, TypeUnavailable,
     TypeTrack, TypeMalformed, TypeReport, TypeInterrupt, TypeServiceHangs, TypeServiceDies,
     TypePush, TypePusherRestarts DEF LoopNext, Loop
<1> QED BY <1>1, <1>2

--------------------------------------------------------------------------------
(* What a tick that feeds the robot, or does not, leaves *)

\* But for a tick of the tracker or a tick without a command, an episode that
\* runs on keeps its count, its history and what the robot was given.
LEMMA RunsOn ==
  ASSUME LoopTypeOK, [LoopNext]_loopVars, Running', ~Track
  PROVE  \/ Reset
         \/ Unavailable /\ EndTick /\ Running /\ ep' = ep /\ UNCHANGED plant
         \/ Running /\ UNCHANGED <<job, ep, step, src, hist, plant>>
<1>1. ASSUME Running, job' = job, Damp PROVE FALSE
  BY <1>1, DampTyped DEF Running
<1>2. ASSUME Raise PROVE FALSE
  BY <1>2 DEF Raise, Running
<1>3. ASSUME Running, job' = job, Fault PROVE FALSE
  BY <1>1, <1>2, <1>3 DEF Fault
<1>4. CASE UNCHANGED loopVars
  BY <1>4 DEF loopVars, Running
<1>5. CASE Build \/ Report \/ Interrupt \/ TickFails \/ Malformed
  <2>1. ~Build /\ ~Report /\ ~Interrupt
    BY <1>2 DEF Build, Report, Interrupt, Running
  <2>2. ~TickFails
    BY <1>1, <1>2, <1>3 DEF TickFails, Running
  <2>3. ~Malformed
    BY <1>1, <1>2 DEF Malformed, Running
  <2> QED BY <1>5, <2>1, <2>2, <2>3
<1>6. CASE CheckState
  BY <1>1, <1>6 DEF CheckState, Running
<1>7. CASE Unavailable
  <2>1. Running /\ job' = job /\ Total' = Total
    BY <1>7 DEF Unavailable, Running, Total, Playground
  <2>2. EndTick /\ UNCHANGED plant
    BY <1>1, <1>7, <2>1 DEF Unavailable
  <2>3. ep' = ep
    BY <2>1, <2>2, EndTickTyped DEF Running
  <2> QED BY <1>7, <2>1, <2>2, <2>3
<1>8. CASE ServiceDies
  <2>1. CASE others.service = "hung"
    BY <1>1, <1>8, <2>1 DEF ServiceDies, LoopTypeOK, Running
  <2>2. CASE others.service # "hung"
    BY <1>8, <2>2 DEF ServiceDies, Running
  <2> QED BY <2>1, <2>2
<1>9. CASE Tick \/ ServiceHangs \/ Push \/ PusherRestarts
  BY <1>9 DEF Tick, ServiceHangs, Push, PusherRestarts, Running
<1> QED BY <1>4, <1>5, <1>6, <1>7, <1>8, <1>9 DEF LoopNext, Loop

\* A tick of the tracker gives the robot a joint command.
LEMMA TrackFeeds ==
  ASSUME LoopTypeOK, Track, Running'
  PROVE  /\ Running /\ EndTick /\ ep' = ep /\ job' = job /\ plant'.kind = "joint"
         /\ hist' = Assemble
<1>1. /\ Running /\ job' = job /\ others.service # "hung"
      /\ Snapshot.packet \in Packets
  BY SnapshotTyped DEF Track, Running, LoopTypeOK, Buffers
<1>2. ~Fault /\ ~Raise
  BY <1>1, FaultTyped DEF Running, Raise
<1>3. EndTick /\ plant' = Given("joint", Snapshot.packet) /\ hist' = Assemble
  BY <1>2 DEF Track
<1>4. ep' = ep
  BY <1>1, <1>3, EndTickTyped DEF Running
<1> QED BY <1>1, <1>3, <1>4, GivenTyped

\* Every step keeps the watchdog's count: the robot has had no command since the
\* episode began exactly if every tick of it is counted stale.
LEMMA UnfedStep ==
  ASSUME LoopTypeOK, Unfed, [LoopNext]_loopVars
  PROVE  Unfed'
<1> SUFFICES ASSUME Running', plant'.kind = "pose"
             PROVE  src'.stale = step' /\ step' <= AbsentTicks
  BY DEF Unfed
<1>1. AbsentTicks \in Nat /\ src \in Sources /\ step \in Nat
  BY LoopAssumption DEF LoopTypeOK
<1>2. ~Track
  BY TrackFeeds
<1>3. CASE Reset
  BY <1>1, <1>3 DEF Reset
<1>4. CASE Unavailable /\ EndTick /\ Running /\ UNCHANGED plant
  <2>1. src.stale = step
    BY <1>4 DEF Unfed
  <2>2. src'.stale = src.stale + 1 /\ step' = step + 1
    BY <1>1, <1>4 DEF Unavailable, EndTick, Sources
  <2>3. src.stale + 1 <= AbsentTicks
    <3>1. CASE src.stale + 1 > AbsentTicks
      <4>1. Damp /\ job' = job
        BY <1>4, <3>1 DEF Unavailable
      <4> QED BY <1>4, <4>1, DampTyped DEF Running
    <3> QED BY <1>1, <2>1, <3>1
  <2> QED BY <2>1, <2>2, <2>3
<1>5. CASE Running /\ UNCHANGED <<step, src, plant>>
  BY <1>5 DEF Unfed
<1> QED BY <1>2, <1>3, <1>4, <1>5, RunsOn

--------------------------------------------------------------------------------
(* The history *)

\* Once there is a packet there is always one.
LEMMA PacketKept ==
  ASSUME LoopTypeOK, [LoopNext]_loopVars, buf.packet # NONE
  PROVE  buf'.packet # NONE
<1>1. CASE buf' = buf
  BY <1>1
<1>2. CASE Tick
  BY <1>2, TickChoice, PublishTyped DEF Choice
<1>3. CASE buf' = Snapshot
  BY <1>3, SnapshotTyped, Kept
<1>4. CASE Malformed
  BY <1>4, MalformedTyped, Kept
<1>5. CASE Push
  <2> DEFINE packet == [seq |-> others.seq + 1, nth |-> others.nth + 1, z |-> NONE]
  <2>1. packet \in Packets /\ buf \in Buffers
    BY PacketTyped DEF LoopTypeOK, Beside
  <2>2. packet # NONE
    BY <2>1, LoopAssumption
  <2>3. \/ buf' = [buf EXCEPT !.wire = Append(@, packet)]
        \/ buf' = [buf EXCEPT !.packet = packet]
        \/ buf' = buf
    BY <1>5 DEF Push
  <2> HIDE DEF packet
  <2> QED BY <2>1, <2>2, <2>3 DEF Buffers
<1> QED
  BY <1>1, <1>2, <1>3, <1>4, <1>5 DEF LoopNext, Loop, loopVars, Build, Reset, CheckState,
     TickFails, Unavailable, Track, Report, Interrupt, ServiceHangs, ServiceDies, PusherRestarts

\* A history that has begun, or a robot that was driven, has had a packet.
LEMMA FirstRecorded ==
  ASSUME LoopTypeOK, Recorded, [LoopNext]_loopVars
  PROVE  hist'.seen # <<>> \/ plant'.kind = "joint" => buf'.packet # NONE
<1>1. CASE Track
  BY <1>1 DEF Track
<1>2. CASE Reset
  BY <1>2 DEF Reset, ResetHistory, Posed
<1>3. CASE ~Track /\ ~Reset
  <2>1. hist' = hist
    BY <1>3 DEF LoopNext, Loop, loopVars, Build, CheckState, Tick, TickFails, Unavailable,
       Malformed, Report, Interrupt, ServiceHangs, ServiceDies, Push, PusherRestarts
  <2>2. plant' = plant \/ plant' = Given("damp", NONE)
    BY <1>3 DEF LoopNext, Loop, loopVars, Build, CheckState, Tick, TickFails, Unavailable,
       Malformed, Report, Interrupt, ServiceHangs, ServiceDies, Push, PusherRestarts,
       Damp, Raise, Fault
  <2>3. plant'.kind = "joint" => plant.kind = "joint"
    BY <2>2, GivenTyped
  <2> QED BY <2>1, <2>3, PacketKept DEF Recorded
<1> QED BY <1>1, <1>2, <1>3

\* Every step keeps the ring: the last Span frames of the episode, the newest under
\* the cursor, and no tick missing but over shared memory.
LEMMA RecordedStep ==
  ASSUME LoopTypeOK, Recorded, [LoopNext]_loopVars
  PROVE  Recorded'
<1> DEFINE Ring == \A j \in 0 .. Span - 1 : hist.ring[Back(j)] = Shown(j)
           Whole == job.source # "shm" =>
                      \A j \in 0 .. Len(hist.seen) - 1 :
                         hist.seen[Len(hist.seen) - j] = step - 1 - j
<1> SUFFICES ASSUME Running', hist'.seen # <<>> PROVE Ring' /\ Whole'
  BY FirstRecorded DEF Recorded
<1>1. hist \in Histories /\ step \in Nat /\ Span \in Nat \ {0} /\ Span' = Span
  BY SpanTyped DEF LoopTypeOK, Span
<1>2. CASE ~Track
  <2>1. ~Reset
    BY DEF Reset, ResetHistory
  <2>2. CASE Unavailable /\ Running /\ ep' = ep
    <3>1. hist' = hist /\ job' = job /\ (Snapshot.packet = NONE \/ job.source = "shm")
      BY <2>2 DEF Unavailable, MayGiveUp
    <3>2. job.source = "shm"
      BY <3>1, SnapshotTyped, Kept DEF Recorded
    <3>3. Ring'
      BY <1>1, <2>2, <3>1 DEF Recorded, Back, Shown
    <3> QED BY <3>1, <3>2, <3>3
  <2>3. CASE Running /\ UNCHANGED <<job, ep, step, hist>>
    BY <1>1, <2>3 DEF Recorded, Back, Shown
  <2> QED BY <1>2, <2>1, <2>2, <2>3, RunsOn
<1>3. CASE Track
  <2>1. /\ Running /\ ep' = ep /\ step' = step + 1 /\ job' = job /\ hist' = Assemble
    BY <1>3, TrackFeeds DEF EndTick
  <2>2. CASE hist.seen = <<>>
    <3> DEFINE r == [i \in 0 .. Span - 1 |->
                       IF i = 0 \/ job.fill = "repeat_first" THEN <<ep, step>> ELSE <<0, 0>>]
    <3>1. hist' = [ring |-> r, at |-> 0, seen |-> <<step>>]
      BY <2>1, <2>2 DEF Assemble
    <3>2. /\ hist'.at = 0 /\ hist'.seen = <<step>> /\ hist'.ring = r
          /\ Len(hist'.seen) = 1 /\ hist'.seen[1] = step
      BY <3>1
    <3>3. job.fill \in {"repeat_first", "zeros"}
      BY DEF LoopTypeOK, Jobs
    <3>4. ASSUME NEW j \in 0 .. Span - 1
          PROVE  hist'.ring[Back(j)'] = Shown(j)'
      <4>1. Back(j)' \in 0 .. Span - 1 /\ (Back(j)' = 0 <=> j = 0)
        BY <1>1, <3>2, <3>4 DEF Back
      <4>2. CASE j = 0
        <5>1. Shown(j)' = <<ep, step>>
          BY <1>1, <2>1, <3>2, <4>2 DEF Shown
        <5> QED BY <3>2, <4>1, <4>2, <5>1
      <4>3. CASE j # 0
        <5>1. ~ (j < Len(hist'.seen))
          BY <1>1, <3>2, <3>4, <4>3
        <5>2. Shown(j)' = IF job.fill = "zeros" THEN <<0, 0>> ELSE <<ep, step>>
          BY <2>1, <3>2, <5>1 DEF Shown
        <5> QED BY <3>2, <3>3, <4>1, <4>3, <5>2
      <4> QED BY <4>2, <4>3
    <3>5. Whole'
      BY <1>1, <2>1, <3>2
    <3> QED BY <1>1, <3>4, <3>5
  <2>3. CASE hist.seen # <<>>
    <3> DEFINE at == (hist.at + 1) % Span
               r == [hist.ring EXCEPT ![at] = <<ep, step>>]
               n == Len(hist.seen)
    <3>1. hist' = [hist EXCEPT !.at = at, !.ring = r, !.seen = Append(hist.seen, step)]
      BY <2>1, <2>3 DEF Assemble
    <3>2. /\ hist.at \in 0 .. Span - 1 /\ hist.seen \in Seq(Nat)
          /\ hist.ring \in [0 .. Span - 1 -> (Nat \X Nat) \cup {NONE}]
      BY <1>1, <2>3 DEF Histories
    <3>3. at = IF hist.at + 1 = Span THEN 0 ELSE hist.at + 1
      BY <1>1, <3>2, Around
    <3> HIDE DEF at
    <3>4. hist'.at = at /\ hist'.ring = r /\ hist'.seen = Append(hist.seen, step)
      BY <1>1, <3>1 DEF Histories
    <3>5. /\ n \in Nat \ {0} /\ Len(hist'.seen) = n + 1 /\ hist'.seen[n + 1] = step
          /\ \A i \in 1 .. n : hist'.seen[i] = hist.seen[i]
      BY <1>1, <2>3, <3>2, <3>4
    <3> HIDE DEF n
    <3>8. n = Len(hist.seen)
      BY DEF n
    <3>6. ASSUME NEW j \in 0 .. Span - 1
          PROVE  hist'.ring[Back(j)'] = Shown(j)'
      <4>1. CASE j = 0
        <5>1. Back(j)' = at /\ at \in 0 .. Span - 1
          BY <1>1, <3>2, <3>3, <3>4, <4>1 DEF Back
        <5>2. hist'.ring[Back(j)'] = <<ep, step>>
          BY <3>2, <3>4, <5>1
        <5>3. j < Len(hist'.seen) /\ Len(hist'.seen) - j = n + 1
          BY <3>5, <4>1
        <5> QED BY <2>1, <3>5, <5>2, <5>3 DEF Shown
      <4>2. CASE j # 0
        <5>1. j - 1 \in 0 .. Span - 1 /\ j \in Nat \ {0}
          BY <1>1, <3>6, <4>2
        <5>2. /\ Back(j)' = Back(j - 1) /\ Back(j - 1) # at
              /\ Back(j - 1) \in 0 .. Span - 1
          <6>1. Back(j)' = IF j <= at THEN at - j ELSE at - j + Span
            BY <1>1, <3>4 DEF Back
          <6>2. Back(j - 1) = IF j - 1 <= hist.at THEN hist.at - (j - 1)
                                                  ELSE hist.at - (j - 1) + Span
            BY DEF Back
          <6>3. /\ hist.at \in Nat /\ Span \in Nat /\ j \in Nat
                /\ hist.at < Span /\ 0 < j /\ j < Span
            BY <1>1, <3>2, <3>6, <4>2
          <6>4. CASE hist.at + 1 = Span
            BY <3>3, <6>1, <6>2, <6>3, <6>4
          <6>5. CASE hist.at + 1 # Span
            BY <3>3, <6>1, <6>2, <6>3, <6>5
          <6> QED BY <6>4, <6>5
        <5>3. hist'.ring[Back(j)'] = hist.ring[Back(j - 1)]
          BY <3>2, <3>4, <5>2
        <5>4. hist.ring[Back(j - 1)] = Shown(j - 1)
          BY <2>1, <2>3, <5>1 DEF Recorded
        <5>5. CASE j - 1 < n
          <6>1. j < n + 1 /\ n + 1 - j = n - (j - 1) /\ n + 1 - j \in 1 .. n
            BY <3>5, <5>1, <5>5
          <6>2. Shown(j - 1) = <<ep, hist.seen[n + 1 - j]>>
            BY <3>8, <5>5, <6>1 DEF Shown
          <6>3. Shown(j)' = <<ep, hist'.seen[n + 1 - j]>>
            BY <2>1, <3>5, <6>1 DEF Shown
          <6> QED BY <3>5, <5>3, <5>4, <6>1, <6>2, <6>3
        <5>6. CASE ~ (j - 1 < n)
          <6>1. ~ (j < n + 1) /\ 1 \in 1 .. n
            BY <3>5, <5>1, <5>6
          <6>2. Shown(j - 1) = IF job.fill = "zeros" THEN <<0, 0>> ELSE <<ep, hist.seen[1]>>
            BY <3>8, <5>6 DEF Shown
          <6>3. Shown(j)' = IF job.fill = "zeros" THEN <<0, 0>> ELSE <<ep, hist'.seen[1]>>
            BY <2>1, <3>5, <6>1 DEF Shown
          <6> QED BY <3>5, <5>3, <5>4, <6>1, <6>2, <6>3
        <5> QED BY <5>5, <5>6
      <4> QED BY <4>1, <4>2
    <3>7. ASSUME job.source # "shm", NEW j \in 0 .. n
          PROVE  hist'.seen[n + 1 - j] = step' - 1 - j
      <4>1. CASE j = 0
        BY <1>1, <2>1, <3>5, <4>1
      <4>2. CASE j # 0
        <5>1. /\ j - 1 \in 0 .. n - 1 /\ n + 1 - j = n - (j - 1) /\ n + 1 - j \in 1 .. n
              /\ step' - 1 - j = step - 1 - (j - 1)
          BY <1>1, <2>1, <3>5, <4>2
        <5>2. hist.seen[n - (j - 1)] = step - 1 - (j - 1)
          BY <2>1, <2>3, <3>7, <3>8, <5>1 DEF Recorded
        <5> QED BY <3>5, <5>1, <5>2
      <4> QED BY <4>1, <4>2
    <3>9. Whole'
      <4> SUFFICES ASSUME job'.source # "shm", NEW j \in 0 .. Len(hist'.seen) - 1
                   PROVE  hist'.seen[Len(hist'.seen) - j] = step' - 1 - j
        OBVIOUS
      <4>1. j \in 0 .. n /\ Len(hist'.seen) - j = n + 1 - j
        BY <3>5
      <4> QED BY <2>1, <3>7, <4>1
    <3> QED BY <1>1, <3>6, <3>9
  <2> QED BY <2>2, <2>3
<1> QED BY <1>2, <1>3

--------------------------------------------------------------------------------
(* The local publishers *)

\* The inductive invariant holds at first.
LEMMA LocalInit ==
  ASSUME LoopInit
  PROVE  Unfed /\ Recorded /\ Planned /\ Pushed
<1>1. ~Running /\ plant.kind = "pose" /\ hist.seen = <<>>
  BY DEF LoopInit, Running, Posed
<1>2. Unfed /\ Recorded
  BY <1>1 DEF Unfed, Recorded
<1>3. Planned
  <2> SUFFICES ASSUME job.source \in Local PROVE Planned
    BY DEF Planned
  <2>1. ~others.writer
    <3> DEFINE external == job.source \notin Local
    <3>1. others.writer = external
      BY DEF LoopInit
    <3> QED BY <3>1
  <2>2. buf.wire = <<>> /\ buf.high = pub.seq
    BY DEF LoopInit, Local
  <2>3. pc = "build" /\ pub.index = 0
    BY DEF LoopInit
  <2> QED BY <1>1, <2>1, <2>2, <2>3 DEF Planned
<1>4. Pushed
  <2>1. buf.packet = NONE /\ buf.wire = <<>> /\ others.seq = 0 /\ others.nth = 0
    BY DEF LoopInit
  <2>2. job.source = "zmq" => buf.high = -1
    BY DEF LoopInit
  <2>3. DOMAIN buf.wire = {}
    BY <2>1
  <2> QED BY <2>1, <2>2, <2>3 DEF Pushed
<1> QED BY <1>2, <1>3, <1>4

\* A local publisher's buffer has nothing to read.
LEMMA LocalSnapshot ==
  ASSUME LoopTypeOK, buf.wire = <<>>
  PROVE  Snapshot.packet = buf.packet /\ Snapshot.high = buf.high /\ Snapshot.wire = <<>>
<1>1. Len(buf.wire) = 0
  BY EmptySeq
<1>2. Taken(0) = {}
  BY DEF Taken
<1> QED BY <1>1, <1>2, SnapshotTyped, DrainedTyped

\* The run leaves an episode for the next, or for good.
LEMMA LeavesPlanned ==
  ASSUME LoopTypeOK, Planned, job' = job, pub' = pub,
         buf'.wire = buf.wire, buf'.high = buf.high, others'.writer = others.writer,
         pc' \in {"reset", "report", "done", "raised"},
         pc' = "reset" => Running /\ ep' = ep + 1
  PROVE  Planned'
<1>1. ~Running'
  BY DEF Running
<1>2. ASSUME job.source \in Local, pc' = "reset" PROVE pub'.index + 1 = ep'
  BY <1>2 DEF Planned
<1> QED BY <1>1, <1>2 DEF Planned

\* The end of an episode leads to the next one, or to the report.
LEMMA EndsNext ==
  ASSUME NEW s, NEW n, EndEpisode(s, n)
  PROVE  pc' \in {"reset", "report"} /\ (pc' = "reset" => ep' = ep + 1)
<1> QED BY DEF EndEpisode

\* However a tick fails, that is where it goes.
LEMMA FailsPlanned ==
  ASSUME LoopTypeOK, Planned, Running, job' = job, pub' = pub,
         buf'.wire = buf.wire, buf'.high = buf.high, others'.writer = others.writer,
         Damp \/ Raise \/ Fault
  PROVE  Planned'
<1>1. ASSUME Damp PROVE Planned'
  <2>1. pc' \in {"reset", "report"} /\ (pc' = "reset" => ep' = ep + 1)
    BY <1>1, EndsNext DEF Damp
  <2> QED BY <2>1, LeavesPlanned
<1>2. ASSUME Raise PROVE Planned'
  <2>1. pc' = "raised"
    BY <1>2 DEF Raise
  <2> QED BY <2>1, LeavesPlanned
<1> QED BY <1>1, <1>2 DEF Fault

\* Building the loop keeps what the publisher has planned.
LEMMA PlannedBuild ==
  ASSUME LoopTypeOK, Planned, Build
  PROVE  Planned'
<1>1. /\ pc = "build" /\ pc' \in {"reset", "raised"} /\ (pc' = "reset" => ep' = 1) /\ ep = 0
      /\ job' = job /\ pub' = pub /\ buf' = buf /\ others'.writer = others.writer
  BY DEF Build, LoopTypeOK, Beside
<1>2. ASSUME job.source \in Local, pc' = "reset" PROVE pub'.index + 1 = ep'
  <2>1. pub.index = 0
    BY <1>1, <1>2 DEF Planned
  <2> QED BY <1>1, <1>2, <2>1
<1> QED BY <1>1, <1>2 DEF Planned, Running

\* So does a reset: nothing of the old plan is left.
LEMMA PlannedReset ==
  ASSUME LoopTypeOK, Planned, Reset
  PROVE  Planned'
<1> SUFFICES ASSUME job.source \in Local PROVE Planned'
  BY DEF Reset, Planned
<1>1. /\ pc = "reset" /\ pc' = "tick" /\ UNCHANGED <<job, ep, buf, others>>
      /\ pub' = ResetPublisher
  BY DEF Reset
<1>2. pub.index + 1 = ep
  BY <1>1 DEF Planned
<1>3. DOMAIN pub'.queue = {}
  BY <1>1, ResetTyped
<1> QED BY <1>1, <1>2, <1>3, ResetTyped DEF Planned

\* So does a tick of the tracker, that ends the tick.
LEMMA PlannedTrack ==
  ASSUME LoopTypeOK, Planned, Track
  PROVE  Planned'
<1> SUFFICES ASSUME job.source \in Local PROVE Planned'
  BY DEF Track, Planned
<1>1. /\ pc = "track" /\ Running /\ UNCHANGED <<job, pub>> /\ buf' = Snapshot
      /\ buf.wire = <<>>
  BY DEF Track, Running, Planned
<1>2. buf'.wire = buf.wire /\ buf'.high = buf.high
  BY <1>1, LocalSnapshot
<1>3. CASE Fault \/ Raise
  <2>1. others'.writer = others.writer
    BY <1>1, <1>3, FaultTyped, RaiseTyped DEF LoopTypeOK
  <2> QED BY <1>1, <1>2, <1>3, <2>1, FailsPlanned
<1>4. CASE EndTick /\ UNCHANGED others
  <2>1. CASE pc' = "tick" /\ UNCHANGED <<ep, results>>
    <3>1. step' = step + 1 /\ step \in Nat
      BY <1>4 DEF EndTick, LoopTypeOK
    <3>2. ASSUME pub.z # NONE PROVE step' - pub'.z.at = Since'
      <4>1. /\ pub.z \in Latents /\ pub.held \in Nat /\ HoldSteps \in Nat
        BY <3>2, LoopAssumption DEF LoopTypeOK, Publishers
      <4>2. pub.z.at \in Nat /\ pub.z.slot \in Nat
        BY <4>1 DEF Latents
      <4> DEFINE k == (pub.z.slot - 1) * HoldSteps
      <4>3. k \in Int
        BY <4>1, <4>2
      <4>4. step - pub.z.at = k + pub.held - 1
        BY <1>1, <3>2 DEF Planned, Since
      <4>5. Since' = k + pub.held - 0
        BY <1>1, <2>1 DEF Since
      <4>6. step' - pub'.z.at = (step - pub.z.at) + 1
        BY <1>1, <3>1, <4>2
      <4> HIDE DEF k
      <4> QED BY <4>1, <4>3, <4>4, <4>5, <4>6
    <3> QED BY <1>1, <1>2, <1>4, <2>1, <3>2 DEF Planned, Running, GoalFrom
  <2>2. CASE \E s \in {"reference_finished", "completed", "fell"} : EndEpisode(s, step + 1)
    <3>1. pc' \in {"reset", "report"} /\ (pc' = "reset" => ep' = ep + 1)
      BY <2>2, EndsNext
    <3> QED BY <1>1, <1>2, <1>4, <3>1, LeavesPlanned
  <2> QED BY <1>4, <2>1, <2>2 DEF EndTick
<1> QED BY <1>3, <1>4 DEF Track

\* A latent on time: the ticks since it was asked for are those of the latents
\* before it and those that it has been held.
LEMMA NextHold ==
  ASSUME NEW s \in Nat, NEW k \in Nat
  PROVE  (s - 1) * k + k = ((s + 1) - 1) * k /\ (1 - 1) * k = 0
<1>1. (s - 1) * k = s * k - k
  OBVIOUS
<1> QED BY <1>1

\* So does a tick of the publisher: a held latent is held once more, a due one is
\* the next of the plan or the first of a new one.
LEMMA PlannedTick ==
  ASSUME LoopTypeOK, Planned, Tick
  PROVE  Planned'
<1>1. /\ pc = "publish" /\ pc' = "track" /\ Running /\ Running'
      /\ others' = [others EXCEPT !.nth = @ + 1] /\ UNCHANGED <<job, ep, step>>
      /\ job.source \in Local
  BY DEF Tick, Running, Playback, Encode, Gr00t, Local
<1>2. PICK p : Choice(p)
  BY TickChoice
<1>3. p \in Publishers /\ pub \in Publishers /\ HoldSteps \in Nat \ {0} /\ step \in Nat /\ ep \in Nat
  BY <1>2, LoopAssumption, SpanTyped DEF Choice, LoopTypeOK
<1>4. /\ buf.wire = <<>> /\ ~others.writer /\ buf.high = pub.seq
      /\ pub.index = ep /\ pub.prev \in {NONE, ep}
  BY <1>1 DEF Planned
<1>5. others'.writer = others.writer /\ others'.nth = others.nth + 1
  BY <1>1 DEF LoopTypeOK, Beside
<1>6. /\ buf'.wire = <<>> /\ buf'.high = pub'.seq /\ buf'.packet # NONE
      /\ buf'.packet.z = p.z /\ buf'.packet.nth = others'.nth
      /\ pub' = [p EXCEPT !.seq = @ + 1, !.held = @ + 1]
  BY <1>2, <1>4, <1>5, PublishTyped DEF Choice
<1>7. pub'.z = p.z /\ pub'.held = p.held + 1
  BY <1>3, <1>6 DEF Publishers
<1>8. pub'.queue = p.queue /\ pub'.prev = p.prev /\ pub'.index = p.index
  BY <1>3, <1>6 DEF Publishers
<1>9. pub'.index = ep /\ pub'.prev \in {NONE, ep}
  BY <1>2, <1>4, <1>8 DEF Choice
<1>10. Since' = (p.z.slot - 1) * HoldSteps + (p.held + 1) - 1
  BY <1>1, <1>7 DEF Since
<1> DEFINE Good ==
             /\ p.z # NONE /\ p.z.ep = ep /\ p.z.goal = GoalFrom(p.z.at) /\ p.z.seed \in {NONE, ep}
             /\ p.held + 1 > 0 /\ step - p.z.at = (p.z.slot - 1) * HoldSteps + (p.held + 1) - 1
             /\ p.queue # <<>> => job.source = "gr00t"
             /\ \A i \in DOMAIN p.queue :
                  /\ p.queue[i].ep = ep /\ p.queue[i].goal = GoalFrom(p.z.at)
                  /\ p.queue[i].seed \in {NONE, ep}
                  /\ p.queue[i].at = p.z.at /\ p.queue[i].slot = p.z.slot + i
<1>11. CASE ~Due /\ p.z = pub.z /\ p.held = pub.held /\ p.queue = pub.queue
  <2>1. pub.z # NONE /\ pub.z \in Latents /\ pub.held \in Nat
    BY <1>3, <1>11 DEF Due, Publishers
  <2>2. /\ pub.z.ep = ep /\ pub.z.goal = GoalFrom(pub.z.at) /\ pub.z.seed \in {NONE, ep}
        /\ step - pub.z.at = Since
    BY <1>1, <2>1 DEF Planned
  <2>3. step - pub.z.at = (pub.z.slot - 1) * HoldSteps + (pub.held + 1) - 1
    <3> DEFINE k == (pub.z.slot - 1) * HoldSteps
    <3>1. Since = k + pub.held - 0
      BY <1>1 DEF Since
    <3>2. k \in Int
      BY <1>3, <2>1 DEF Latents
    <3> HIDE DEF k
    <3>3. k + pub.held - 0 = k + (pub.held + 1) - 1
      BY <2>1, <3>2
    <3> QED BY <2>2, <3>1, <3>3 DEF k
  <2>4. /\ pub.queue # <<>> => job.source = "gr00t"
        /\ \A i \in DOMAIN pub.queue :
             /\ pub.queue[i].ep = ep /\ pub.queue[i].goal = GoalFrom(pub.z.at)
             /\ pub.queue[i].seed \in {NONE, ep}
             /\ pub.queue[i].at = pub.z.at /\ pub.queue[i].slot = pub.z.slot + i
    BY <1>1 DEF Planned
  <2>5. Good
    BY <1>11, <2>1, <2>2, <2>3, <2>4
  <2> QED BY <1>1, <1>4, <1>5, <1>6, <1>7, <1>8, <1>9, <1>10, <2>5 DEF Planned, GoalFrom
<1>12. CASE /\ Due /\ job.source = "gr00t" /\ pub.queue # <<>>
            /\ p.z = Head(pub.queue) /\ p.queue = Tail(pub.queue) /\ p.held = 0
  <2>1. pub.z # NONE /\ pub.z \in Latents /\ pub.held \in 0 .. HoldSteps /\ pub.queue \in Seq(Latents)
    BY <1>1, <1>3, <1>12 DEF Publishers, Planned
  <2>2. pub.held = HoldSteps
    BY <1>3, <1>12, <2>1 DEF Due
  <2>3. ASSUME NEW i \in 1 .. Len(pub.queue)
        PROVE  /\ pub.queue[i].ep = ep /\ pub.queue[i].goal = GoalFrom(pub.z.at)
               /\ pub.queue[i].seed \in {NONE, ep}
               /\ pub.queue[i].at = pub.z.at /\ pub.queue[i].slot = pub.z.slot + i
               /\ pub.queue[i] \in Latents
    BY <1>1, <2>1 DEF Planned
  <2> DEFINE q == pub.queue
             s == pub.z.slot
             k == (s - 1) * HoldSteps
  <2>4. q \in Seq(Latents) /\ q # <<>> /\ Len(q) \in Nat \ {0} /\ s \in Nat /\ pub.z.at \in Nat
    <3>1. q \in Seq(Latents) /\ q # <<>>
      BY <1>12, <2>1
    <3> HIDE DEF q
    <3>2. Len(q) \in Nat /\ Len(q) # 0
      BY <3>1, EmptySeq
    <3> QED BY <2>1, <3>1, <3>2 DEF Latents
  <2>5. p.z = q[1] /\ 1 \in 1 .. Len(q)
    BY <1>12, <2>4
  <2>6. step - pub.z.at = k + HoldSteps
    <3>1. step - pub.z.at = Since
      BY <1>1, <2>1 DEF Planned
    <3>2. Since = k + pub.held - 0
      BY <1>1 DEF Since
    <3>3. k \in Int
      BY <1>3, <2>4
    <3> HIDE DEF k
    <3> QED BY <1>3, <2>2, <3>1, <3>2, <3>3
  <2>7. p.z.slot = s + 1 /\ p.z.at = pub.z.at
    BY <2>3, <2>5
  <2>8. step - p.z.at = (p.z.slot - 1) * HoldSteps + (p.held + 1) - 1
    <3> DEFINE k2 == ((s + 1) - 1) * HoldSteps
    <3>1. k + HoldSteps = k2 /\ k2 \in Int
      BY <1>3, <2>4, NextHold
    <3> HIDE DEF k, k2
    <3>2. step - p.z.at = k2 + (p.held + 1) - 1
      BY <1>3, <1>12, <2>6, <2>7, <3>1
    <3> QED BY <2>7, <3>2 DEF k2
  <2>9. ASSUME NEW i \in DOMAIN p.queue
        PROVE  /\ p.queue[i].ep = ep /\ p.queue[i].goal = GoalFrom(p.z.at)
               /\ p.queue[i].seed \in {NONE, ep}
               /\ p.queue[i].at = p.z.at /\ p.queue[i].slot = p.z.slot + i
    <3>1. p.queue = Tail(q)
      BY <1>12
    <3> HIDE DEF q
    <3>2. DOMAIN p.queue = 1 .. Len(q) - 1 /\ i \in Nat /\ i + 1 \in 1 .. Len(q) /\ p.queue[i] = q[i + 1]
      BY <2>4, <2>9, <3>1
    <3>3. s + (i + 1) = (s + 1) + i
      <4> HIDE DEF s
      <4>1. s \in Nat /\ i \in Nat
        BY <2>4, <3>2
      <4> QED BY ONLY <4>1
    <3> QED BY <2>3, <2>7, <3>2, <3>3 DEF q
  <2>10. p.z # NONE /\ p.z.ep = ep /\ p.z.goal = GoalFrom(p.z.at) /\ p.z.seed \in {NONE, ep}
    BY <2>3, <2>5, LoopAssumption
  <2>11. Good
    BY <1>12, <2>8, <2>9, <2>10
  <2> QED BY <1>1, <1>4, <1>5, <1>6, <1>7, <1>8, <1>9, <1>10, <2>11 DEF Planned, GoalFrom
<1>13. CASE Asked(p)
  <2>1. /\ p.z \in Latents /\ p.z # NONE /\ p.z.ep = ep /\ p.z.goal = GoalFrom(p.z.at) /\ p.z.at = step
        /\ p.z.slot = 1 /\ p.held = 0 /\ p.z.seed \in {NONE, ep}
    BY <1>4, <1>13, LoopAssumption DEF Asked, Goal, GoalFrom
  <2>2. step - p.z.at = (p.z.slot - 1) * HoldSteps + (p.held + 1) - 1
    BY <1>3, <2>1, NextHold
  <2>3. ASSUME NEW i \in DOMAIN p.queue
        PROVE  /\ job.source = "gr00t"
               /\ p.queue[i].ep = ep /\ p.queue[i].goal = GoalFrom(p.z.at)
               /\ p.queue[i].seed \in {NONE, ep}
               /\ p.queue[i].at = p.z.at /\ p.queue[i].slot = p.z.slot + i
    <3>1. p.queue \in Seq(Latents) /\ i \in Nat
      BY <1>3, <2>3 DEF Publishers
    <3>2. job.source = "gr00t"
      <4>1. ASSUME job.source # "gr00t" PROVE FALSE
        <5>1. pub.queue = <<>> /\ p.queue = pub.queue
          BY <1>1, <1>13, <4>1 DEF Asked, Planned
        <5> QED BY <2>3, <5>1
      <4> QED BY <4>1
    <3>3. p.queue[i] = [p.z EXCEPT !.slot = i + 1]
      BY <1>13, <3>2 DEF Asked
    <3>4. /\ p.queue[i].ep = p.z.ep /\ p.queue[i].goal = p.z.goal
          /\ p.queue[i].seed = p.z.seed /\ p.queue[i].at = p.z.at /\ p.queue[i].slot = i + 1
      BY <2>1, <3>3 DEF Latents
    <3> QED BY <2>1, <3>1, <3>2, <3>4
  <2>4. p.queue # <<>> => job.source = "gr00t"
    BY <1>1, <1>13 DEF Asked, Planned
  <2>5. Good
    BY <2>1, <2>2, <2>3, <2>4
  <2> QED BY <1>1, <1>4, <1>5, <1>6, <1>7, <1>8, <1>9, <1>10, <2>5 DEF Planned, GoalFrom
<1> QED BY <1>2, <1>11, <1>12, <1>13 DEF Choice

\* So does every step.
LEMMA PlannedStep ==
  ASSUME LoopTypeOK, Planned, Recorded, [LoopNext]_loopVars
  PROVE  Planned'
<1>1. CASE UNCHANGED loopVars
  BY <1>1 DEF loopVars, Planned, Running, Since, GoalFrom
<1>2. CASE CheckState
  <2>1. /\ pc = "tick" /\ Running /\ UNCHANGED <<job, step, pub, buf, others>>
    BY <1>2 DEF CheckState, Running
  <2>2. CASE Damp
    BY <2>1, <2>2, FailsPlanned
  <2>3. CASE /\ pc' = IF job.source \in Local THEN "publish" ELSE "track"
             /\ UNCHANGED <<ep, results, plant>>
    BY <2>1, <2>3 DEF Planned, Running, Since, GoalFrom
  <2> QED BY <1>2, <2>2, <2>3 DEF CheckState
<1>3. CASE TickFails
  <2>1. Running /\ UNCHANGED <<job, pub, buf>> /\ (Damp \/ Raise \/ Fault)
    BY <1>3 DEF TickFails, Running
  <2>2. others'.writer = others.writer
    BY <1>3 DEF TickFails, Fault, Raise, LoopTypeOK, Beside
  <2> QED BY <2>1, <2>2, FailsPlanned
<1>4. CASE Unavailable
  <2>1. pc = "track" /\ (Snapshot.packet = NONE \/ job.source = "shm") /\ job' = job
    BY <1>4 DEF Unavailable, MayGiveUp
  <2>2. buf.packet = NONE \/ job.source = "shm"
    BY <2>1, SnapshotTyped, Kept
  <2> QED BY <2>1, <2>2 DEF Planned, Local
<1>5. CASE Malformed
  BY <1>5 DEF Malformed, Planned
<1>6. CASE Report \/ Interrupt
  <2>1. UNCHANGED <<job, pub, buf>> /\ pc' \in {"done", "raised"}
    BY <1>6 DEF Report, Interrupt, Raise
  <2>2. others'.writer = others.writer
    BY <1>6 DEF Report, Interrupt, Raise, LoopTypeOK, Beside
  <2> QED BY <2>1, <2>2, LeavesPlanned
<1>7. CASE ServiceHangs
  <2>1. UNCHANGED <<job, pc, ep, step, pub, buf>>
    BY <1>7 DEF ServiceHangs
  <2>2. others'.writer = others.writer /\ others'.nth = others.nth
    BY <1>7 DEF ServiceHangs, LoopTypeOK, Beside
  <2> QED BY <2>1, <2>2 DEF Planned, Running, Since, GoalFrom
<1>8. CASE ServiceDies
  <2>1. UNCHANGED <<job, step, pub, buf>>
    BY <1>8 DEF ServiceDies
  <2>2. others'.writer = others.writer /\ others'.nth = others.nth
    BY <1>8 DEF ServiceDies, LoopTypeOK, Beside
  <2>3. CASE others.service = "hung"
    <3>1. Running /\ Damp
      BY <1>8, <2>3 DEF ServiceDies, LoopTypeOK, Running
    <3> QED BY <2>1, <2>2, <3>1, FailsPlanned
  <2>4. CASE others.service # "hung"
    <3>1. UNCHANGED <<pc, ep>>
      BY <1>8, <2>4 DEF ServiceDies
    <3> QED BY <2>1, <2>2, <3>1 DEF Planned, Running, Since, GoalFrom
  <2> QED BY <2>3, <2>4
<1>9. CASE Push
  BY <1>9 DEF Push, Planned
<1>10. CASE PusherRestarts
  BY <1>10 DEF PusherRestarts, Planned
<1> QED
  BY <1>1, <1>2, <1>3, <1>4, <1>5, <1>6, <1>7, <1>8, <1>9, <1>10, PlannedBuild, PlannedReset,
     PlannedTick, PlannedTrack DEF LoopNext, Loop

--------------------------------------------------------------------------------
(* The pushing process *)

\* On a wire whose numbers go up, beyond all the buffer has seen, every message is
\* taken: the last one read is the newest.
LEMMA AllTaken ==
  ASSUME LoopTypeOK, Pushed, job.source = "zmq", others.restarts = 0,
         NEW n \in 1 .. Len(buf.wire)
  PROVE  /\ Drained(n).packet = buf.wire[n] /\ Drained(n).high = buf.wire[n].seq
         /\ n \in DOMAIN buf.wire /\ buf.wire[n] \in Packets
<1>1. buf.wire \in Seq(Packets) /\ Len(buf.wire) \in Nat /\ buf.high \in Int /\ others.seq \in Int
  BY DEF LoopTypeOK, Buffers, Beside
<1>2. \A i \in 1 .. Len(buf.wire) :
        /\ buf.wire[i].seq \in buf.high + 1 .. others.seq
        /\ \A j \in 1 .. i - 1 : buf.wire[j].seq < buf.wire[i].seq
  <2>1. DOMAIN buf.wire = 1 .. Len(buf.wire)
    BY <1>1
  <2> QED BY <2>1 DEF Pushed
<1>3. Taken(n) = 1 .. n
  BY <1>1, <1>2 DEF Taken
<1>4. Max(Taken(n)) = n /\ n \in 0 .. Len(buf.wire)
  <2>1. n \in Taken(n) /\ n \in 0 .. Len(buf.wire)
    BY <1>1, <1>3
  <2>2. Max(Taken(n)) \in 1 .. n /\ n <= Max(Taken(n))
    BY <1>3, <2>1, DrainedTyped
  <2> QED BY <1>1, <2>1, <2>2
<1>5. Taken(n) # {}
  <2>1. n \in 1 .. n
    BY <1>1
  <2> QED BY <1>3, <2>1
<1> QED BY <1>1, <1>4, <1>5, DrainedTyped

\* What a buffer holds of a process that has not been restarted: Pushed, of the
\* packet, the highest number and the wire.
Ascending(b, o) ==
    /\ o.seq = o.nth
    /\ b.packet # NONE => b.packet.nth = b.high
    /\ b.high <= o.seq
    /\ \A i \in DOMAIN b.wire :
         /\ b.wire[i].nth = b.wire[i].seq
         /\ b.wire[i].seq \in b.high + 1 .. o.seq
         /\ \A j \in 1 .. i - 1 : b.wire[j].seq < b.wire[i].seq

Holding(b, o) == b.wire = <<>> /\ (b.packet # NONE => b.packet.nth = o.nth)

\* What is known of the wire, as what the buffer holds or what is in order.
LEMMA PushedIs ==
  Pushed <=> /\ job.source = "shm" => Holding(buf, others)
             /\ job.source = "zmq" /\ others.restarts = 0 => Ascending(buf, others)
<1> QED BY DEF Pushed, Holding, Ascending

\* Reading n messages, and dropping m - n after them, keeps the order.
LEMMA StaysAscending ==
  ASSUME LoopTypeOK, Pushed, job.source = "zmq", others.restarts = 0,
         NEW n \in 0 .. Len(buf.wire), NEW m \in n .. Len(buf.wire), NEW b,
         b.packet = Drained(n).packet, b.high = Drained(n).high,
         b.wire = SubSeq(buf.wire, m + 1, Len(buf.wire))
  PROVE  Ascending(b, others)
<1>1. buf.wire \in Seq(Packets) /\ Len(buf.wire) \in Nat /\ buf.high \in Int /\ others.seq \in Int
  BY DEF LoopTypeOK, Buffers, Beside
<1>2. Ascending(buf, others)
  BY PushedIs
<1>3. \A i \in 1 .. Len(buf.wire) :
        /\ buf.wire[i].nth = buf.wire[i].seq
        /\ buf.wire[i].seq \in buf.high + 1 .. others.seq
        /\ \A j \in 1 .. i - 1 : buf.wire[j].seq < buf.wire[i].seq
  BY <1>1 DEF Pushed
<1> DEFINE wire == SubSeq(buf.wire, m + 1, Len(buf.wire))
<1>4. DOMAIN wire = 1 .. Len(buf.wire) - m /\ \A i \in DOMAIN wire : wire[i] = buf.wire[i + m]
  BY <1>1
<1>5. /\ b.packet # NONE => b.packet.nth = b.high
      /\ b.high \in Int /\ b.high <= others.seq
      /\ \A i \in n + 1 .. Len(buf.wire) : buf.wire[i].seq > b.high
  <2>1. CASE n = 0
    <3>1. Taken(0) = {}
      BY DEF Taken
    <3>2. b.packet = buf.packet /\ b.high = buf.high
      BY <2>1, <3>1, DrainedTyped
    <3> QED BY <1>1, <1>2, <1>3, <2>1, <3>2 DEF Ascending
  <2>2. CASE n # 0
    <3>1. n \in 1 .. Len(buf.wire)
      BY <1>1, <2>2
    <3>2. b.packet = buf.wire[n] /\ b.high = buf.wire[n].seq
      BY <3>1, AllTaken
    <3>3. buf.wire[n].nth = buf.wire[n].seq /\ buf.wire[n].seq \in buf.high + 1 .. others.seq
      BY <1>3, <3>1
    <3>4. b.high \in Int /\ b.high <= others.seq /\ (b.packet # NONE => b.packet.nth = b.high)
      BY <1>1, <3>2, <3>3
    <3>5. ASSUME NEW i \in n + 1 .. Len(buf.wire) PROVE buf.wire[i].seq > b.high
      <4>1. i \in 1 .. Len(buf.wire) /\ n \in 1 .. i - 1
        BY <1>1, <3>1
      <4>2. buf.wire[n].seq < buf.wire[i].seq /\ buf.wire[i].seq \in buf.high + 1 .. others.seq
        BY <1>3, <4>1
      <4> QED BY <1>1, <3>2, <3>4, <4>2
    <3> QED BY <3>4, <3>5
  <2> QED BY <2>1, <2>2
<1> HIDE DEF wire
<1>6. ASSUME NEW i \in DOMAIN wire
      PROVE  /\ wire[i].nth = wire[i].seq
             /\ wire[i].seq \in b.high + 1 .. others.seq
             /\ \A j \in 1 .. i - 1 : wire[j].seq < wire[i].seq
  <2>1. i \in Nat /\ i + m \in n + 1 .. Len(buf.wire) /\ i + m \in 1 .. Len(buf.wire) /\ wire[i] = buf.wire[i + m]
    BY <1>1, <1>4, <1>6
  <2>2. wire[i].seq \in b.high + 1 .. others.seq /\ wire[i].nth = wire[i].seq
    <3>1. buf.wire[i + m].seq \in buf.high + 1 .. others.seq
          /\ buf.wire[i + m].nth = buf.wire[i + m].seq
      BY <1>3, <2>1
    <3>2. buf.wire[i + m].seq > b.high
      BY <1>5, <2>1
    <3>3. buf.wire[i + m].seq \in b.high + 1 .. others.seq
      BY <1>1, <1>5, <3>1, <3>2
    <3> QED BY <2>1, <3>1, <3>3
  <2>3. ASSUME NEW j \in 1 .. i - 1 PROVE wire[j].seq < wire[i].seq
    <3>1. j + m \in 1 .. (i + m) - 1
      BY <1>1, <2>1, <2>3
    <3>2. j \in DOMAIN wire
      BY <1>1, <1>4, <1>6, <2>3
    <3>3. wire[j] = buf.wire[j + m]
      BY <1>4, <3>2
    <3> QED BY <1>3, <2>1, <3>1, <3>3
  <2> QED BY <2>2, <2>3
<1> QED BY <1>2, <1>5, <1>6 DEF Ascending, wire

\* That is kept if the two are.
LEMMA PushedNext ==
  ASSUME job.source' = "shm" => Holding(buf', others'),
         job.source' = "zmq" /\ others'.restarts = 0 => Ascending(buf', others')
  PROVE  Pushed'
<1> QED BY DEF Pushed, Holding, Ascending

\* A snapshot keeps it.
LEMMA PushedSnapshot ==
  ASSUME LoopTypeOK, Pushed, job' = job, buf' = Snapshot,
         others'.seq = others.seq, others'.nth = others.nth, others'.restarts = others.restarts
  PROVE  Pushed'
<1>1. ASSUME job.source = "shm" PROVE Holding(buf', others')
  BY <1>1, LocalSnapshot, PushedIs DEF Holding
<1>2. ASSUME job.source = "zmq", others.restarts = 0 PROVE Ascending(buf', others')
  <2> DEFINE n == Len(buf.wire)
  <2>1. n \in 0 .. Len(buf.wire) /\ n \in n .. Len(buf.wire)
    BY SnapshotTyped
  <2>2. /\ buf'.packet = Drained(n).packet /\ buf'.high = Drained(n).high
        /\ buf'.wire = SubSeq(buf.wire, n + 1, Len(buf.wire))
    BY <2>1, SnapshotTyped, DrainedTyped
  <2> HIDE DEF n
  <2>3. Ascending(buf', others)
    BY <1>2, <2>1, <2>2, StaysAscending
  <2> QED BY <2>3 DEF Ascending
<1> QED BY <1>1, <1>2, PushedNext

\* So does a message that does not decode.
LEMMA PushedMalformed ==
  ASSUME LoopTypeOK, Pushed, Malformed
  PROVE  Pushed'
<1>1. /\ job' = job /\ buf.wire # <<>>
      /\ others'.seq = others.seq /\ others'.nth = others.nth /\ others'.restarts = others.restarts
  <2>1. others' = others \/ Raise
    BY DEF Malformed
  <2> QED BY <2>1, RaiseTyped DEF Malformed
<1>2. PICK n \in 1 .. Len(buf.wire) :
        /\ buf'.packet = Drained(n - 1).packet /\ buf'.high = Drained(n - 1).high
        /\ buf'.wire = Tail(SubSeq(buf.wire, n, Len(buf.wire)))
  BY MalformedTyped
<1>3. buf.wire \in Seq(Packets) /\ Len(buf.wire) \in Nat /\ n \in Nat \ {0}
  BY DEF LoopTypeOK, Buffers
<1>4. buf'.wire = SubSeq(buf.wire, n + 1, Len(buf.wire))
  <2> DEFINE wire == SubSeq(buf.wire, n, Len(buf.wire))
             v == SubSeq(buf.wire, n + 1, Len(buf.wire))
  <2>1. wire \in Seq(Packets) /\ Len(wire) = Len(buf.wire) - n + 1
        /\ \A i \in 1 .. Len(wire) : wire[i] = buf.wire[i + n - 1]
    BY <1>3
  <2>2. v \in Seq(Packets) /\ Len(v) = Len(buf.wire) - n
        /\ \A i \in 1 .. Len(v) : v[i] = buf.wire[i + n]
    BY <1>3
  <2> HIDE DEF wire, v
  <2>3. wire # <<>>
    BY <1>3, <2>1
  <2>4. Tail(wire) \in Seq(Packets) /\ Len(Tail(wire)) = Len(wire) - 1
        /\ \A i \in 1 .. Len(Tail(wire)) : Tail(wire)[i] = wire[i + 1]
    BY <2>1, <2>3
  <2>5. Len(Tail(wire)) = Len(v)
    BY <1>3, <2>1, <2>2, <2>4
  <2>6. ASSUME NEW i \in 1 .. Len(v) PROVE Tail(wire)[i] = v[i]
    <3>1. i + 1 \in 1 .. Len(wire) /\ i \in 1 .. Len(Tail(wire)) /\ (i + 1) + n - 1 = i + n
      BY <1>3, <2>1, <2>2, <2>4
    <3>2. Tail(wire)[i] = wire[i + 1] /\ wire[i + 1] = buf.wire[(i + 1) + n - 1] /\ v[i] = buf.wire[i + n]
      BY <2>1, <2>2, <2>4, <3>1
    <3> QED BY <3>1, <3>2
  <2>7. Tail(wire) = v
    BY <2>2, <2>4, <2>5, <2>6
  <2> QED BY <1>2, <2>7 DEF wire, v
<1>5. ASSUME job.source = "shm" PROVE FALSE
  BY <1>1, <1>5 DEF Pushed
<1>6. ASSUME job.source = "zmq", others.restarts = 0 PROVE Ascending(buf', others')
  <2>1. n - 1 \in 0 .. Len(buf.wire) /\ n \in n - 1 .. Len(buf.wire)
    BY <1>3
  <2>2. Ascending(buf', others)
    BY <1>2, <1>4, <1>6, <2>1, StaysAscending
  <2> QED BY <1>1, <2>2 DEF Ascending
<1> QED BY <1>1, <1>5, <1>6, PushedNext

\* So does a push.
LEMMA PushedPush ==
  ASSUME LoopTypeOK, Pushed, Push
  PROVE  Pushed'
<1> DEFINE packet == [seq |-> others.seq + 1, nth |-> others.nth + 1, z |-> NONE]
<1>1. /\ job' = job /\ others' = [others EXCEPT !.seq = @ + 1, !.nth = @ + 1]
      /\ others \in Beside /\ buf \in Buffers
  BY DEF Push, LoopTypeOK
<1>2. /\ others'.seq = others.seq + 1 /\ others'.nth = others.nth + 1
      /\ others'.restarts = others.restarts /\ others.seq \in Nat /\ others.nth \in Nat
  BY <1>1 DEF Beside
<1>3. /\ packet.seq = others.seq + 1 /\ packet.nth = others.nth + 1 /\ packet \in Packets
      /\ packet # NONE
  BY <1>2, PacketTyped, LoopAssumption
<1>4. \/ job.source = "zmq" /\ buf' = [buf EXCEPT !.wire = Append(@, packet)]
      \/ job.source = "shm" /\ buf' = [buf EXCEPT !.packet = packet]
      \/ job.source = "zmq" /\ buf' = buf
  BY DEF Push
<1> HIDE DEF packet
<1>5. ASSUME job.source = "shm" PROVE Holding(buf', others')
  <2>1. buf' = [buf EXCEPT !.packet = packet]
    BY <1>4, <1>5
  <2>2. buf'.wire = buf.wire /\ buf'.packet = packet
    BY <1>1, <2>1 DEF Buffers
  <2>3. buf.wire = <<>>
    BY <1>5 DEF Pushed
  <2> QED BY <1>2, <1>3, <2>2, <2>3 DEF Holding
<1>6. ASSUME job.source = "zmq", others.restarts = 0 PROVE Ascending(buf', others')
  <2>1. buf.wire \in Seq(Packets) /\ Len(buf.wire) \in Nat /\ buf.high \in Int
    BY <1>1 DEF Buffers
  <2>2. /\ others.seq = others.nth /\ buf.high <= others.seq
        /\ buf.packet # NONE => buf.packet.nth = buf.high
    BY <1>6 DEF Pushed
  <2>3. \A i \in 1 .. Len(buf.wire) :
          /\ buf.wire[i].nth = buf.wire[i].seq
          /\ buf.wire[i].seq \in buf.high + 1 .. others.seq
          /\ \A j \in 1 .. i - 1 : buf.wire[j].seq < buf.wire[i].seq
    <3>1. DOMAIN buf.wire = 1 .. Len(buf.wire)
      BY <2>1
    <3> QED BY <1>6, <3>1 DEF Pushed
  <2>4. CASE buf' = buf
    <3>1. \A i \in 1 .. Len(buf.wire) : buf.wire[i].seq \in buf.high + 1 .. others.seq + 1
      BY <1>2, <2>1, <2>3
    <3> QED BY <1>2, <2>1, <2>2, <2>3, <2>4, <3>1 DEF Ascending
  <2>5. CASE buf' = [buf EXCEPT !.wire = Append(@, packet)]
    <3> DEFINE wire == Append(buf.wire, packet)
    <3>1. /\ DOMAIN wire = 1 .. Len(buf.wire) + 1 /\ wire[Len(buf.wire) + 1] = packet
          /\ \A i \in 1 .. Len(buf.wire) : wire[i] = buf.wire[i]
      BY <1>3, <2>1
    <3>2. buf' = [buf EXCEPT !.wire = wire]
      BY <2>5
    <3> HIDE DEF wire
    <3>3. buf'.wire = wire /\ buf'.packet = buf.packet /\ buf'.high = buf.high
      BY <1>1, <3>2 DEF Buffers
    <3>4. ASSUME NEW i \in DOMAIN wire
          PROVE  /\ wire[i].nth = wire[i].seq
                 /\ wire[i].seq \in buf.high + 1 .. others.seq + 1
                 /\ \A j \in 1 .. i - 1 : wire[j].seq < wire[i].seq
      <4>1. CASE i \in 1 .. Len(buf.wire)
        <5>1. wire[i] = buf.wire[i] /\ \A j \in 1 .. i - 1 : wire[j] = buf.wire[j]
          BY <2>1, <3>1, <4>1
        <5>2. wire[i].nth = wire[i].seq /\ wire[i].seq \in buf.high + 1 .. others.seq + 1
          BY <1>2, <2>1, <2>3, <4>1, <5>1
        <5>3. \A j \in 1 .. i - 1 : buf.wire[j].seq < buf.wire[i].seq
          BY <2>3, <4>1
        <5> QED BY <5>1, <5>2, <5>3
      <4>2. CASE i = Len(buf.wire) + 1
        <5>1. wire[i] = packet
          BY <3>1, <4>2
        <5>2. ASSUME NEW j \in 1 .. i - 1 PROVE wire[j].seq < packet.seq
          <6>1. j \in 1 .. Len(buf.wire) /\ wire[j] = buf.wire[j]
            BY <2>1, <3>1, <4>2
          <6> QED BY <1>2, <1>3, <2>1, <2>3, <6>1
        <5> QED BY <1>2, <1>3, <2>1, <2>2, <5>1, <5>2
      <4> QED BY <2>1, <3>1, <4>1, <4>2
    <3> QED BY <1>2, <2>1, <2>2, <3>3, <3>4 DEF Ascending
  <2> QED BY <1>4, <1>6, <2>4, <2>5
<1> QED BY <1>1, <1>2, <1>5, <1>6, PushedNext

\* So does every step.
LEMMA PushedStep ==
  ASSUME LoopTypeOK, Pushed, [LoopNext]_loopVars
  PROVE  Pushed'
<1>1. CASE Unavailable \/ Track
  <2>1. job' = job /\ buf' = Snapshot
    BY <1>1 DEF Unavailable, Track
  <2>2. others' = others \/ Raise
    BY <1>1 DEF Unavailable, Track, Fault
  <2>3. /\ others'.seq = others.seq /\ others'.nth = others.nth
        /\ others'.restarts = others.restarts
    BY <2>1, <2>2, RaiseTyped
  <2> QED BY <2>1, <2>3, PushedSnapshot
<1>2. CASE Tick
  <2>1. job' = job /\ job.source \in Local
    BY <1>2 DEF Tick, Playback, Encode, Gr00t, Local
  <2>2. job.source # "shm" /\ job.source # "zmq"
    BY <2>1 DEF Local
  <2> QED BY <2>1, <2>2 DEF Pushed
<1>3. CASE PusherRestarts
  <2>1. job' = job /\ buf' = buf
    BY <1>3 DEF PusherRestarts
  <2>2. CASE \E inside \in {others.inside, job.source = "shm"} :
                others' = [others EXCEPT !.writer = FALSE, !.inside = inside]
    <3>1. /\ others'.seq = others.seq /\ others'.nth = others.nth
          /\ others'.restarts = others.restarts
      BY <2>2 DEF LoopTypeOK, Beside
    <3> QED BY <2>1, <3>1 DEF Pushed
  <2>3. CASE others' = [others EXCEPT !.writer = TRUE, !.seq = 0, !.restarts = 1]
    <3>1. others'.nth = others.nth /\ others'.restarts = 1
      BY <2>3 DEF LoopTypeOK, Beside
    <3> QED BY <2>1, <3>1 DEF Pushed
  <2> QED BY <1>3, <2>2, <2>3 DEF PusherRestarts
<1>4. CASE /\ job' = job /\ buf' = buf
           /\ others'.seq = others.seq /\ others'.nth = others.nth
           /\ others'.restarts = others.restarts
  BY <1>4 DEF Pushed
<1>5. ASSUME Build \/ Reset \/ CheckState \/ TickFails \/ Report \/ Interrupt \/ ServiceHangs
             \/ ServiceDies \/ UNCHANGED loopVars
      PROVE  /\ job' = job /\ buf' = buf
             /\ others'.seq = others.seq /\ others'.nth = others.nth
             /\ others'.restarts = others.restarts
  <2>1. job' = job /\ buf' = buf
    BY <1>5 DEF Build, Reset, CheckState, TickFails, Report, Interrupt, ServiceHangs,
       ServiceDies, loopVars
  <2>2. others' = others \/ \E s : others' = [others EXCEPT !.service = s]
    BY <1>5 DEF Build, Reset, CheckState, TickFails, Report, Interrupt, ServiceHangs,
       ServiceDies, loopVars, Raise, Fault
  <2>3. CASE \E s : others' = [others EXCEPT !.service = s]
    <3>1. PICK s : others' = [others EXCEPT !.service = s]
      BY <2>3
    <3> QED BY <2>1, <3>1 DEF LoopTypeOK, Beside
  <2> QED BY <2>1, <2>2, <2>3
<1> QED BY <1>1, <1>2, <1>3, <1>4, <1>5, PushedMalformed, PushedPush DEF LoopNext, Loop

--------------------------------------------------------------------------------
(* The theorems *)

\* Every window that a publisher plays lies in the reference, every counter is in
\* its range, and every episode that is over has its result (loop.py, latent.py).
THEOREM LoopTyped == LoopSpec => []LoopTypeOK
<1>1. LoopInit => LoopTypeOK
  BY LoopTypeInit
<1>2. LoopTypeOK /\ [LoopNext]_loopVars => LoopTypeOK'
  BY LoopTypeStep
<1> QED BY <1>1, <1>2, PTL DEF LoopSpec

\* The inductive invariant: what the watchdog has counted, what the ring holds,
\* what the publisher has planned, and what is on the wire.
THEOREM LoopInduction == LoopSpec => [](LoopTypeOK /\ LoopInv)
<1>1. LoopInit => LoopInv
  BY LocalInit DEF LoopInv
<1>2. LoopTypeOK /\ LoopInv /\ [LoopNext]_loopVars => LoopInv'
  BY UnfedStep, RecordedStep, PlannedStep, PushedStep DEF LoopInv
<1> QED BY <1>1, <1>2, LoopTyped, PTL DEF LoopSpec

\* The watchdog of safety.py: a robot that has been given no command is damped
\* within command_absent_ticks.
THEOREM Watchdog == LoopSpec => []UnfedStops
<1>1. LoopInv => UnfedStops
  BY DEF LoopInv, Unfed, UnfedStops
<1> QED BY <1>1, LoopInduction, PTL

\* The hold schedule of the publishers: a latent is played in the ticks it was
\* planned for, whatever the hold and the number of latents of a prediction.
THEOREM OnTime == LoopSpec => []PlayedOnTime
<1>1. ASSUME LoopTypeOK, LoopInv PROVE PlayedOnTime
  <2> SUFFICES ASSUME pc = "track", job.source \in Local
               PROVE  step - buf.packet.z.at
                        \in (buf.packet.z.slot - 1) * HoldSteps .. buf.packet.z.slot * HoldSteps - 1
    BY DEF PlayedOnTime
  <2> DEFINE s == pub.z.slot
             k == (s - 1) * HoldSteps
  <2>1. /\ pub.z # NONE /\ buf.packet.z = pub.z /\ Running
        /\ pub.held > 0 /\ step - pub.z.at = Since
    BY <1>1 DEF LoopInv, Planned, Running
  <2>2. pub.held \in 0 .. HoldSteps /\ HoldSteps \in Nat /\ s \in Nat
    BY <1>1, <2>1, LoopAssumption DEF LoopTypeOK, Publishers, Latents
  <2>3. Since = k + pub.held - 1
    BY DEF Since
  <2>4. k \in Int /\ s * HoldSteps = k + HoldSteps
    <3>1. (s - 1) * HoldSteps = s * HoldSteps - HoldSteps
      BY <2>2
    <3> QED BY <2>2, <3>1
  <2> HIDE DEF k
  <2>5. step - pub.z.at \in k .. s * HoldSteps - 1
    BY <2>1, <2>2, <2>3, <2>4
  <2> QED BY <2>1, <2>5 DEF k
<1> QED BY <1>1, LoopTyped, LoopInduction, PTL

\* publisher.reset: nothing of an episode, a prediction, its goal or its RTC seed,
\* is played in another one; and the goal is the episode's, or from its tick on the
\* goal_schedule's (_goal_at), as it was when the latent was asked for.
THEOREM OwnEpisode == LoopSpec => []AskedInThisEpisode
<1>1. LoopInv => AskedInThisEpisode
  BY DEF LoopInv, Planned, AskedInThisEpisode, Running
<1> QED BY <1>1, LoopInduction, PTL

\* ObservationAssembler: for every history_length and history_stride, a term is
\* the last frames of this episode, and before the first one its fill: those of the
\* last ticks, or over shared memory those of the last snapshots that were taken.
THEOREM HistoryIsRecent == LoopSpec => []RecentHistory
<1>1. ASSUME LoopTypeOK, LoopInv PROVE RecentHistory
  <2> SUFFICES ASSUME Running, hist.seen # <<>>, NEW k \in 0 .. Past - 1
               PROVE  /\ Seen(k) = Shown(k * Stride)
                      /\ job.source # "shm" /\ k * Stride < Len(hist.seen) =>
                           Seen(k) = <<ep, step - 1 - k * Stride>>
    BY DEF RecentHistory
  <2> DEFINE j == k * Stride
  <2>1. /\ hist.at \in 0 .. Span - 1 /\ hist.seen \in Seq(Nat) /\ step \in Nat
        /\ Past \in Nat \ {0} /\ Stride \in Nat \ {0} /\ Span \in Nat \ {0}
    BY <1>1, SpanTyped, LoopAssumption DEF LoopTypeOK, Histories
  <2>2. /\ \A i \in 0 .. Span - 1 : hist.ring[Back(i)] = Shown(i)
        /\ job.source # "shm" =>
             \A i \in 0 .. Len(hist.seen) - 1 :
                 hist.seen[Len(hist.seen) - i] = step - 1 - i
    BY <1>1 DEF LoopInv, Recorded
  <2>4. j \in 0 .. Span - 1
    <3>1. k * Stride <= (Past - 1) * Stride /\ k * Stride \in Nat
      BY <2>1
    <3>2. Span - 1 = (Past - 1) * Stride
      BY <2>1 DEF Span
    <3> QED BY <2>1, <3>1, <3>2
  <2>5. (hist.at + Span * Past - j) % Span = Back(j)
    <3> HIDE DEF j
    <3>1. CASE j <= hist.at
      <4>1. hist.at - j \in 0 .. Span - 1 /\ Span * Past \in Nat
        BY <2>1, <2>4, <3>1
      <4>2. hist.at + Span * Past - j = (hist.at - j) + Span * Past
        BY <2>1, <2>4, <4>1
      <4>3. ASSUME NEW i, i = hist.at - j PROVE (i + Span * Past) % Span = i
        BY <2>1, <4>1, <4>3, Turns
      <4> QED BY <3>1, <4>2, <4>3 DEF Back
    <3>2. CASE j > hist.at
      <4>1. hist.at - j + Span \in 0 .. Span - 1 /\ Past - 1 \in Nat
        BY <2>1, <2>4, <3>2
      <4>2. Span * Past = Span + Span * (Past - 1) /\ Span * (Past - 1) \in Nat
        BY <2>1
      <4>3. hist.at + Span * Past - j = (hist.at - j + Span) + Span * (Past - 1)
        BY <2>1, <2>4, <4>2
      <4>4. Back(j) = hist.at - j + Span
        BY <2>1, <2>4, <3>2 DEF Back
      <4>5. ASSUME NEW i, i = hist.at - j + Span PROVE (i + Span * (Past - 1)) % Span = i
        BY <2>1, <4>1, <4>5, Turns
      <4> QED BY <4>3, <4>4, <4>5
    <3> QED BY <2>1, <2>4, <3>1, <3>2
  <2>6. Seen(k) = Shown(j)
    BY <2>2, <2>4, <2>5 DEF Seen
  <2>7. ASSUME job.source # "shm", j < Len(hist.seen) PROVE Seen(k) = <<ep, step - 1 - j>>
    <3>1. j \in 0 .. Len(hist.seen) - 1
      BY <2>1, <2>4, <2>7
    <3> HIDE DEF j
    <3>2. hist.seen[Len(hist.seen) - j] = step - 1 - j
      BY <2>2, <2>7, <3>1
    <3> QED BY <2>6, <2>7, <3>2 DEF Shown
  <2> QED BY <2>6, <2>7
<1> QED BY <1>1, LoopTyped, LoopInduction, PTL

\* The three command buffers and the four local publishers: a tick that writes a
\* joint command writes that of the newest packet there is (loop.py, latent.py).
THEOREM NewestIsPlayed == LoopSpec => PlaysNewest
<1>1. ASSUME LoopTypeOK, LoopInv, [LoopNext]_loopVars, Writes, others.restarts = 0
      PROVE  plant'.packet.nth = Newest
  <2>1. /\ pc = "track" /\ plant'.kind = "joint" /\ pc' \notin {"track", "raised"}
        /\ hist'.seen # hist.seen
    BY <1>1 DEF Writes
  <2>2. Running /\ Recorded /\ Planned /\ Pushed /\ others.service # "hung"
    BY <1>1, <2>1 DEF Running, LoopInv, LoopTypeOK
  <2>3. ASSUME job' = job, Damp \/ Raise \/ Fault PROVE FALSE
    <3>1. CASE Damp
      BY <1>1, <2>1, <2>2, <2>3, <3>1, DampTyped
    <3>2. CASE Raise
      BY <2>1, <3>2 DEF Raise
    <3> QED BY <2>3, <3>1, <3>2 DEF Fault
  <2>4. CASE Unavailable
    BY <2>1, <2>4 DEF Unavailable
  <2>5. CASE Track
    <3>1. job' = job /\ Snapshot.packet # NONE /\ Snapshot \in Buffers
      BY <1>1, <2>5, SnapshotTyped DEF Track
    <3>2. plant' = Given("joint", Snapshot.packet)
      BY <2>3, <2>5, <3>1 DEF Track
    <3>3. plant'.packet = Snapshot.packet
      BY <3>1, <3>2, GivenTyped DEF Buffers
    <3>4. CASE job.source \in Local
      <4>1. buf.wire = <<>> /\ buf.packet.nth = others.nth
        BY <2>1, <2>2, <3>4 DEF Planned
      <4>2. job.source # "zmq"
        BY <3>4 DEF Local
      <4> QED BY <1>1, <3>3, <4>1, <4>2, LocalSnapshot DEF Newest
    <3>5. CASE job.source = "shm"
      <4>1. buf.wire = <<>>
        BY <2>2, <3>5 DEF Pushed
      <4>2. Snapshot.packet = buf.packet
        BY <1>1, <4>1, LocalSnapshot
      <4>3. buf.packet.nth = others.nth
        BY <2>2, <3>1, <3>5, <4>2 DEF Pushed
      <4> QED BY <3>3, <3>5, <4>2, <4>3 DEF Newest
    <3>6. CASE job.source = "zmq"
      <4>1. CASE buf.wire = <<>>
        BY <1>1, <3>3, <3>6, <4>1, LocalSnapshot DEF Newest
      <4>2. CASE buf.wire # <<>>
        <5> DEFINE n == Len(buf.wire)
        <5>1. buf.wire \in Seq(Packets)
          BY <1>1 DEF LoopTypeOK, Buffers
        <5>2. n \in 1 .. Len(buf.wire)
          BY <4>2, <5>1, EmptySeq
        <5>3. Snapshot.packet = buf.wire[n]
          BY <1>1, <2>2, <3>6, <5>2, AllTaken, SnapshotTyped
        <5> QED BY <3>3, <3>6, <4>2, <5>3 DEF Newest, Last
      <4> QED BY <4>1, <4>2
    <3> QED BY <1>1, <3>4, <3>5, <3>6 DEF LoopTypeOK, Jobs
  <2>6. CASE Malformed
    <3>1. job' = job /\ (Damp \/ Raise)
      BY <2>6 DEF Malformed
    <3> QED BY <2>3, <3>1
  <2>7. CASE Interrupt
    BY <2>1, <2>7 DEF Interrupt, Raise
  <2> QED
    BY <1>1, <2>1, <2>2, <2>4, <2>5, <2>6, <2>7 DEF LoopNext, Loop, loopVars, Build, Reset,
       CheckState, Tick, TickFails, Report, ServiceHangs, ServiceDies, Push, PusherRestarts
<1>2. LoopTypeOK /\ LoopInv /\ [LoopNext]_loopVars =>
        [Writes /\ others.restarts = 0 => plant'.packet.nth = Newest]_loopVars
  BY <1>1
<1> QED BY <1>2, LoopTyped, LoopInduction, PTL DEF LoopSpec, PlaysNewest

-------------------------------------------------------------------------------
(***************************************************************************)
(* What the 500 Hz writer guarantees for every set of poses: its types,    *)
(* that an open gate is never silent, that nothing drives the joints       *)
(* before the vendor's release is on record, and that an emergency damp    *)
(* which meets no store in flight is not overridden.                       *)
(***************************************************************************)

USE PosesAssumption DEF Modes, Driving, Ages, OpPoints, flags, streams, poses,
    opVars, wVars, Enter, Healthy

-----------------------------------------------------------------------------
LEMMA TypeInit == Init => TypeOK
BY DEF Init, TypeOK

LEMMA TypeOperator == TypeOK /\ Operator => TypeOK'
<1> SUFFICES ASSUME TypeOK, Operator PROVE TypeOK'
  OBVIOUS
<1> USE DEF TypeOK
<1>1. CASE OpenDampGate \/ OpenDampGateMode \/ OpenDampGateGate
  BY <1>1 DEF OpenDampGate, OpenDampGateMode, OpenDampGateGate
<1>2. CASE ReleaseVendor \/ ReleaseVendorRpc \/ ReleaseVendorFlag
  BY <1>2 DEF ReleaseVendor, ReleaseVendorRpc, ReleaseMotionService,
              ReleaseVendorFlag
<1>3. CASE Hold \/ HoldMode
  BY <1>3 DEF Hold, HoldMode
<1>4. CASE CloseGate \/ CloseGateGate \/ CloseGateMode \/ CloseGateSleep
  BY <1>4 DEF CloseGate, CloseGateGate, CloseGateMode, CloseGateSleep
<1>5. CASE RestoreVendor \/ RestoreVendorRpc \/ RestoreVendorConfirm
  BY <1>5 DEF RestoreVendor, RestoreVendorRpc, RestoreVendorConfirm
<1>6. CASE \E pose \in Poses : BeginInitialization(pose)
  BY <1>6 DEF BeginInitialization
<1>7. CASE BeginInitRpc \/ BeginInitTarget \/ BeginInitMode
           \/ BeginInitCheck \/ BeginInitGate
  BY <1>7 DEF BeginInitRpc, BeginInitTarget, BeginInitMode, BeginInitCheck,
              BeginInitGate
<1>8. CASE EngageControl \/ EngageControlMode \/ ClearLatchedFault
  BY <1>8 DEF EngageControl, EngageControlMode, ClearLatchedFault
<1> QED
  BY <1>1, <1>2, <1>3, <1>4, <1>5, <1>6, <1>7, <1>8 DEF Operator

LEMMA TypeOthers ==
  TypeOK /\ (ForceDamp \/ Handler \/ Control \/ StateGoesQuiet \/ CommandAges)
    => TypeOK'
<1> SUFFICES ASSUME TypeOK,
                    ForceDamp \/ Handler \/ Control \/ StateGoesQuiet
                      \/ CommandAges
             PROVE  TypeOK'
  OBVIOUS
<1> USE DEF TypeOK
<1>1. CASE ForceDamp \/ StateGoesQuiet \/ CommandAges
  BY <1>1 DEF ForceDamp, StateGoesQuiet, CommandAges
<1>2. CASE Handler
  BY <1>2 DEF Handler, Frame, HandlerStore
<1>3. CASE Control
  BY <1>3 DEF Control, WriteTarget, ControlDamp, ControlDampStore
<1> QED
  BY <1>1, <1>2, <1>3

LEMMA TypeWriter == TypeOK /\ Writer => TypeOK'
<1> SUFFICES ASSUME TypeOK, Writer PROVE TypeOK'
  OBVIOUS
<1> USE DEF TypeOK
<1>1. CASE WriterWake \/ WriterGuard
  BY <1>1 DEF WriterWake, WriterGuard
<1>2. CASE RampContinues \/ RampBlocked \/ RampReached
  BY <1>2 DEF RampContinues, RampBlocked, RampReached
<1>3. CASE WriterGate \/ WriterSend \/ WriterSendFailed
  BY <1>3 DEF WriterGate, WriterSend, WriterSendFailed
<1> QED
  BY <1>1, <1>2, <1>3 DEF Writer

\* Every variable of the writer keeps its type (unitree_backend.cpp).
THEOREM TypeCorrect == Spec => []TypeOK
<1>1. TypeOK /\ UNCHANGED vars => TypeOK'
  BY DEF TypeOK, vars
<1>2. TypeOK /\ [Next]_vars => TypeOK'
  BY <1>1, TypeOperator, TypeOthers, TypeWriter DEF Next
<1> QED
  BY TypeInit, <1>2, PTL DEF Spec

-----------------------------------------------------------------------------
(* An open gate is never silent.  GateInv adds where the three calls that   *)
(* touch the gate stand between their two stores.                           *)

LEMMA GateInvOperator == TypeOK /\ GateInv /\ Operator => GateInv'
<1> SUFFICES ASSUME TypeOK, GateInv, Operator PROVE GateInv'
  OBVIOUS
<1> USE DEF TypeOK, GateInv
<1>1. CASE OpenDampGate \/ OpenDampGateMode \/ OpenDampGateGate
  BY <1>1 DEF OpenDampGate, OpenDampGateMode, OpenDampGateGate
<1>2. CASE ReleaseVendor \/ ReleaseVendorRpc \/ ReleaseVendorFlag
  <2>1. UNCHANGED <<mode, gateOpen>>
    BY <1>2 DEF ReleaseVendor, ReleaseVendorRpc, ReleaseMotionService,
                ReleaseVendorFlag
  <2>2. op = "idle" \/ op \in {"rv.rpc", "rv.flag"}
    BY <1>2 DEF ReleaseVendor, ReleaseVendorRpc, ReleaseMotionService,
                ReleaseVendorFlag, Enter
  <2>3. op' \in {"rv.rpc", "rv.flag", "idle"}
    BY <1>2 DEF ReleaseVendor, ReleaseVendorRpc, ReleaseMotionService,
                ReleaseVendorFlag, Enter
  <2> QED
    BY <2>1, <2>2, <2>3
<1>3. CASE Hold \/ HoldMode
  BY <1>3 DEF Hold, HoldMode
<1>4. CASE CloseGate \/ CloseGateGate \/ CloseGateMode \/ CloseGateSleep
  BY <1>4 DEF CloseGate, CloseGateGate, CloseGateMode, CloseGateSleep
<1>5. CASE RestoreVendor \/ RestoreVendorRpc \/ RestoreVendorConfirm
  BY <1>5 DEF RestoreVendor, RestoreVendorRpc, RestoreVendorConfirm
<1>6. CASE \E pose \in Poses : BeginInitialization(pose)
  BY <1>6 DEF BeginInitialization
<1>9. CASE BeginInitRpc
  <2>1. UNCHANGED <<mode, gateOpen>>
    BY <1>9 DEF BeginInitRpc
  <2>2. op = "bi.rpc" /\ op' \in {"bi.target", "idle"}
    BY <1>9 DEF BeginInitRpc
  <2> QED
    BY <2>1, <2>2
<1>7. CASE BeginInitTarget \/ BeginInitMode
           \/ BeginInitCheck \/ BeginInitGate
  BY <1>7 DEF BeginInitTarget, BeginInitMode, BeginInitCheck,
              BeginInitGate
<1>8. CASE EngageControl \/ EngageControlMode \/ ClearLatchedFault
  BY <1>8 DEF EngageControl, EngageControlMode, ClearLatchedFault
<1> QED
  BY <1>1, <1>2, <1>3, <1>4, <1>5, <1>6, <1>7, <1>8, <1>9 DEF Operator

LEMMA GateInvOthers ==
  TypeOK /\ GateInv /\ (ForceDamp \/ Handler \/ Control \/ StateGoesQuiet
                         \/ CommandAges)
    => GateInv'
<1> SUFFICES ASSUME TypeOK, GateInv,
                    ForceDamp \/ Handler \/ Control \/ StateGoesQuiet
                      \/ CommandAges
             PROVE  GateInv'
  OBVIOUS
<1> USE DEF TypeOK, GateInv
<1>1. CASE ForceDamp \/ StateGoesQuiet \/ CommandAges
  BY <1>1 DEF ForceDamp, StateGoesQuiet, CommandAges
<1>2. CASE Handler
  <2>1. CASE HandlerStore
    BY <2>1 DEF HandlerStore
  <2>2. ASSUME NEW kind \in {"ok", "limit", "hard"}, Frame(kind)
        PROVE  GateInv'
    <3>1. UNCHANGED <<mode, gateOpen, op>>
      BY <2>2 DEF Frame
    <3> QED
      BY <3>1
  <2> QED
    BY <1>2, <2>1, <2>2 DEF Handler
<1>3. CASE Control
  BY <1>3 DEF Control, WriteTarget, ControlDamp, ControlDampStore
<1> QED
  BY <1>1, <1>2, <1>3

LEMMA GateInvWriter == TypeOK /\ GateInv /\ Writer => GateInv'
<1> SUFFICES ASSUME TypeOK, GateInv, Writer PROVE GateInv'
  OBVIOUS
<1> USE DEF TypeOK, GateInv
<1>1. CASE WriterWake \/ WriterGuard
  BY <1>1 DEF WriterWake, WriterGuard, MustDamp
<1>2. CASE RampContinues \/ RampBlocked \/ RampReached
  BY <1>2 DEF RampContinues, RampBlocked, RampReached
<1>3. CASE WriterGate \/ WriterSend \/ WriterSendFailed
  BY <1>3 DEF WriterGate, WriterSend, WriterSendFailed
<1> QED
  BY <1>1, <1>2, <1>3 DEF Writer

\* Every tick behind an open gate publishes: no interleaving of the stores of
\* open_damp_gate, close_gate and begin_initialization shows DISABLED there.
THEOREM OpenGateAlwaysSpeaks == Spec => []OpenGateSpeaks
<1>1. Init => GateInv
  BY DEF Init, GateInv
<1>2. TypeOK /\ GateInv /\ UNCHANGED vars => GateInv'
  BY DEF GateInv, vars
<1>3. TypeOK /\ GateInv /\ [Next]_vars => GateInv'
  BY <1>2, GateInvOperator, GateInvOthers, GateInvWriter DEF Next
<1>4. GateInv => OpenGateSpeaks
  BY DEF GateInv, OpenGateSpeaks
<1> QED
  BY <1>1, <1>3, <1>4, TypeCorrect, PTL DEF Spec

-----------------------------------------------------------------------------
(* Nothing drives before the release.  ReleaseInv follows the one dangerous *)
(* store, RampReached's WAIT: while vendor_released_ goes back to FALSE no  *)
(* tick that loaded INITIALIZE is left, because close_gate's caller slept.  *)

LEMMA ReleaseInvOperator == TypeOK /\ ReleaseInv /\ Operator => ReleaseInv'
<1> SUFFICES ASSUME TypeOK, ReleaseInv, Operator PROVE ReleaseInv'
  OBVIOUS
<1> USE DEF TypeOK, ReleaseInv
<1>1. CASE OpenDampGate \/ OpenDampGateMode \/ OpenDampGateGate
  BY <1>1 DEF OpenDampGate, OpenDampGateMode, OpenDampGateGate
<1>2. CASE ReleaseVendor \/ ReleaseVendorRpc \/ ReleaseVendorFlag
  BY <1>2 DEF ReleaseVendor, ReleaseVendorRpc, ReleaseMotionService,
              ReleaseVendorFlag
<1>3. CASE Hold \/ HoldMode
  BY <1>3 DEF Hold, HoldMode
<1>4. CASE CloseGate \/ CloseGateGate \/ CloseGateMode \/ CloseGateSleep
  BY <1>4 DEF CloseGate, CloseGateGate, CloseGateMode, CloseGateSleep
<1>5. CASE RestoreVendor \/ RestoreVendorRpc \/ RestoreVendorConfirm
  BY <1>5 DEF RestoreVendor, RestoreVendorRpc, RestoreVendorConfirm
<1>6. CASE \E pose \in Poses : BeginInitialization(pose)
  BY <1>6 DEF BeginInitialization
<1>7. CASE BeginInitRpc \/ BeginInitTarget \/ BeginInitMode
           \/ BeginInitCheck \/ BeginInitGate
  BY <1>7 DEF BeginInitRpc, BeginInitTarget, BeginInitMode, BeginInitCheck,
              BeginInitGate
<1>8. CASE EngageControl \/ EngageControlMode \/ ClearLatchedFault
  BY <1>8 DEF EngageControl, EngageControlMode, ClearLatchedFault
<1> QED
  BY <1>1, <1>2, <1>3, <1>4, <1>5, <1>6, <1>7, <1>8 DEF Operator

LEMMA ReleaseInvOthers ==
  TypeOK /\ ReleaseInv /\ (ForceDamp \/ Handler \/ Control \/ StateGoesQuiet
                         \/ CommandAges)
    => ReleaseInv'
<1> SUFFICES ASSUME TypeOK, ReleaseInv,
                    ForceDamp \/ Handler \/ Control \/ StateGoesQuiet
                      \/ CommandAges
             PROVE  ReleaseInv'
  OBVIOUS
<1> USE DEF TypeOK, ReleaseInv
<1>1. CASE ForceDamp \/ StateGoesQuiet \/ CommandAges
  BY <1>1 DEF ForceDamp, StateGoesQuiet, CommandAges
<1>2. CASE Handler
  <2>1. ASSUME NEW kind \in {"ok", "limit", "hard"}, Frame(kind)
        PROVE  ReleaseInv'
    BY <2>1 DEF Frame
  <2>2. CASE HandlerStore
    BY <2>2 DEF HandlerStore
  <2> QED
    BY <1>2, <2>1, <2>2 DEF Handler
<1>3. CASE Control
  BY <1>3 DEF Control, WriteTarget, ControlDamp, ControlDampStore
<1> QED
  BY <1>1, <1>2, <1>3

LEMMA ReleaseInvWriter == TypeOK /\ ReleaseInv /\ Writer => ReleaseInv'
<1> SUFFICES ASSUME TypeOK, ReleaseInv, Writer PROVE ReleaseInv'
  OBVIOUS
<1> USE DEF TypeOK, ReleaseInv
<1>1. CASE WriterWake \/ WriterGuard
  BY <1>1 DEF WriterWake, WriterGuard, MustDamp
<1>2. CASE RampContinues \/ RampBlocked \/ RampReached
  BY <1>2 DEF RampContinues, RampBlocked, RampReached
<1>3. CASE WriterGate \/ WriterSend \/ WriterSendFailed
  BY <1>3 DEF WriterGate, WriterSend, WriterSendFailed
<1> QED
  BY <1>1, <1>2, <1>3 DEF Writer

\* The writer is in a driving mode, and a driving frame leaves, only while the
\* vendor's release is on record.
THEOREM DrivingNeedsRelease == Spec => []DriveNeedsRelease
<1>1. Init => ReleaseInv
  BY DEF Init, ReleaseInv
<1>2. TypeOK /\ ReleaseInv /\ UNCHANGED vars => ReleaseInv'
  BY DEF ReleaseInv, vars
<1>3. TypeOK /\ ReleaseInv /\ [Next]_vars => ReleaseInv'
  BY <1>2, ReleaseInvOperator, ReleaseInvOthers, ReleaseInvWriter DEF Next
<1>4. ReleaseInv => DriveNeedsRelease
  BY DEF ReleaseInv, DriveNeedsRelease
<1> QED
  BY <1>1, <1>3, <1>4, TypeCorrect, PTL DEF Spec

-----------------------------------------------------------------------------
(* The emergency sticks.  A clean one finds no driving mode about to be     *)
(* stored, and every window of StoreInFlight opens with a call or INITIALIZE.*)

LEMMA EmergencyStep == EmergencyInv /\ [Next]_vars => EmergencyInv'
<1> SUFFICES ASSUME EmergencyInv, [Next]_vars PROVE EmergencyInv'
  OBVIOUS
<1> USE DEF EmergencyInv, StoreInFlight
<1>1. CASE \/ OpenDampGate \/ ReleaseVendor \/ Hold \/ CloseGate \/ RestoreVendor
           \/ EngageControl
  BY <1>1 DEF OpenDampGate, ReleaseVendor, Hold, CloseGate, RestoreVendor,
     EngageControl
<1>2. CASE \E pose \in Poses : BeginInitialization(pose)
  BY <1>2 DEF BeginInitialization
<1>3. CASE OpenDampGateMode \/ OpenDampGateGate \/ ReleaseVendorRpc
           \/ ReleaseVendorFlag
  BY <1>3 DEF OpenDampGateMode, OpenDampGateGate, ReleaseVendorRpc,
     ReleaseMotionService, ReleaseVendorFlag
<1>4. CASE CloseGateGate \/ CloseGateMode \/ CloseGateSleep
           \/ RestoreVendorRpc \/ RestoreVendorConfirm
  BY <1>4 DEF CloseGateGate, CloseGateMode, CloseGateSleep, RestoreVendorRpc,
     RestoreVendorConfirm
<1>5. CASE HoldMode \/ EngageControlMode \/ BeginInitRpc \/ BeginInitTarget
           \/ BeginInitMode
  BY <1>5 DEF HoldMode, EngageControlMode, BeginInitRpc, BeginInitTarget,
     BeginInitMode
<1>6. CASE BeginInitCheck \/ BeginInitGate \/ ClearLatchedFault
  BY <1>6 DEF BeginInitCheck, BeginInitGate, ClearLatchedFault
<1>7. CASE ForceDamp
  BY <1>7 DEF ForceDamp
<1>8. CASE Handler
  BY <1>8 DEF Handler, Frame, HandlerStore
<1>9. CASE Control \/ StateGoesQuiet \/ CommandAges \/ UNCHANGED vars
  BY <1>9 DEF Control, WriteTarget, ControlDamp, ControlDampStore,
     StateGoesQuiet, CommandAges, vars
<1>10. CASE Writer
  BY <1>10 DEF Writer, WriterWake, WriterGuard, RampContinues, RampBlocked,
     RampReached, WriterGate, WriterSend, WriterSendFailed
<1> QED
  BY <1>1, <1>2, <1>3, <1>4, <1>5, <1>6, <1>7, <1>8, <1>9, <1>10
     DEF Next, Operator

\* The emergency damp of the UI thread sticks until the operator's next call,
\* whatever the handler, the writer and the control thread store meanwhile,
\* unless it landed inside a load-then-store window (force_damp).
THEOREM EmergencyDampSticks == Spec => []EmergencySticks
<1>1. Init => EmergencyInv
  BY DEF Init, EmergencyInv
<1>2. EmergencyInv => EmergencySticks
  BY DEF EmergencyInv, EmergencySticks
<1> QED
  BY <1>1, <1>2, EmergencyStep, PTL DEF Spec

===============================================================================
