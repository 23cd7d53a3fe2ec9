----------------------- MODULE MailboxAndWorkers_proofs -----------------------
(***************************************************************************)
(* The shared-memory mailbox of the tracker and its planner, and the       *)
(* workers behind it.                                                      *)
(***************************************************************************)
EXTENDS ShmSlot, PlannerWorkers, SequenceTheorems, TLAPS

-------------------------------------------------------------------------------
(***************************************************************************)
(* The seqlock of shm_command_slot.hpp returns whole packets, the newest   *)
(* one, for any number of words, attempts and packets, as long as no       *)
(* writer dies inside publish.                                             *)
(***************************************************************************)

(* A copy is only made in an attempt that is left.                         *)
TypeInv ==
  /\ TypeOK
  /\ rpc \in {"sequence", "old", "copy"} => tries < Attempts

(* Every step keeps the slot's state well typed.                           *)
LEMMA TypeStep == TypeInv /\ [Next]_vars => TypeInv'
<1> SUFFICES ASSUME TypeInv, [Next]_vars PROVE TypeInv'
  OBVIOUS
<1>0. Words \in Nat /\ Attempts \in Nat /\ 0 \in Indices /\ Words # 0
  BY SlotAssumption DEF Indices
<1> USE <1>0 DEF TypeInv, TypeOK, shared, writer, reader
<1>1. CASE Publish
  BY <1>1 DEF Publish
<1>2. CASE StoreWord
  <2>1. wi' \in 0..Words + 1
    BY <1>2 DEF StoreWord
  <2>2. slot' \in [Indices -> Nat]
    BY <1>2 DEF StoreWord
  <2> QED BY <1>2, <2>1, <2>2 DEF StoreWord
<1>3. CASE Finish
  BY <1>3 DEF Finish
<1>4. CASE Crash \/ Restart
  BY <1>4 DEF Crash, Restart
<1>5. ASSUME NEW a \in {0, view[0]}, Snapshot(a) PROVE TypeInv'
  <2>1. a \in Nat
    BY <1>5
  <2> QED BY <1>5, <2>1 DEF Snapshot
<1>6. CASE GiveUp \/ LoadWord
  BY <1>6 DEF GiveUp, LoadWord, Nothing, Retry
<1>7. CASE LoadSequence
  <2>1. got' \in [Indices -> Nat]
    BY <1>7 DEF LoadSequence
  <2> QED BY <1>7, <2>1 DEF LoadSequence
<1>8. CASE CheckOld \/ Deliver
  BY <1>8 DEF CheckOld, Deliver, Nothing, Retry
<1>9. CASE CopyWord
  <2>1. ri' \in 0..Words + 1
    BY <1>9 DEF CopyWord
  <2>2. got' \in [Indices -> Nat]
    BY <1>9 DEF CopyWord
  <2> QED BY <1>9, <2>1, <2>2 DEF CopyWord
<1>10. CASE UNCHANGED vars
  BY <1>10 DEF vars
<1> QED
  BY <1>1, <1>2, <1>3, <1>4, <1>5, <1>6, <1>7, <1>8, <1>9, <1>10
     DEF Next, Writing, Reading

(* The initial state is well typed.                                        *)
LEMMA TypeInit == Init => TypeInv
BY SlotAssumption DEF Init, TypeInv, TypeOK, Empty, Indices

(* The slot, the writer and the reader stay well typed.                    *)
THEOREM TypeCorrect == Spec => []TypeOK
<1>1. TypeInv => TypeOK
  BY DEF TypeInv
<1> QED BY <1>1, TypeInit, TypeStep, PTL DEF Spec

----------------------------------------------------------------------------
(* The inductive invariant of the seqlock.                                 *)
SeqlockInv == TypeInv /\ Inductive

LEMMA SeqlockInit == Init => SeqlockInv
<1> SUFFICES ASSUME Init PROVE SeqlockInv
  OBVIOUS
<1>1. TypeInv
  BY TypeInit
<1>2. WordCounts
  BY DEF Init, WordCounts
<1>3. SlotIsWritten /\ ConsistentView
  <2>1. \A i \in Indices : Empty[i] = 0 /\ Empty[0] = 0
    BY SlotAssumption DEF Empty, Indices
  <2> QED BY <2>1 DEF Init, SlotIsWritten, ConsistentView
<1>4. CopyIsCurrent
  BY DEF Init, CopyIsCurrent
<1> QED BY <1>1, <1>2, <1>3, <1>4 DEF SeqlockInv, Inductive

(* The writer: the word moves with every publish, so that a copy begun     *)
(* before is no longer current.                                            *)
LEMMA WriterStep ==
  ASSUME CrashInside = FALSE, SeqlockInv, Publish \/ Writing \/ Crash \/ Restart
  PROVE  Inductive'
<1>0. Words \in Nat /\ UNCHANGED <<rpc, s1, got, ri, view>>
  BY SlotAssumption
     DEF Publish, Writing, StoreWord, Finish, Crash, Restart, reader, shared
<1>1. TypeOK /\ WordCounts /\ SlotIsWritten /\ CopyIsCurrent /\ ConsistentView
  BY DEF SeqlockInv, TypeInv, Inductive
<1>2. ConsistentView'
  BY <1>0, <1>1 DEF ConsistentView
<1>3. CASE Publish
  <2>1. wpc = "idle" /\ wpc' = "inside" /\ word' = word + 1 /\ packet' = packet + 1
        /\ wi' = 0 /\ begin' = word /\ UNCHANGED <<slot, published>>
    BY <1>3 DEF Publish
  <2>2. WordCounts'
    BY <1>1, <2>1 DEF WordCounts, TypeOK
  <2>3. SlotIsWritten'
    BY <1>1, <2>1 DEF SlotIsWritten, Indices
  <2>4. CopyIsCurrent'
    BY <1>0, <1>1, <2>1 DEF CopyIsCurrent, TypeOK
  <2> QED BY <1>2, <2>2, <2>3, <2>4 DEF Inductive
<1>4. CASE StoreWord
  <2>1. wpc = "inside" /\ wi' = wi + 1 /\ slot' = [slot EXCEPT ![wi] = packet]
        /\ UNCHANGED <<word, published, wpc, begin, packet>>
    BY <1>4 DEF StoreWord
  <2>2. WordCounts'
    BY <1>1, <2>1 DEF WordCounts
  <2>3. SlotIsWritten'
    BY <1>1, <2>1 DEF SlotIsWritten, WordCounts, Indices, TypeOK
  <2>4. CopyIsCurrent'
    BY <1>0, <1>1, <2>1 DEF CopyIsCurrent
  <2> QED BY <1>2, <2>2, <2>3, <2>4 DEF Inductive
<1>5. CASE Finish
  <2>1. wpc = "inside" /\ wpc' = "idle" /\ word' = begin + 2 /\ published' = packet
        /\ wi > Words /\ UNCHANGED <<slot, begin, packet, wi>>
    BY <1>5 DEF Finish
  <2>2. WordCounts'
    BY <1>1, <2>1 DEF WordCounts, TypeOK
  <2>3. SlotIsWritten'
    BY <1>0, <1>1, <2>1 DEF SlotIsWritten, WordCounts, Indices, TypeOK
  <2>4. CopyIsCurrent'
    BY <1>0, <1>1, <2>1 DEF CopyIsCurrent, WordCounts, TypeOK
  <2> QED BY <1>2, <2>2, <2>3, <2>4 DEF Inductive
<1>6. CASE Crash \/ Restart
  <2>1. wpc # "inside" /\ wpc' # "inside"
        /\ UNCHANGED <<word, slot, published, begin, packet, wi>>
    BY <1>6 DEF Crash, Restart, shared
  <2> QED
    BY <1>0, <1>1, <1>2, <2>1
       DEF Inductive, WordCounts, SlotIsWritten, CopyIsCurrent
<1> QED BY <1>3, <1>4, <1>5, <1>6 DEF Writing

(* The reader: what it copies in one attempt is the newest packet unless   *)
(* the word has moved, and it delivers nothing else.                       *)
LEMMA ReaderStep ==
  ASSUME SeqlockInv, Snapshot(0) \/ Snapshot(view[0]) \/ Reading
  PROVE  Inductive'
<1>0. Words \in Nat
      /\ UNCHANGED <<word, slot, published, wpc, begin, packet, wi>>
  BY SlotAssumption
     DEF Snapshot, Reading, GiveUp, LoadWord, LoadSequence, CheckOld, CopyWord,
         Deliver, writer, shared
<1>1. TypeOK /\ WordCounts /\ SlotIsWritten /\ CopyIsCurrent /\ ConsistentView
  BY DEF SeqlockInv, TypeInv, Inductive
<1>2. WordCounts' /\ SlotIsWritten'
  BY <1>0, <1>1 DEF WordCounts, SlotIsWritten
<1>3. CASE Snapshot(0) \/ Snapshot(view[0]) \/ GiveUp \/ CheckOld
  <2>1. rpc' \in {"idle", "start"} /\ view' = view
    BY <1>3 DEF Snapshot, GiveUp, CheckOld, Nothing, Retry
  <2> QED BY <1>1, <1>2, <2>1 DEF Inductive, CopyIsCurrent, ConsistentView
<1>4. CASE LoadWord
  <2>1. view' = view /\ s1' = word /\ rpc' \in {"idle", "start", "sequence"}
    BY <1>4 DEF LoadWord, Nothing, Retry
  <2>2. ASSUME rpc' = "sequence" PROVE wpc # "inside" /\ word # 0
    <3>1. word % 2 = 0 /\ word # 0
      BY <1>4, <2>2 DEF LoadWord, Nothing, Retry
    <3> QED BY <1>1, <3>1 DEF WordCounts, TypeOK
  <2>3. CopyIsCurrent'
    BY <1>0, <1>1, <2>1, <2>2 DEF CopyIsCurrent, TypeOK
  <2> QED BY <1>1, <1>2, <2>1, <2>3 DEF Inductive, ConsistentView
<1>5. CASE LoadSequence
  <2>1. rpc = "sequence" /\ rpc' \in {"old", "copy"} /\ ri' = 1 /\ s1' = s1
        /\ view' = view /\ got' = [got EXCEPT ![0] = slot[0]]
    BY <1>5 DEF LoadSequence
  <2>2. ASSUME s1 = word, NEW i \in Indices, i < 1 PROVE got'[i] = published
    <3>1. i = 0
      BY <2>2 DEF Indices
    <3> QED BY <1>1, <2>1, <2>2, <3>1 DEF CopyIsCurrent, SlotIsWritten, TypeOK
  <2>3. CopyIsCurrent'
    BY <1>0, <1>1, <2>1, <2>2 DEF CopyIsCurrent
  <2> QED BY <1>1, <1>2, <2>1, <2>3 DEF Inductive, ConsistentView
<1>6. CASE CopyWord
  <2>1. rpc = "copy" /\ rpc' = "copy" /\ ri' = ri + 1 /\ s1' = s1
        /\ ri <= Words /\ view' = view /\ got' = [got EXCEPT ![ri] = slot[ri]]
    BY <1>6 DEF CopyWord
  <2>2. ASSUME s1 = word, NEW i \in Indices, i < ri + 1 PROVE got'[i] = published
    <3>1. CASE i = ri
      <4>1. wpc # "inside"
        BY <1>1, <2>1, <2>2 DEF CopyIsCurrent
      <4> QED BY <1>1, <2>1, <2>2, <3>1, <4>1 DEF SlotIsWritten, TypeOK
    <3>2. CASE i # ri
      <4>1. i < ri
        BY <1>1, <2>2, <3>2 DEF TypeOK, Indices
      <4> QED BY <1>1, <2>1, <2>2, <3>2, <4>1 DEF CopyIsCurrent, TypeOK
    <3> QED BY <3>1, <3>2
  <2>3. s1 <= word /\ s1 # 0 /\ (s1 = word => wpc # "inside")
    BY <1>1, <2>1 DEF CopyIsCurrent
  <2>4. s1 = word => \A i \in Indices : i < ri + 1 => got'[i] = published
    BY <2>2
  <2>5. CopyIsCurrent'
    BY <1>0, <2>1, <2>3, <2>4 DEF CopyIsCurrent
  <2> QED BY <1>1, <1>2, <2>1, <2>5 DEF Inductive, ConsistentView
<1>7. CASE Deliver
  <2>1. rpc' \in {"idle", "start"} /\ rpc = "copy" /\ ri > Words
        /\ (view' = view \/ (word = s1 /\ view' = got))
    <3>1. CASE word = s1
      BY <1>7, <3>1 DEF Deliver
    <3>2. CASE word # s1
      BY <1>7, <3>2 DEF Deliver, Retry
    <3> QED BY <3>1, <3>2
  <2>2. ASSUME word = s1, NEW i \in Indices PROVE got[i] = published
    <3>1. i < ri
      BY <1>0, <1>1, <2>1 DEF Indices, TypeOK
    <3> QED BY <1>1, <2>1, <2>2, <3>1 DEF CopyIsCurrent
  <2>3. 0 \in Indices
    BY <1>0 DEF Indices
  <2>4. ConsistentView'
    BY <1>1, <2>1, <2>2, <2>3 DEF ConsistentView
  <2> QED BY <1>2, <2>1, <2>4 DEF Inductive, CopyIsCurrent
<1> QED BY <1>3, <1>4, <1>5, <1>6, <1>7 DEF Reading

LEMMA SeqlockStep ==
  ASSUME CrashInside = FALSE
  PROVE  SeqlockInv /\ [Next]_vars => SeqlockInv'
<1> SUFFICES ASSUME SeqlockInv, [Next]_vars PROVE SeqlockInv'
  OBVIOUS
<1>1. TypeInv'
  BY TypeStep DEF SeqlockInv
<1>2. ASSUME UNCHANGED vars PROVE Inductive'
  BY <1>2 DEF vars, SeqlockInv, Inductive, WordCounts, SlotIsWritten,
              CopyIsCurrent, ConsistentView
<1> QED BY <1>1, <1>2, WriterStep, ReaderStep DEF Next, SeqlockInv

LEMMA SeqlockHolds == ASSUME CrashInside = FALSE PROVE Spec => []SeqlockInv
BY SeqlockInit, SeqlockStep, PTL DEF Spec

(* snapshot never returns a torn packet, whatever the interleaving of the  *)
(* writer's stores with the reader's loads, for every size of the slot, as *)
(* long as no writer dies inside publish.                                  *)
THEOREM NoTornPacket == ASSUME CrashInside = FALSE PROVE Spec => []ConsistentView
<1>1. SeqlockInv => ConsistentView
  BY DEF SeqlockInv, Inductive
<1> QED BY <1>1, SeqlockHolds, PTL

----------------------------------------------------------------------------
(* Every step of the seqlock is a publication, a read or nothing to the    *)
(* users of the mailbox.                                                   *)
LEMMA MailboxStep ==
  ASSUME CrashInside = FALSE, SeqlockInv, SeqlockInv', [Next]_vars
  PROVE  [Cell!Next]_(Cell!vars)
<1>0. Words \in Nat /\ 0 \in Indices /\ Words \in Indices /\ Words # 0
  BY SlotAssumption DEF Indices
<1>1. TypeOK /\ WordCounts /\ CopyIsCurrent /\ ConsistentView /\ ConsistentView'
  BY DEF SeqlockInv, TypeInv, Inductive
<1>2. Seen = view[0] /\ Seen' = view'[0]
  BY <1>1 DEF Seen
<1>3. CASE Finish
  <2>1. published' = published + 1 /\ view' = view
    BY <1>1, <1>3 DEF Finish, WordCounts, reader
  <2> QED BY <1>2, <2>1 DEF Cell!Next, Cell!Publish
<1>4. CASE Deliver
  <2>1. published' = published
    BY <1>4 DEF Deliver, shared
  <2>2. CASE word = s1
    <3>1. view' = got /\ got[0] = published /\ published # 0
      BY <1>0, <1>1, <1>4, <2>2 DEF Deliver, CopyIsCurrent, WordCounts, TypeOK
    <3> QED BY <1>1, <1>2, <2>1, <3>1 DEF Cell!Next, Cell!Read, TypeOK
  <2>3. CASE word # s1
    BY <1>2, <1>4, <2>1, <2>3 DEF Deliver, Retry, Cell!vars
  <2> QED BY <2>2, <2>3
<1>5. ASSUME UNCHANGED <<published, view>> PROVE UNCHANGED Cell!vars
  BY <1>2, <1>5 DEF Cell!vars
<1>6. Finish \/ Deliver \/ UNCHANGED <<published, view>>
  BY DEF Next, Publish, Writing, StoreWord, Crash, Restart, Snapshot, Reading,
         GiveUp, LoadWord, LoadSequence, CheckOld, CopyWord, Nothing, Retry,
         vars, shared, writer, reader
<1> QED BY <1>3, <1>4, <1>5, <1>6

(* The slot implements the mailbox.                                        *)
THEOREM SlotIsMailbox == ASSUME CrashInside = FALSE PROVE Spec => IsMailbox
<1>1. Init => Cell!Init
  BY SlotAssumption
     DEF Init, Cell!Init, Seen, ConsistentView, Empty, Indices
<1>2. SeqlockInv /\ SeqlockInv' /\ [Next]_vars => [Cell!Next]_(Cell!vars)
  BY MailboxStep
<1> QED BY <1>1, <1>2, SeqlockHolds, PTL DEF Spec, IsMailbox, Cell!Spec

-------------------------------------------------------------------------------
(***************************************************************************)
(* The workers that answer a planner's requests: what is between a worker  *)
(* and its head, what it publishes and what it reports, for any number of  *)
(* requests, restarts and frames.                                          *)
(***************************************************************************)

\* A pipe with one line is empty once it is read.
LEMMA OneLeft ==
  ASSUME NEW S, NEW s \in Seq(S), Len(s) = 1
  PROVE  s # <<>> /\ Head(s) = s[1] /\ Head(s) \in S /\ Tail(s) = <<>>
<1>1. s # <<>> /\ Head(s) = s[1] /\ Head(s) \in S /\ Tail(s) \in Seq(S) /\ Len(Tail(s)) = 0
  OBVIOUS
<1> QED BY <1>1, EmptySeq

\* Once a line is read, those that answer something are one place further up.
LEMMA AnsweringRest ==
  ASSUME NEW s \in Seq(Replies), s # <<>>
  PROVE  /\ Head(s) = s[1] /\ (Head(s).kind # "noise" => 1 \in Answering(s))
         /\ \A i \in Answering(Tail(s)) :
              i \in Nat \ {0} /\ i + 1 \in Answering(s) /\ Tail(s)[i] = s[i + 1]
<1>1. /\ Head(s) = s[1] /\ 1 \in DOMAIN s /\ DOMAIN s = 1 .. Len(s) /\ Len(s) \in Nat \ {0}
      /\ Tail(s) \in Seq(Replies) /\ Len(Tail(s)) = Len(s) - 1
      /\ DOMAIN Tail(s) = 1 .. Len(Tail(s))
  BY EmptySeq
<1>2. ASSUME NEW i \in Answering(Tail(s))
      PROVE  i \in Nat \ {0} /\ i + 1 \in Answering(s) /\ Tail(s)[i] = s[i + 1]
  <2>1. i \in 1 .. Len(s) - 1 /\ Tail(s)[i].kind # "noise"
    BY <1>1, <1>2 DEF Answering
  <2>2. Tail(s)[i] = s[i + 1] /\ i + 1 \in 1 .. Len(s)
    BY <1>1, <2>1
  <2> QED BY <1>1, <2>1, <2>2 DEF Answering
<1> QED BY <1>1, <1>2 DEF Answering

\* After lines that answer nothing, those that answer are the new ones.
LEMMA AnsweringMore ==
  ASSUME NEW s \in Seq(Replies), NEW a \in Seq(Replies), Answering(s) = {}
  PROVE  \A i \in Answering(s \o a) :
           i - Len(s) \in Answering(a) /\ (s \o a)[i] = a[i - Len(s)] /\ i \in Nat
<1>1. /\ DOMAIN s = 1 .. Len(s) /\ DOMAIN a = 1 .. Len(a) /\ Len(s) \in Nat /\ Len(a) \in Nat
      /\ DOMAIN (s \o a) = 1 .. Len(s) + Len(a)
  OBVIOUS
<1>2. ASSUME NEW i \in Answering(s \o a)
      PROVE  i - Len(s) \in Answering(a) /\ (s \o a)[i] = a[i - Len(s)] /\ i \in Nat
  <2>1. i \in 1 .. Len(s) + Len(a) /\ (s \o a)[i].kind # "noise"
    BY <1>1, <1>2 DEF Answering
  <2>2. CASE i \in 1 .. Len(s)
    <3>1. (s \o a)[i] = s[i]
      BY <2>2
    <3> QED BY <1>1, <2>1, <2>2, <3>1 DEF Answering
  <2>3. CASE i \notin 1 .. Len(s)
    <3>1. i - Len(s) \in 1 .. Len(a) /\ (s \o a)[i] = a[i - Len(s)]
      BY <1>1, <2>1, <2>3
    <3> QED BY <1>1, <2>1, <3>1 DEF Answering
  <2> QED BY <2>2, <2>3
<1> QED BY <1>2

\* What a worker's record holds.
LEMMA WorkerFields ==
  ASSUME NEW w \in Worker
  PROVE  /\ w.at \in {"poll", "ask", "wait", "publish", "stopped"}
         /\ w.last \in 0..MaxAsks /\ w.req \in Requests \cup {NONE}
         /\ w.reply \in Replies \cup {NONE} /\ w.prev \in Requests \cup {NONE}
         /\ w.failed \in BOOLEAN
BY DEF Worker

\* A worker that goes elsewhere is a worker.
LEMMA WorkerMoves ==
  ASSUME NEW w \in Worker
  PROVE  /\ \A a \in {"poll", "ask", "wait", "publish", "stopped"} : [w EXCEPT !.at = a] \in Worker
         /\ [w EXCEPT !.at = "stopped", !.failed = TRUE] \in Worker
         /\ \A r \in Replies : [w EXCEPT !.at = "publish", !.reply = r] \in Worker
         /\ \A q \in Requests :
              [w EXCEPT !.at = "poll", !.req = NONE, !.reply = NONE, !.prev = q] \in Worker
BY DEF Worker

\* So is one that has taken a request.
LEMMA Taken ==
  ASSUME NEW w \in Worker, NEW q \in Requests
  PROVE  [w EXCEPT !.at = "ask", !.last = q.seq, !.req = q] \in Worker
<1>1. q.seq \in 0..MaxAsks
  BY WorkersAssumption DEF Requests
<1> QED BY <1>1 DEF Worker

\* So is one that fails.
LEMMA Stops ==
  ASSUME worker \in Worker, Fail
  PROVE  worker' \in Worker /\ worker'.at = "stopped" /\ worker'.req = worker.req
BY DEF Fail, Worker

\* Published keeps the worker's record and what a response may be.
LEMMA PublishedTyped ==
  ASSUME worker \in Worker, NEW r, r.of \in Requests, Published(r)
  PROVE  worker' \in Worker /\ worker'.at = "poll"
<1> DEFINE q == r.of
<1>1. worker' = [worker EXCEPT !.at = "poll", !.req = NONE, !.reply = NONE, !.prev = q]
  BY DEF Published
<1> HIDE DEF q
<1>2. q \in Requests
  BY DEF q
<1> QED BY <1>1, <1>2 DEF Worker

\* What a service's record holds.
LEMMA ServiceFields ==
  ASSUME NEW s \in Service
  PROVE  s.in \in Seq(Lines) /\ s.out \in Seq(Replies)
BY DEF Service

\* A head that starts, hangs, dies or is reaped.
LEMMA StateTyped ==
  ASSUME NEW s \in Service, NEW a \in {NONE, "starting", "up", "hung", "dead", "gone"}
  PROVE  [s EXCEPT !.state = a] \in Service
BY DEF Service

\* The two pipes between the worker and its head.
LEMMA PipesTyped ==
  ASSUME NEW s \in Service, NEW p \in Seq(Lines), NEW q \in Seq(Replies)
  PROVE  /\ [s EXCEPT !.in = p] \in Service
         /\ [s EXCEPT !.out = q] \in Service
         /\ [s EXCEPT !.in = p, !.out = q] \in Service
         /\ [s EXCEPT !.in = p, !.twice = TRUE, !.out = q] \in Service
BY DEF Service

\* The line that a worker writes for a request.
LEMMA LineTyped ==
  ASSUME WorkersTypeOK, worker.at = "ask"
  PROVE  [of |-> worker.req, seed |-> IF config.rtc THEN worker.prev ELSE NONE] \in Lines
<1>1. worker.req \in Requests /\ worker.prev \in Requests \cup {NONE}
  BY WorkerFields DEF WorkersTypeOK
<1> DEFINE s == IF config.rtc THEN worker.prev ELSE NONE
<1>2. s \in Requests \cup {NONE}
  BY <1>1
<1> HIDE DEF s
<1> QED BY <1>1, <1>2 DEF Lines

(* What the head may write for a line that it answers once, and twice.       *)
Answers(l) ==
  LET line(kind) == [kind |-> kind, of |-> l.of, seed |-> l.seed]
  IN  {<<line("chunk")>>, <<line("noise"), line("chunk")>>,
       <<line("chunk"), line("noise")>>, <<line("wrong")>>}

Twice(l) ==
  LET line(kind) == [kind |-> kind, of |-> l.of, seed |-> l.seed]
  IN  <<line("chunk"), line("chunk")>>

\* What the head does with a line.
LEMMA HeadWrites ==
  ASSUME HeadAnswers
  PROVE  \/ \E a \in Answers(Head(service.in)) :
              service' = [service EXCEPT !.in = Tail(service.in), !.out = service.out \o a]
         \/ service' = [service EXCEPT !.in = Tail(service.in), !.twice = TRUE,
                                       !.out = service.out \o Twice(Head(service.in))]
BY DEF HeadAnswers, Answers, Twice

\* An answer is lines for the request, one of which answers it, or two if it is
\* answered twice.
LEMMA AnswersTyped ==
  ASSUME NEW l \in Lines
  PROVE  /\ Twice(l) \in Seq(Replies)
         /\ \A a \in Answers(l) :
              /\ a \in Seq(Replies)
              /\ \A i \in Answering(a) : a[i].of = l.of /\ \A j \in Answering(a) : i = j
<1> DEFINE line(kind) == [kind |-> kind, of |-> l.of, seed |-> l.seed]
<1>1. \A kind \in {"chunk", "noise", "wrong"} :
        line(kind) \in Replies /\ line(kind).of = l.of /\ line(kind).kind = kind
  BY DEF Lines, Replies
<1> DEFINE c == line("chunk")
           n == line("noise")
           w == line("wrong")
<1>2. /\ {c, n, w} \subseteq Replies
      /\ c.of = l.of /\ n.of = l.of /\ w.of = l.of
      /\ c.kind = "chunk" /\ n.kind = "noise" /\ w.kind = "wrong"
  BY <1>1
<1>3. Answers(l) = {<<c>>, <<n, c>>, <<c, n>>, <<w>>} /\ Twice(l) = <<c, c>>
  BY DEF Answers, Twice
<1> HIDE DEF c, n, w
<1>4. Twice(l) \in Seq(Replies)
  BY <1>2, <1>3
<1>5. ASSUME NEW a \in Answers(l)
      PROVE  /\ a \in Seq(Replies)
             /\ \A i \in Answering(a) : a[i].of = l.of /\ \A j \in Answering(a) : i = j
  <2>1. CASE a = <<c>>
    <3>1. a \in Seq(Replies) /\ DOMAIN a = {1} /\ a[1] = c
      BY <1>2, <2>1
    <3> QED BY <1>2, <3>1 DEF Answering
  <2>2. CASE a = <<n, c>>
    <3>1. a \in Seq(Replies) /\ DOMAIN a = {1, 2} /\ a[1] = n /\ a[2] = c
      BY <1>2, <2>2
    <3>2. Answering(a) = {2}
      BY <1>2, <3>1 DEF Answering
    <3> QED BY <1>2, <3>1, <3>2
  <2>3. CASE a = <<c, n>>
    <3>1. a \in Seq(Replies) /\ DOMAIN a = {1, 2} /\ a[1] = c /\ a[2] = n
      BY <1>2, <2>3
    <3>2. Answering(a) = {1}
      BY <1>2, <3>1 DEF Answering
    <3> QED BY <1>2, <3>1, <3>2
  <2>4. CASE a = <<w>>
    <3>1. a \in Seq(Replies) /\ DOMAIN a = {1} /\ a[1] = w
      BY <1>2, <2>4
    <3> QED BY <1>2, <3>1 DEF Answering
  <2> QED BY <1>3, <2>1, <2>2, <2>3, <2>4
<1> QED BY <1>4, <1>5

\* The worker's steps: poll, ask, read, publish; or the oracle's one.
LEMMA TypeWork ==
  ASSUME WorkersTypeOK, Work
  PROVE  WorkersTypeOK'
<1> USE DEF WorkersTypeOK
<1>1. CASE Poll
  <2>1. CASE Fail
    BY <1>1, <2>1, Stops DEF Poll
  <2>2. CASE worker' = [worker EXCEPT !.at = "ask", !.last = request.seq, !.req = request]
    <3>1. request \in Requests
      BY <1>1 DEF Poll, New
    <3>2. worker' \in Worker
      BY <2>2, <3>1, Taken
    <3>3. worker'.req = request /\ worker'.at = "ask"
      BY <2>2 DEF Worker
    <3> QED BY <1>1, <3>1, <3>2, <3>3 DEF Poll
  <2> QED BY <1>1, <2>1, <2>2 DEF Poll
<1>2. CASE AskHead
  <2>1. worker' \in Worker
    BY <1>2, WorkerMoves DEF AskHead, Fail
  <2>2. worker'.at \in {"wait", "stopped"} /\ worker'.req = worker.req
    BY <1>2 DEF AskHead, Fail, Worker
  <2>3. service' \in Service
    <3> DEFINE l    == [of |-> worker.req, seed |-> IF config.rtc THEN worker.prev ELSE NONE]
               more == Append(service.in, l)
    <3>1. l \in Lines
      BY <1>2, LineTyped DEF AskHead
    <3>2. service' = service \/ service' = [service EXCEPT !.in = more]
      BY <1>2 DEF AskHead
    <3> HIDE DEF l
    <3>3. more \in Seq(Lines)
      BY <3>1, ServiceFields
    <3> HIDE DEF more
    <3>4. <<>> \in Seq(Replies)
      OBVIOUS
    <3> QED BY <3>2, <3>3, <3>4, PipesTyped
  <2> QED BY <1>2, <2>1, <2>2, <2>3 DEF AskHead
<1>3. CASE ReadHead
  <2>1. service.out # <<>> => Head(service.out) \in Replies /\ Tail(service.out) \in Seq(Replies)
    <3> DEFINE out == service.out
    <3>1. out \in Seq(Replies)
      BY ServiceFields
    <3> HIDE DEF out
    <3>2. out # <<>> => Head(out) \in Replies /\ Tail(out) \in Seq(Replies)
      BY <3>1
    <3> QED BY <3>2 DEF out
  <2>2. worker' \in Worker
    BY <1>3, <2>1, WorkerMoves DEF ReadHead, Fail
  <2>3. service' \in Service
    <3> DEFINE rest == Tail(service.out)
    <3>1. service' = service \/ (rest \in Seq(Replies) /\ service' = [service EXCEPT !.out = rest])
      BY <1>3, <2>1 DEF ReadHead
    <3> HIDE DEF rest
    <3>2. <<>> \in Seq(Lines)
      OBVIOUS
    <3> QED BY <3>1, <3>2, PipesTyped
  <2>4. worker'.at \in {"ask", "wait", "publish"} => worker'.req = worker.req
    BY <1>3 DEF ReadHead, Fail, Worker
  <2>5. worker'.at = "publish" => worker'.reply \in Replies
    BY <1>3, <2>1 DEF ReadHead, Fail, Worker
  <2> QED BY <1>3, <2>2, <2>3, <2>4, <2>5 DEF ReadHead
<1>4. CASE PublishResponse
  <2>1. worker.reply.of \in Requests
    BY <1>4 DEF PublishResponse, Replies
  <2>2. worker' \in Worker /\ worker'.at = "poll"
    BY <1>4, <2>1, PublishedTyped DEF PublishResponse
  <2> QED BY <1>4, <2>2 DEF PublishResponse
<1>5. CASE Oracle
  <2>1. worker' \in Worker /\ worker'.at \in {"poll", "stopped"}
    <3>1. CASE Fail
      BY <3>1, Stops
    <3>2. CASE Published([of |-> worker.req])
      <4>1. [of |-> worker.req].of \in Requests
        BY <1>5 DEF Oracle
      <4> QED BY <3>2, <4>1, PublishedTyped
    <3> QED BY <1>5, <3>1, <3>2 DEF Oracle
  <2> QED BY <1>5, <2>1 DEF Oracle
<1> QED BY <1>1, <1>2, <1>3, <1>4, <1>5 DEF Work

\* Every step keeps the state well typed.
LEMMA WorkersTypeStep == WorkersTypeOK /\ [WorkersNext]_workersVars => WorkersTypeOK'
<1> SUFFICES ASSUME WorkersTypeOK, [WorkersNext]_workersVars PROVE WorkersTypeOK'
  OBVIOUS
<1> USE DEF WorkersTypeOK
<1>1. CASE Start
  <2>1. service' \in Service
    BY <1>1, StateTyped DEF Start
  <2> QED BY <1>1, <2>1 DEF Start
<1>2. CASE Leave \/ Ended
  BY <1>2 DEF Leave, Ended
<1>3. CASE Close
  <2>1. service' \in Service
    <3> DEFINE left == IF Alive(service.state) THEN "gone" ELSE service.state
    <3>1. service' = service \/ service' = [service EXCEPT !.state = left]
      BY <1>3 DEF Close
    <3>2. left \in {NONE, "starting", "up", "hung", "dead", "gone"}
      BY DEF Service
    <3> HIDE DEF left
    <3> QED BY <3>1, <3>2, StateTyped
  <2>2. report' \in BOOLEAN \cup {NONE}
    BY <1>3, WorkerFields DEF Close
  <2> QED BY <1>3, <2>1, <2>2 DEF Close
<1>4. CASE HeadAnswers
  <2>1. service.in # <<>> /\ Head(service.in) \in Lines /\ Tail(service.in) \in Seq(Lines)
    <3> DEFINE in == service.in
    <3>1. in # <<>> /\ in \in Seq(Lines)
      BY <1>4, ServiceFields DEF HeadAnswers
    <3> HIDE DEF in
    <3>2. Head(in) \in Lines /\ Tail(in) \in Seq(Lines)
      BY <3>1
    <3> QED BY <3>1, <3>2 DEF in
  <2>2. /\ Twice(Head(service.in)) \in Seq(Replies)
        /\ \A a \in Answers(Head(service.in)) : a \in Seq(Replies)
    BY <2>1, AnswersTyped
  <2>3. PICK a \in Seq(Replies) :
          \/ service' = [service EXCEPT !.in = Tail(service.in), !.out = service.out \o a]
          \/ service' = [service EXCEPT !.in = Tail(service.in), !.twice = TRUE,
                                        !.out = service.out \o a]
    BY <1>4, <2>2, HeadWrites
  <2>4. service' \in Service
    <3> DEFINE p == Tail(service.in)
               q == service.out \o a
    <3>1. p \in Seq(Lines) /\ service.out \in Seq(Replies)
      BY <2>1, ServiceFields
    <3>2. q \in Seq(Replies)
      BY <3>1
    <3>3. \/ service' = [service EXCEPT !.in = p, !.out = q]
          \/ service' = [service EXCEPT !.in = p, !.twice = TRUE, !.out = q]
      BY <2>3
    <3> HIDE DEF p, q
    <3>4. service \in Service
      OBVIOUS
    <3>5. /\ [service EXCEPT !.in = p, !.out = q] \in Service
          /\ [service EXCEPT !.in = p, !.twice = TRUE, !.out = q] \in Service
      BY <3>1, <3>2, <3>4, PipesTyped
    <3> QED BY <3>3, <3>5
  <2> QED BY <1>4, <2>4 DEF HeadAnswers
<1>5. CASE HeadFails
  BY <1>5, StateTyped DEF HeadFails
<1>6. CASE Asks
  <2>1. PICK frame \in IF Headed THEN {0} ELSE ctl.frame .. Length,
             ahead \in IF Headed THEN {0} ELSE 0 .. Lead, pinned \in {FALSE, ~Headed} :
          /\ frame + ahead <= Length
          /\ ctl' = [ctl EXCEPT !.seq = @ + 1, !.frame = frame]
          /\ request' = [seq |-> ctl.seq + 1, inc |-> ctl.inc, run |-> ctl.run,
                         frame |-> frame + ahead, pinned |-> pinned]
    BY <1>6 DEF Asks
  <2>2. frame \in 0..Length /\ ahead \in Nat /\ frame + ahead \in 0..Length
    BY <2>1, WorkersAssumption
  <2>3. ctl.seq + 1 \in 1..MaxAsks /\ ctl.seq + 1 \in 0..MaxAsks
    BY <1>6, WorkersAssumption DEF Asks
  <2>6. pinned \in BOOLEAN
    <3> HIDE DEF Headed
    <3> QED BY <2>1
  <2>4. request' \in Requests
    BY <2>1, <2>2, <2>3, <2>6 DEF Requests
  <2>5. ctl' \in [inc : {1, 2}, run : 1 .. MaxRuns, seq : 0 .. MaxAsks, frame : 0 .. Length]
    BY <2>1, <2>2, <2>3
  <2> QED BY <1>6, <2>4, <2>5 DEF Asks
<1>7. CASE Restarts
  <2>1. ctl' \in [inc : {1, 2}, run : 1 .. MaxRuns, seq : 0 .. MaxAsks, frame : 0 .. Length]
    <3>1. CASE ctl.run < MaxRuns /\ ctl' = [ctl EXCEPT !.run = @ + 1, !.frame = 0]
      <4>1. ctl.run + 1 \in 1..MaxRuns /\ 0 \in 0..Length
        BY <3>1, WorkersAssumption
      <4> QED BY <3>1, <4>1
    <3>2. CASE ctl' = [inc |-> 2, run |-> 1, seq |-> 0, frame |-> 0]
      <4>1. 1 \in 1..MaxRuns /\ 0 \in 0..Length /\ 0 \in 0..MaxAsks
        BY WorkersAssumption
      <4> QED BY <3>2, <4>1
    <3> QED BY <1>7, <3>1, <3>2 DEF Restarts
  <2> QED BY <1>7, <2>1 DEF Restarts
<1>8. CASE UNCHANGED workersVars
  BY <1>8 DEF workersVars
<1> QED
  BY <1>1, <1>2, <1>3, <1>4, <1>5, <1>6, <1>7, <1>8, TypeWork DEF WorkersNext

\* The initial state is well typed.
LEMMA WorkersTypeInit == WorkersInit => WorkersTypeOK
<1> SUFFICES ASSUME WorkersInit PROVE WorkersTypeOK
  OBVIOUS
<1>0. 0 \in 0..MaxAsks /\ 1 \in 1..MaxRuns /\ 0 \in 0..Length
  BY WorkersAssumption
<1>1. worker \in Worker /\ worker.at = "poll"
  BY <1>0 DEF WorkersInit, Worker
<1>2. service \in Service
  BY DEF WorkersInit, Service
<1> QED BY <1>0, <1>1, <1>2 DEF WorkersInit, WorkersTypeOK

\* The state of the two planner workers is well typed: requests inside the motion,
\* lines and replies that name a request, one head (planner/*.py).
THEOREM WorkersTyped == WorkersSpec => []WorkersTypeOK
<1> QED BY WorkersTypeInit, WorkersTypeStep, PTL DEF WorkersSpec

-----------------------------------------------------------------------------
(* One line is out.                                                         *)

\* Only a head that answers twice is known to have done so.
LEMMA TwiceStays ==
  ASSUME WorkersTypeOK, [WorkersNext]_workersVars, ~service'.twice
  PROVE  ~service.twice
<1>0. service \in Service
  BY DEF WorkersTypeOK
<1>1. CASE HeadAnswers
  <2>1. service'.twice = service.twice \/ service'.twice = TRUE
    BY <1>0, <1>1, HeadWrites DEF Service
  <2> QED BY <2>1
<1>2. CASE Start \/ Close \/ HeadFails
  BY <1>0, <1>2 DEF Start, Close, HeadFails, Service
<1>3. CASE AskHead \/ ReadHead
  BY <1>0, <1>3 DEF AskHead, ReadHead, Service
<1>4. CASE \/ Leave \/ Ended \/ Asks \/ Restarts \/ Poll \/ PublishResponse \/ Oracle
           \/ UNCHANGED workersVars
  BY <1>4 DEF Leave, Ended, Asks, Restarts, Poll, PublishResponse, Oracle, workersVars
<1> QED BY <1>1, <1>2, <1>3, <1>4 DEF WorkersNext, Work

\* Every step keeps what is between the worker and its head: nothing, one line, or
\* the answer to it, among lines that answer nothing.
LEMMA LineStep ==
  ASSUME WorkersTypeOK, OneLineOut, [WorkersNext]_workersVars
  PROVE  OneLineOut'
<1> SUFFICES ASSUME ~service'.twice PROVE OneLineOut'
  BY DEF OneLineOut
<1> USE DEF OneLineOut
<1>0. worker \in Worker /\ service \in Service /\ ~service.twice
  BY TwiceStays DEF WorkersTypeOK
<1>1. CASE \/ Leave \/ Ended \/ Asks \/ Restarts \/ UNCHANGED workersVars
  BY <1>0, <1>1 DEF Leave, Ended, Asks, Restarts, workersVars
<1>2. CASE Start \/ Close \/ HeadFails
  <2>1. worker' = worker /\ service'.in = service.in /\ service'.out = service.out
    BY <1>0, <1>2 DEF Start, Close, HeadFails, Service
  <2> QED BY <1>0, <2>1
<1>3. CASE Poll
  BY <1>0, <1>3 DEF Poll, Fail, Worker
<1>4. CASE AskHead
  <2>1. CASE Fail
    BY <1>0, <2>1 DEF Fail, Worker
  <2>2. CASE ~Fail
    <3> DEFINE l == [of |-> worker.req, seed |-> IF config.rtc THEN worker.prev ELSE NONE]
    <3>1. /\ service' = [service EXCEPT !.in = Append(service.in, l)]
          /\ worker' = [worker EXCEPT !.at = "wait"] /\ worker.at = "ask"
      BY <1>4, <2>2 DEF AskHead
    <3>2. l.of = worker.req
      OBVIOUS
    <3> HIDE DEF l
    <3>3. /\ service'.in = Append(<<>>, l) /\ service'.out = service.out
          /\ Answering(service.out) = {}
      BY <1>0, <3>1 DEF Service
    <3>4. worker'.at = "wait" /\ worker'.req = worker.req
      BY <1>0, <3>1 DEF Worker
    <3>5. Append(<<>>, l) = <<l>>
      OBVIOUS
    <3> QED BY <3>2, <3>3, <3>4, <3>5
  <2> QED BY <2>1, <2>2
<1>5. CASE ReadHead
  <2>1. CASE Fail
    BY <1>0, <2>1 DEF Fail, Worker
  <2>2. CASE ~Fail
    <3> DEFINE out  == service.out
               rest == Tail(out)
               line == Head(out)
    <3>1. /\ worker.at = "wait" /\ out # <<>>
          /\ service' = [service EXCEPT !.out = rest]
          /\ \/ line.kind # "noise" /\ worker' = [worker EXCEPT !.at = "publish", !.reply = line]
             \/ line.kind = "noise" /\ UNCHANGED worker
      BY <1>5, <2>2 DEF ReadHead
    <3>2. out \in Seq(Replies)
      BY <1>0, ServiceFields
    <3>3. \/ /\ Len(service.in) = 1 /\ service.in[1].of = worker.req /\ Answering(out) = {}
          \/ /\ service.in = <<>>
             /\ \A i \in Answering(out) :
                  out[i].of = worker.req /\ \A j \in Answering(out) : i = j
      BY <1>0, <3>1
    <3>4. service'.in = service.in /\ service'.out = rest
      BY <1>0, <3>1 DEF Service
    <3> HIDE DEF out
    <3>5. /\ line.kind # "noise" => 1 \in Answering(out)
          /\ \A i \in Answering(rest) :
               i \in Nat \ {0} /\ i + 1 \in Answering(out) /\ rest[i] = out[i + 1]
      BY <3>1, <3>2, AnsweringRest
    <3> HIDE DEF rest, line
    <3>6. CASE line.kind # "noise"
      <4>1. Answering(rest) = {}
        <5> SUFFICES ASSUME NEW i \in Answering(rest) PROVE FALSE
          OBVIOUS
        <5>1. i + 1 = 1 /\ i \in Nat \ {0}
          BY <3>3, <3>5, <3>6
        <5> QED BY <5>1
      <4>2. worker'.at = "publish" /\ service.in = <<>>
        BY <1>0, <3>1, <3>3, <3>5, <3>6 DEF Worker
      <4> QED BY <3>4, <4>1, <4>2
    <3>7. CASE line.kind = "noise"
      <4>1. worker' = worker /\ worker.at = "wait"
        BY <3>1, <3>7
      <4>2. ASSUME Answering(out) = {} PROVE Answering(rest) = {}
        BY <3>5, <4>2
      <4>3. ASSUME NEW i \in Answering(rest), service.in = <<>>
            PROVE  rest[i].of = worker.req /\ \A j \in Answering(rest) : i = j
        <5>1. rest[i].of = worker.req
          BY <3>3, <3>5, <4>3
        <5>2. ASSUME NEW j \in Answering(rest) PROVE i = j
          <6>1. i + 1 = j + 1 /\ i \in Nat /\ j \in Nat
            BY <3>3, <3>5, <4>3, <5>2
          <6> QED BY <6>1
        <5> QED BY <5>1, <5>2
      <4> QED BY <3>3, <3>4, <4>1, <4>2, <4>3
    <3> QED BY <3>6, <3>7
  <2> QED BY <2>1, <2>2
<1>6. CASE PublishResponse \/ Oracle
  BY <1>0, <1>6 DEF PublishResponse, Oracle, Published, Fail, Worker
<1>7. CASE HeadAnswers
  <2> DEFINE in == service.in
             l  == Head(in)
  <2>1. in # <<>> /\ in \in Seq(Lines) /\ worker' = worker
    BY <1>0, <1>7, ServiceFields DEF HeadAnswers
  <2>2. PICK a \in Answers(l) :
          service' = [service EXCEPT !.in = Tail(in), !.out = service.out \o a]
    BY <1>0, <1>7, HeadWrites DEF Service
  <2>3. CASE worker.at = "wait"
    <3>1. Len(in) = 1 /\ Answering(service.out) = {} /\ in[1].of = worker.req
      BY <1>0, <2>1, <2>3
    <3> HIDE DEF in
    <3>2. l \in Lines /\ l.of = worker.req /\ Tail(in) = <<>>
      BY <2>1, <3>1, OneLeft
    <3> HIDE DEF l
    <3>3. /\ a \in Seq(Replies)
          /\ \A i \in Answering(a) : a[i].of = worker.req /\ \A j \in Answering(a) : i = j
      BY <3>2, AnswersTyped
    <3> DEFINE out == service.out
               more == out \o a
    <3>4. out \in Seq(Replies) /\ Len(out) \in Nat
      <4>1. out \in Seq(Replies)
        BY <1>0, ServiceFields
      <4> HIDE DEF out
      <4> QED BY <4>1
    <3>5. service'.in = <<>> /\ service'.out = more
      BY <1>0, <2>2, <3>2 DEF Service
    <3> HIDE DEF out
    <3>6. \A i \in Answering(more) :
            i - Len(out) \in Answering(a) /\ more[i] = a[i - Len(out)] /\ i \in Nat
      BY <3>1, <3>3, <3>4, AnsweringMore DEF out
    <3> HIDE DEF more
    <3>7. ASSUME NEW i \in Answering(more)
          PROVE  more[i].of = worker.req /\ \A j \in Answering(more) : i = j
      <4>1. more[i].of = worker.req
        BY <3>3, <3>6
      <4>2. ASSUME NEW j \in Answering(more) PROVE i = j
        <5>1. i - Len(out) = j - Len(out) /\ i \in Nat /\ j \in Nat
          BY <3>3, <3>6
        <5> QED BY <3>4, <5>1
      <4> QED BY <4>1, <4>2
    <3> QED BY <2>1, <2>3, <3>5, <3>7
  <2>4. CASE worker.at # "wait"
    <3>1. worker.at = "stopped"
      BY <1>0, <2>1, <2>4 DEF Worker
    <3> QED BY <2>1, <3>1
  <2> QED BY <2>3, <2>4
<1> QED
  BY <1>1, <1>2, <1>3, <1>4, <1>5, <1>6, <1>7 DEF WorkersNext, Work

-----------------------------------------------------------------------------
(* What is published.                                                       *)

\* So what is published answers what was asked.
LEMMA AnswerStep ==
  ASSUME WorkersTypeOK, WorkersInv, [WorkersNext]_workersVars
  PROVE  /\ (worker.at = "publish" /\ ~service.twice => worker.reply.of = worker.req)'
         /\ (worker.at \in {"wait", "publish"} => Headed)'
         /\ AnswersItsRequest'
<1>0. worker \in Worker /\ service \in Service
  BY DEF WorkersTypeOK
<1>1. (worker.at \in {"wait", "publish"} => Headed)'
  <2>1. config' = config /\ (worker.at \in {"wait", "publish"} => Headed)
    BY DEF WorkersInv, WorkersNext, Work, Start, Poll, AskHead, ReadHead, PublishResponse,
           Oracle, Leave, Ended, Close, HeadAnswers, HeadFails, Asks, Restarts, workersVars
  <2>2. Headed' = Headed
    BY <2>1 DEF Headed
  <2>3. CASE worker' = worker
    BY <2>1, <2>2, <2>3
  <2>4. CASE Poll \/ PublishResponse \/ Oracle
    BY <1>0, <2>4 DEF Poll, PublishResponse, Oracle, Published, Fail, Worker
  <2>5. CASE AskHead \/ ReadHead
    BY <2>1, <2>2, <2>5 DEF AskHead, ReadHead
  <2> QED BY <2>3, <2>4, <2>5 DEF WorkersNext, Work, Start, Leave, Ended, Close, HeadAnswers,
             HeadFails, Asks, Restarts, workersVars
<1> SUFFICES ASSUME ~service'.twice
             PROVE  /\ worker'.at = "publish" => worker'.reply.of = worker'.req
                    /\ response' # NONE => response'.of.seq = response'.seq
  BY <1>1 DEF AnswersItsRequest
<1>2. /\ worker.at = "publish" => worker.reply.of = worker.req
      /\ response # NONE => response.of.seq = response.seq
      /\ OneLineOut /\ ~service.twice
  BY TwiceStays DEF WorkersInv, AnswersItsRequest
<1>3. CASE \/ Start \/ Leave \/ Ended \/ Close \/ HeadAnswers \/ HeadFails \/ Asks \/ Restarts
           \/ UNCHANGED workersVars
  <2>1. worker' = worker /\ response' = response
    BY <1>3 DEF Start, Leave, Ended, Close, HeadAnswers, HeadFails, Asks, Restarts, workersVars
  <2> QED BY <1>2, <2>1
<1>4. CASE Poll \/ AskHead
  <2>1. response' = response /\ worker'.at \in {"ask", "wait", "stopped"}
    BY <1>0, <1>4 DEF Poll, AskHead, Fail, Worker
  <2> QED BY <1>2, <2>1
<1>5. CASE ReadHead
  <2> DEFINE out  == service.out
             line == Head(out)
  <2>1. config' = config /\ response' = response /\ worker.at = "wait"
    BY <1>5 DEF ReadHead
  <2>2. CASE /\ worker' = [worker EXCEPT !.at = "publish", !.reply = line]
             /\ out # <<>> /\ line.kind # "noise"
    <3>1. out \in Seq(Replies)
      BY <1>0, ServiceFields
    <3>2. 1 \in Answering(out) /\ line = out[1]
      <4> HIDE DEF out
      <4> QED BY <2>2, <3>1, AnsweringRest
    <3>3. out[1].of = worker.req
      BY <1>2, <2>1, <3>2 DEF OneLineOut
    <3> HIDE DEF out
    <3>4. line.of = worker.req
      BY <3>2, <3>3
    <3> HIDE DEF line
    <3>5. worker'.reply = line /\ worker'.req = worker.req
      BY <1>0, <2>2 DEF Worker
    <3> QED BY <1>2, <2>1, <3>4, <3>5
  <2>3. CASE UNCHANGED worker \/ Fail
    <3>1. worker'.at # "publish"
      BY <1>0, <2>1, <2>3 DEF Fail, Worker
    <3> QED BY <1>2, <2>1, <3>1
  <2> QED BY <1>5, <2>2, <2>3 DEF ReadHead
<1>6. CASE PublishResponse
  <2>1. worker'.at = "poll"
    BY <1>0, <1>6 DEF PublishResponse, Published, Worker
  <2>2. response'.of = worker.reply.of /\ response'.seq = worker.req.seq
    BY <1>6 DEF PublishResponse
  <2>3. worker.reply.of = worker.req
    BY <1>2, <1>6 DEF PublishResponse
  <2> QED BY <2>1, <2>2, <2>3
<1>7. CASE Oracle
  <2>1. worker'.at \in {"poll", "stopped"}
    BY <1>0, <1>7 DEF Oracle, Published, Fail, Worker
  <2>2. response' = response \/ (response'.of = worker.req /\ response'.seq = worker.req.seq)
    BY <1>7 DEF Oracle
  <2> QED BY <1>2, <2>1, <2>2
<1> QED BY <1>3, <1>4, <1>5, <1>6, <1>7 DEF WorkersNext, Work

\* What the oracle publishes is the block at the frame of its request.
BlockInv == ~Headed /\ response # NONE =>
              response.of \in Requests /\ response.frames = Block(response.of.frame)

\* Every step keeps it.
LEMMA BlockStep ==
  ASSUME WorkersTypeOK, WorkersInv, [WorkersNext]_workersVars
  PROVE  BlockInv'
<1> USE DEF WorkersInv, BlockInv, Headed
<1>1. config' = config /\ (\A f : Block(f)' = Block(f))
  BY DEF Block, Horizon, WorkersNext, Work, Start, Poll, AskHead, ReadHead, PublishResponse,
         Oracle, Leave, Ended, Close, HeadAnswers, HeadFails, Asks, Restarts, workersVars
<1>2. CASE response' = response
  BY <1>1, <1>2
<1>3. CASE PublishResponse
  BY <1>1, <1>3 DEF PublishResponse
<1>4. CASE Oracle /\ response' # response
  <2>1. /\ worker.req \in Requests
        /\ response' = [seq |-> worker.req.seq, of |-> worker.req, seed |-> NONE,
                        frames |-> Block(worker.req.frame)]
    BY <1>4 DEF Oracle, WorkersTypeOK
  <2>2. response'.of = worker.req /\ response'.frames = Block(worker.req.frame)
    BY <2>1
  <2> QED BY <1>1, <2>1, <2>2
<1> QED
  BY <1>2, <1>3, <1>4
     DEF WorkersNext, Work, Start, Poll, AskHead, ReadHead, Leave, Ended, Close, HeadAnswers,
         HeadFails, Asks, Restarts, workersVars

\* Every step keeps what a report says.
LEMMA ReapedStep ==
  ASSUME WorkersTypeOK, ReapedAndReported, [WorkersNext]_workersVars
  PROVE  ReapedAndReported'
<1> USE DEF ReapedAndReported, Headed
<1>0. service \in Service /\ main \in {"start", "work", "closing", "reported", "raised"}
  BY DEF WorkersTypeOK
<1>1. CASE Start \/ Work \/ Leave \/ Ended \/ HeadAnswers \/ Asks \/ Restarts
  BY <1>1 DEF Start, Work, Poll, AskHead, ReadHead, PublishResponse, Oracle, Leave, Ended,
              HeadAnswers, Asks, Restarts, Alive
<1>2. CASE Close
  BY <1>0, <1>2 DEF Close, Alive, Service
<1>3. CASE HeadFails
  BY <1>3 DEF HeadFails, Alive
<1>4. CASE UNCHANGED workersVars
  BY <1>4 DEF workersVars
<1> QED BY <1>1, <1>2, <1>3, <1>4 DEF WorkersNext

\* Every step keeps the inductive invariant.
LEMMA WorkersInvStep == WorkersTypeOK /\ WorkersInv /\ [WorkersNext]_workersVars => WorkersInv'
BY LineStep, AnswerStep, BlockStep, ReapedStep DEF WorkersInv, BlockInv

\* The initial state satisfies it.
LEMMA WorkersInvInit == WorkersInit => WorkersInv
<1> SUFFICES ASSUME WorkersInit PROVE WorkersInv
  OBVIOUS
<1>1. worker.at = "poll" /\ service.in = <<>> /\ service.out = <<>>
  BY DEF WorkersInit
<1>2. Answering(service.out) = {}
  BY <1>1 DEF Answering
<1>3. OneLineOut
  BY <1>1, <1>2 DEF OneLineOut
<1> QED BY <1>1, <1>3 DEF WorkersInit, WorkersInv, AnswersItsRequest, ReapedAndReported

\* The inductive invariant of the workers.
THEOREM WorkersInduction == WorkersSpec => [](WorkersTypeOK /\ WorkersInv)
<1> QED
  BY WorkersTypeInit, WorkersInvInit, WorkersTypeStep, WorkersInvStep, PTL DEF WorkersSpec

\* A response answers the request whose number it carries, whatever the tracker
\* asks and restarts meanwhile and whatever the head writes beside its answers, as
\* long as it answers no line twice (the workers' run loops).
THEOREM AnswersOwn == WorkersSpec => []AnswersItsRequest
<1>1. WorkersInv => AnswersItsRequest
  BY DEF WorkersInv
<1> QED BY <1>1, WorkersInduction, PTL

\* A report is written only once the head is gone, and names an error if there was
\* one (close, then the report of each worker).
THEOREM Reaped == WorkersSpec => []ReapedAndReported
<1>1. WorkersInv => ReapedAndReported
  BY DEF WorkersInv
<1> QED BY <1>1, WorkersInduction, PTL

\* The farthest frame of the tracker's window, for every window and stride.
LEMMA Reach ==
  ASSUME NEW k \in 0 .. Frames - 1
  PROVE  k * Stride \in Nat /\ k * Stride <= (Frames - 1) * Stride
<1>1. Frames \in Nat /\ Stride \in Nat /\ k \in Nat /\ k <= Frames - 1
  BY WorkersAssumption
<1> QED BY <1>1

\* How far the controller reads is within the horizon, less the window.
LEMMA FarthestFits ==
  ASSUME WorkersTypeOK, NEW b, config.slack > 0 \/ ~b.of.pinned
  PROVE  Farthest(b) \in Nat /\ Farthest(b) <= Hold + config.slack
<1>1. /\ Hold \in Nat \ {0} /\ Lead \in Nat /\ Lead < Hold /\ config.slack \in {0, Hold}
  BY WorkersAssumption DEF WorkersTypeOK, Configs
<1>2. CASE b.of.pinned
  <2>1. Farthest(b) = Lead + Hold - 1 /\ config.slack = Hold
    BY <1>1, <1>2 DEF Farthest
  <2> QED BY <1>1, <2>1
<1>3. CASE ~b.of.pinned /\ config.slack = Hold
  <2>1. Farthest(b) = 2 * Hold - 1
    BY <1>1, <1>3 DEF Farthest
  <2> QED BY <1>1, <1>3, <2>1
<1>4. CASE ~b.of.pinned /\ config.slack = 0
  <2>1. Farthest(b) = Hold
    BY <1>1, <1>4 DEF Farthest
  <2> QED BY <1>1, <1>4, <2>1
<1> QED BY <1>1, <1>2, <1>3, <1>4

\* The oracle's block reaches every frame that the controller looks at: with the
\* slack of the default through a late reply or the release of a pinned reference,
\* without it as long as neither is the case, for every window, stride, hold and
\* lead (oracle worker).
THEOREM Covers == WorkersSpec => []BlockCovers
<1>1. WorkersTypeOK /\ WorkersInv => BlockCovers
  <2> SUFFICES ASSUME WorkersTypeOK, WorkersInv, config.kind = "oracle", response # NONE,
                      config.slack > 0 \/ ~response.of.pinned,
                      NEW o \in 0 .. Farthest(response), NEW k \in 0 .. Frames - 1
               PROVE  /\ o + k * Stride + 1 \in DOMAIN response.frames
                      /\ response.frames[o + k * Stride + 1]
                           = IF response.of.frame + o + k * Stride < Length
                               THEN response.of.frame + o + k * Stride ELSE Length - 1
    BY DEF BlockCovers, Holds
  <2> DEFINE m == k * Stride
             top == (Frames - 1) * Stride
             f == response.of.frame
  <2>1. m \in Nat /\ m <= top /\ top \in Nat
    BY Reach, WorkersAssumption
  <2>2. /\ Hold \in Nat /\ Length \in Nat /\ config.slack \in Nat
        /\ o \in Nat /\ o <= Hold + config.slack
    BY FarthestFits, WorkersAssumption DEF WorkersTypeOK, Configs
  <2>3. f \in Nat /\ response.frames = Block(f)
    BY WorkersAssumption DEF WorkersInv, Headed, Requests
  <2>4. Horizon = top + Hold + 1 + config.slack
    BY DEF Horizon
  <2> HIDE DEF m, top, f
  <2>5. o + m + 1 \in 1 .. Horizon
    BY <2>1, <2>2, <2>4
  <2>6. Block(f)[o + m + 1] = IF f + o + m < Length THEN f + o + m ELSE Length - 1
    BY <2>1, <2>2, <2>3, <2>5 DEF Block
  <2>7. o + m + 1 \in DOMAIN Block(f)
    BY <2>5 DEF Block
  <2> QED BY <2>3, <2>6, <2>7 DEF m, f
<1> QED BY <1>1, WorkersInduction, PTL

===============================================================================
