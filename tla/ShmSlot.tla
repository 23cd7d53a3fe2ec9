------------------------------ MODULE ShmSlot ------------------------------
(***************************************************************************)
(* The single-slot shared-memory buffer of shm_command_slot.hpp: one       *)
(* writer process, one reader process, a seqlock between them.  A packet   *)
(* is its number; every word of the slot holds the number of the packet it *)
(* was written for, so that a torn copy is a copy of two numbers.  Word 0  *)
(* is `sequence`; stamps, tag, length and values are the words after it.   *)
(* The fences and release/acquire pairs make the words' stores and loads   *)
(* happen in program order, which is how they are modelled.                *)
(***************************************************************************)
EXTENDS Naturals

CONSTANTS Words,        \* the last word of the slot
          Attempts,     \* kSnapshotAttempts
          CrashInside,  \* may the writer die inside publish?
          MaxPackets    \* bound: packets published

ASSUME SlotAssumption ==
  Words \in Nat \ {0} /\ Attempts \in Nat \ {0} /\ CrashInside \in BOOLEAN
  /\ MaxPackets \in Nat

VARIABLES word,      \* seq_word: odd while the writer is inside
          slot,      \* the words behind it
          published, \* the newest packet whose publish returned (a history)
          wpc, begin, packet, wi,            \* the writer
          rpc, tries, after, s1, got, ri,    \* the reader
          view       \* the packet the reader returned last

shared == <<word, slot, published>>
writer == <<wpc, begin, packet, wi>>
reader == <<rpc, tries, after, s1, got, ri, view>>
vars == <<word, slot, published, wpc, begin, packet, wi,
          rpc, tries, after, s1, got, ri, view>>

Indices == 0..Words
Empty == [i \in Indices |-> 0]

(* The creator's memset; nobody has connected yet.                         *)
Init ==
  /\ word = 0 /\ slot = Empty /\ published = 0
  /\ wpc = "idle" /\ begin = 0 /\ packet = 0 /\ wi = 0
  /\ rpc = "idle" /\ tries = 0 /\ after = 0 /\ s1 = 0 /\ got = Empty /\ ri = 0
  /\ view = Empty

----------------------------------------------------------------------------
(* publish                                                                 *)

(* A bug of that kind: the word is left even while the writer is inside.   *)
PublishEven ==
  /\ wpc = "idle" /\ packet < MaxPackets
  /\ wpc' = "inside" /\ begin' = word /\ packet' = packet + 1 /\ wi' = 0
  /\ UNCHANGED <<word, slot, published, reader>>

Publish ==
  /\ wpc = "idle" /\ packet < MaxPackets
  /\ wpc' = "inside" /\ begin' = word /\ packet' = packet + 1 /\ wi' = 0
  /\ word' = word + 1
  /\ UNCHANGED <<slot, published, reader>>

StoreWord ==
  /\ wpc = "inside" /\ wi <= Words
  /\ slot' = [slot EXCEPT ![wi] = packet] /\ wi' = wi + 1
  /\ UNCHANGED <<word, published, wpc, begin, packet, reader>>

(* A bug of that kind: the word stays odd.                                 *)
FinishOdd ==
  /\ wpc = "inside" /\ wi > Words
  /\ word' = begin + 1 /\ published' = packet /\ wpc' = "idle"
  /\ UNCHANGED <<slot, begin, packet, wi, reader>>

Finish ==
  /\ wpc = "inside" /\ wi > Words
  /\ word' = begin + 2 /\ published' = packet /\ wpc' = "idle"
  /\ UNCHANGED <<slot, begin, packet, wi, reader>>

(* The writer process dies, between two packets or inside one, and another *)
(* one connects to the same segment and goes on numbering.                 *)
Crash ==
  /\ wpc # "dead" /\ (wpc = "idle" \/ CrashInside)
  /\ wpc' = "dead"
  /\ UNCHANGED <<shared, begin, packet, wi, reader>>

Restart ==
  /\ wpc = "dead" /\ wpc' = "idle"
  /\ UNCHANGED <<shared, begin, packet, wi, reader>>

----------------------------------------------------------------------------
(* snapshot: returns a packet newer than `after`, or nothing.              *)

(* The native readers pass the packet they had last, a polling one passes  *)
(* zero and gets the same packet again.                                    *)
Snapshot(a) ==
  /\ rpc = "idle" /\ a \in {0, view[0]}
  /\ rpc' = "start" /\ tries' = 0 /\ after' = a
  /\ UNCHANGED <<shared, writer, s1, got, ri, view>>

Nothing == rpc' = "idle" /\ UNCHANGED <<tries, after, ri, view>>
Retry == rpc' = "start" /\ tries' = tries + 1 /\ UNCHANGED <<after, ri, view>>

GiveUp ==
  /\ rpc = "start" /\ tries = Attempts
  /\ Nothing /\ UNCHANGED <<shared, writer, s1, got>>

(* A bug of that kind: the attempts are not counted.                       *)
LoadWordForever ==
  /\ rpc = "start"
  /\ s1' = word
  /\ \/ word = 0 /\ Nothing
     \/ word % 2 = 1 /\ Retry
     \/ /\ word # 0 /\ word % 2 = 0
        /\ rpc' = "sequence" /\ UNCHANGED <<tries, after, ri, view>>
  /\ UNCHANGED <<shared, writer, got>>

(* The first load: never published, a writer inside, or a candidate.       *)
LoadWord ==
  /\ rpc = "start" /\ tries < Attempts
  /\ s1' = word
  /\ \/ word = 0 /\ Nothing
     \/ word % 2 = 1 /\ Retry
     \/ /\ word # 0 /\ word % 2 = 0
        /\ rpc' = "sequence" /\ UNCHANGED <<tries, after, ri, view>>
  /\ UNCHANGED <<shared, writer, got>>

LoadSequence ==
  /\ rpc = "sequence"
  /\ got' = [got EXCEPT ![0] = slot[0]] /\ ri' = 1
  /\ rpc' = IF slot[0] <= after THEN "old" ELSE "copy"
  /\ UNCHANGED <<shared, writer, tries, after, s1, view>>

(* An old packet is reported only if the writer was not inside meanwhile.  *)
CheckOld ==
  /\ rpc = "old"
  /\ IF word = s1 THEN Nothing ELSE Retry
  /\ UNCHANGED <<shared, writer, s1, got>>

CopyWord ==
  /\ rpc = "copy" /\ ri <= Words
  /\ got' = [got EXCEPT ![ri] = slot[ri]] /\ ri' = ri + 1
  /\ UNCHANGED <<shared, writer, rpc, tries, after, s1, view>>

(* A bug of that kind: the copy is taken for what the first load promised. *)
DeliverUnchecked ==
  /\ rpc = "copy" /\ ri > Words
  /\ view' = got /\ rpc' = "idle" /\ UNCHANGED <<tries, after, ri>>
  /\ UNCHANGED <<shared, writer, s1, got>>

(* The second load decides whether the copy is one packet.                 *)
Deliver ==
  /\ rpc = "copy" /\ ri > Words
  /\ IF word = s1
     THEN view' = got /\ rpc' = "idle" /\ UNCHANGED <<tries, after, ri>>
     ELSE Retry
  /\ UNCHANGED <<shared, writer, s1, got>>

----------------------------------------------------------------------------
Writing == StoreWord \/ Finish
Reading == GiveUp \/ LoadWord \/ LoadSequence \/ CheckOld \/ CopyWord \/ Deliver

Next ==
  \/ Publish \/ Writing \/ Crash \/ Restart
  \/ Snapshot(0) \/ Snapshot(view[0]) \/ Reading

Spec == Init /\ [][Next]_vars

(* A publish that was begun goes on, and the reader polls: the control     *)
(* thread in every tick, a worker in every round of its loop.  Nobody has  *)
(* to publish.                                                             *)
LiveSpec ==
  Spec /\ WF_vars(Writing) /\ WF_vars(Snapshot(view[0])) /\ WF_vars(Reading)

----------------------------------------------------------------------------
TypeOK ==
  /\ word \in Nat /\ slot \in [Indices -> Nat] /\ published \in Nat
  /\ wpc \in {"idle", "inside", "dead"} /\ begin \in Nat /\ packet \in Nat
  /\ wi \in 0..Words + 1
  /\ rpc \in {"idle", "start", "sequence", "old", "copy"}
  /\ tries \in 0..Attempts /\ after \in Nat /\ s1 \in Nat
  /\ got \in [Indices -> Nat] /\ ri \in 0..Words + 1
  /\ view \in [Indices -> Nat]

(* What snapshot returns is one packet: "Copies a consistent view into the *)
(* caller's buffers" (shm_command_slot.hpp).                               *)
ConsistentView == \A i \in Indices : view[i] = view[0]

(* The slot is the mailbox: a packet is published when publish stores the  *)
(* even word, read when the second load succeeds, and what is read is the  *)
(* newest at that moment.  A torn view would be no packet at all.          *)
Seen == IF ConsistentView THEN view[0] ELSE MaxPackets + 1
Cell == INSTANCE Mailbox WITH held <- published, seen <- Seen
IsMailbox == Cell!Spec

(* "the reader retries until it sees a stable even sequence word": the     *)
(* newest packet is read by a reader that polls, or replaced.              *)
Fresh == \A p \in 1..MaxPackets :
           published = p ~> view[0] = p \/ published > p

(* The strengthening behind ConsistentView: the word counts the packets,   *)
(* the writer has replaced the words below wi, and what the reader copied  *)
(* since its first load is the slot's as long as the word has not moved.   *)
WordCounts ==
  /\ word = 2 * published + (IF wpc = "inside" THEN 1 ELSE 0)
  /\ packet = IF wpc = "inside" THEN published + 1 ELSE published
  /\ wpc = "inside" => begin = 2 * published
SlotIsWritten ==
  \A i \in Indices :
    slot[i] = IF wpc = "inside" /\ i < wi THEN published + 1 ELSE published
CopyIsCurrent ==
  rpc \in {"sequence", "old", "copy"} =>
    /\ s1 <= word /\ s1 # 0
    /\ s1 = word => wpc # "inside"
    /\ s1 = word /\ rpc = "copy" => \A i \in Indices : i < ri => got[i] = published
Inductive == WordCounts /\ SlotIsWritten /\ CopyIsCurrent /\ ConsistentView
=============================================================================
