-------------------------- MODULE ReplicationProofs -------------------------
(***************************************************************************)
(* Snapshot replication and lineage clocks, for any snapshots, any number  *)
(* of steps and faults, any sites and any physical clocks.                 *)
(*                                                                         *)
(* Delivery in order rests on what a frame is: its sequence number names   *)
(* the message it carries among those sent, so the one number a receiver   *)
(* accepts can only bring the next message.                                *)
(*                                                                         *)
(* Replication rests on a chain of obligations: what a has and b lacks is  *)
(* named in an advertisement on its way to b, in a request on its way to   *)
(* a, or is itself on its way to b, and a round in which neither end waits *)
(* for anything leaves none of these on its way.                           *)
(***************************************************************************)
EXTENDS SnapshotSync, SnapshotLineage, ChainLemmas, FiniteSetTheorems, SequenceTheorems, TLAPS

Digests == {SnapshotDigest[s] : s \in Snapshots}

Messages ==
  [kind : {"advertise", "want"}, digests : SUBSET Digests]
  \cup [kind : {"snapshot"}, digest : Digests, snapshot : Snapshots]
  \cup [kind : {"ack", "nack"}, digest : Digests]

FrameRecords == [seq : Nat, msg : Messages, forged : BOOLEAN]

\* A store maps digests to snapshots that have them.
StoreOK(store) ==
  \A d \in DOMAIN store :
    d \in Digests /\ d # Malformed /\ store[d] \in Snapshots /\ SnapshotDigest[store[d]] = d

SyncTypeOK ==
  /\ held = [n \in Nodes |-> held[n]] /\ \A n \in Nodes : StoreOK(held[n])
  /\ stream \in [Nodes -> Seq(FrameRecords)]
  /\ sent \in [Nodes -> Seq(Messages)] /\ got \in [Nodes -> Seq(Messages)]
  /\ tx_seq \in [Nodes -> Nat] /\ expected_rx_seq \in [Nodes -> Nat]
  /\ driver \in [at : Nodes, progressed : BOOLEAN, steps : Nat, result : {"running", "ok", "err"}]
  /\ faults \in Nat /\ faults <= MaxFaults /\ hasty \in BOOLEAN

\* The counters of the two ends count what was sent and what was handled.
Counted ==
  \A n \in Nodes : tx_seq[Peer(n)] = Len(sent[n]) /\ expected_rx_seq[n] = Len(got[n])

\* A frame carries the message that its number names.
Carries(f, msgs) == f.seq < Len(msgs) /\ f.msg = msgs[f.seq + 1]
FramesOK == \A n \in Nodes : \A i \in DOMAIN stream[n] : Carries(stream[n][i], sent[n])

DeliveryInv == SyncTypeOK /\ Counted /\ FramesOK /\ DeliveredInOrder

-----------------------------------------------------------------------------
LEMMA TwoNodes ==
  /\ "a" \in Nodes /\ "b" \in Nodes /\ "a" # "b"
  /\ \A n \in Nodes : Peer(n) \in Nodes /\ Peer(n) # n /\ Peer(Peer(n)) = n
  /\ \A m, n \in Nodes : m = n \/ m = Peer(n)
BY DEF Nodes, Peer

\* The digests of a message are finitely many, and Listed names each.
LEMMA ListedOK ==
  ASSUME NEW ds \in SUBSET Digests
  PROVE  /\ Cardinality(ds) \in Nat
         /\ Listed(ds) \in [1 .. Cardinality(ds) -> ds]
         /\ \A d \in ds : \E x \in 1 .. Cardinality(ds) : Listed(ds)[x] = d
<1> DEFINE name == [s \in Snapshots |-> SnapshotDigest[s]]
           N == Cardinality(ds)
<1>1. name \in Surjection(Snapshots, Digests)
  BY DEF Surjection, Digests
<1>2. IsFiniteSet(Digests)
  BY <1>1, FS_Surjection, SyncAssumption
<1>3. IsFiniteSet(ds) /\ N \in Nat /\ ExistsBijection(1 .. N, ds)
  BY <1>2, FS_Subset, FS_CardinalityType
<1>4. PICK f \in [1 .. N -> ds] : \A x, y \in DOMAIN f : x # y => f[x] # f[y]
  BY <1>3 DEF ExistsBijection, Bijection, Injection, IsInjective
<1>5. /\ Listed(ds) \in [1 .. N -> ds]
      /\ \A x, y \in DOMAIN Listed(ds) : x # y => Listed(ds)[x] # Listed(ds)[y]
  BY <1>4 DEF Listed
<1>6. Listed(ds) \in Injection(1 .. N, ds)
  BY <1>5 DEF Injection, IsInjective
<1>7. Cardinality(1 .. N) = N
  BY <1>3, FS_Interval
<1>8. Listed(ds) \in Surjection(1 .. N, ds)
  BY <1>3, <1>6, <1>7, FS_Injection
<1> QED BY <1>3, <1>5, <1>8 DEF Surjection

\* The kinds of message and their fields.
LEMMA MessageKinds ==
  ASSUME NEW m \in Messages
  PROVE  /\ m.kind \in {"advertise", "want", "snapshot", "ack", "nack"}
         /\ m.kind \in {"advertise", "want"} => m.digests \in SUBSET Digests
         /\ m.kind \in {"snapshot", "ack", "nack"} => m.digest \in Digests
         /\ m.kind = "snapshot" => m.snapshot \in Snapshots
BY DEF Messages

\* Building messages.
LEMMA MakeMessages ==
  /\ \A ds \in SUBSET Digests : /\ [kind |-> "want", digests |-> ds] \in Messages
                                /\ [kind |-> "advertise", digests |-> ds] \in Messages
  /\ \A d \in Digests : /\ [kind |-> "ack", digest |-> d] \in Messages
                        /\ [kind |-> "nack", digest |-> d] \in Messages
                        /\ \A s \in Snapshots :
                             [kind |-> "snapshot", digest |-> d, snapshot |-> s] \in Messages
BY DEF Messages

LEMMA SendsMessages ==
  ASSUME SyncTypeOK, NEW n \in Nodes
  PROVE  \A d \in Digests : SnapshotOrGone(n, d) \in Messages
BY MakeMessages DEF SyncTypeOK, StoreOK, SnapshotOrGone

\* SyncNode::handle answers with messages.
LEMMA AnswersOK ==
  ASSUME SyncTypeOK, NEW n \in Nodes, NEW m \in Messages
  PROVE  Answers(n, m) \in Seq(Messages)
<1>1. CASE m.kind = "advertise"
  <2>1. Want(n, m.digests) \in SUBSET Digests
    BY <1>1, MessageKinds DEF Want
  <2> DEFINE w == [kind |-> "want", digests |-> Want(n, m.digests)]
  <2>2. w \in Messages
    BY <2>1, MakeMessages
  <2>3. Answers(n, m) = <<>> \/ Answers(n, m) = <<w>>
    BY <1>1 DEF Answers
  <2> HIDE DEF w
  <2>4. <<w>> \in Seq(Messages) /\ <<>> \in Seq(Messages)
    BY <2>2
  <2> QED BY <2>3, <2>4
<1>2. CASE m.kind = "want"
  <2> DEFINE N == Cardinality(m.digests)
             f == [x \in 1 .. N |-> SnapshotOrGone(n, Listed(m.digests)[x])]
  <2>1. N \in Nat /\ \A x \in 1 .. N : SnapshotOrGone(n, Listed(m.digests)[x]) \in Messages
    BY <1>2, MessageKinds, ListedOK, SendsMessages
  <2>2. f \in Seq(Messages)
    BY <2>1
  <2> QED BY <1>2, <2>2 DEF Answers
<1>3. CASE m.kind = "snapshot"
  <2>1. [kind |-> IF Verified(m) THEN "ack" ELSE "nack", digest |-> m.digest] \in Messages
    BY <1>3, MessageKinds, MakeMessages
  <2> QED BY <1>3, <2>1 DEF Answers
<1>4. CASE m.kind \notin {"advertise", "want", "snapshot"}
  BY <1>4, EmptySeq DEF Answers
<1> QED BY <1>1, <1>2, <1>3, <1>4

\* A handler stores only what has its digest, and drops nothing.
LEMMA StoreAfterOK ==
  ASSUME SyncTypeOK, NEW n \in Nodes, NEW m \in Messages
  PROVE  /\ StoreOK(StoreAfter(n, m)) /\ DOMAIN held[n] \subseteq DOMAIN StoreAfter(n, m)
         /\ m.kind # "snapshot" => StoreAfter(n, m) = held[n]
         /\ m.kind = "snapshot" /\ Verified(m) => m.digest \in DOMAIN StoreAfter(n, m)
BY MessageKinds DEF SyncTypeOK, StoreOK, StoreAfter, With, Verified

\* The frames of a sequence of messages.
LEMMA FramesOfMessages ==
  ASSUME SyncTypeOK, NEW n \in Nodes, NEW msgs \in Seq(Messages)
  PROVE  /\ Frames(n, msgs) \in Seq(FrameRecords) /\ Len(Frames(n, msgs)) = Len(msgs)
         /\ \A x \in 1 .. Len(msgs) : /\ Frames(n, msgs)[x].seq = tx_seq[n] + x - 1
                                      /\ Frames(n, msgs)[x].msg = msgs[x]
<1>1. DOMAIN msgs = 1 .. Len(msgs) /\ Len(msgs) \in Nat /\ \A x \in 1 .. Len(msgs) : msgs[x] \in Messages
  OBVIOUS
<1>2. tx_seq[n] \in Nat
  BY DEF SyncTypeOK
<1>3. \A x \in 1 .. Len(msgs) :
        [seq |-> tx_seq[n] + x - 1, msg |-> msgs[x], forged |-> FALSE] \in FrameRecords
  BY <1>1, <1>2 DEF FrameRecords
<1> QED BY <1>1, <1>3 DEF Frames

-----------------------------------------------------------------------------
LEMMA StockedOK ==
  ASSUME NEW set \in SUBSET Snapshots
  PROVE  StoreOK(Stocked(set)) /\ DOMAIN Stocked(set) \in SUBSET Digests
<1>1. DOMAIN Stocked(set) = {SnapshotDigest[s] : s \in set} \ {Malformed}
  BY DEF Stocked
<1>2. ASSUME NEW d \in DOMAIN Stocked(set)
      PROVE  Stocked(set)[d] \in set /\ SnapshotDigest[Stocked(set)[d]] = d
  <2>1. \E s \in set : SnapshotDigest[s] = d
    BY <1>1
  <2>2. Stocked(set)[d] = CHOOSE s \in set : SnapshotDigest[s] = d
    BY <1>1 DEF Stocked
  <2> QED BY <2>1, <2>2
<1> QED BY <1>1, <1>2 DEF StoreOK, Digests

\* connect, accept and the advertisement.
LEMMA DeliveryInit == SyncInit => DeliveryInv
<1> SUFFICES ASSUME SyncInit PROVE DeliveryInv
  OBVIOUS
<1>1. PICK atA, atB \in SUBSET Snapshots :
    LET advertise == [kind |-> "advertise", digests |-> DOMAIN Stocked(atA)]
    IN  /\ held = [n \in Nodes |-> IF n = "a" THEN Stocked(atA) ELSE Stocked(atB)]
        /\ stream = [n \in Nodes |-> IF n = "b" THEN <<[seq |-> 0, msg |-> advertise, forged |-> FALSE]>> ELSE <<>>]
        /\ tx_seq = [n \in Nodes |-> IF n = "a" THEN 1 ELSE 0]
        /\ expected_rx_seq = [n \in Nodes |-> 0]
        /\ sent = [n \in Nodes |-> IF n = "b" THEN <<advertise>> ELSE <<>>]
        /\ got = [n \in Nodes |-> <<>>]
        /\ driver = [at |-> "b", progressed |-> FALSE, steps |-> 0, result |-> "running"]
        /\ faults = MaxFaults /\ hasty = FALSE
  BY DEF SyncInit
<1> DEFINE advertise == [kind |-> "advertise", digests |-> DOMAIN Stocked(atA)]
           frame == [seq |-> 0, msg |-> advertise, forged |-> FALSE]
<1>2. advertise \in Messages /\ frame \in FrameRecords
  BY StockedOK, MakeMessages DEF FrameRecords
<1>3. <<advertise>> \in Seq(Messages) /\ <<frame>> \in Seq(FrameRecords)
  BY <1>2
<1>4. frame.seq = 0 /\ frame.msg = advertise
  OBVIOUS
<1>5. /\ stream = [n \in Nodes |-> IF n = "b" THEN <<frame>> ELSE <<>>]
      /\ sent = [n \in Nodes |-> IF n = "b" THEN <<advertise>> ELSE <<>>]
  BY <1>1
<1> HIDE DEF advertise, frame
<1>6. SyncTypeOK
  <2>1. held = [n \in Nodes |-> held[n]] /\ \A n \in Nodes : StoreOK(held[n])
    BY <1>1, StockedOK
  <2>2. <<>> \in Seq(FrameRecords) /\ <<>> \in Seq(Messages)
    BY EmptySeq
  <2>3. stream \in [Nodes -> Seq(FrameRecords)] /\ sent \in [Nodes -> Seq(Messages)]
    BY <1>3, <1>5, <2>2
  <2>4. got \in [Nodes -> Seq(Messages)] /\ tx_seq \in [Nodes -> Nat] /\ expected_rx_seq \in [Nodes -> Nat]
    BY <1>1, <2>2
  <2>5. driver \in [at : Nodes, progressed : BOOLEAN, steps : Nat, result : {"running", "ok", "err"}]
    <3>1. driver = [at |-> "b", progressed |-> FALSE, steps |-> 0, result |-> "running"]
      BY <1>1
    <3> QED BY <3>1 DEF Nodes
  <2>6. faults \in Nat /\ faults <= MaxFaults
    BY <1>1, SyncAssumption
  <2>7. hasty \in BOOLEAN
    BY <1>1
  <2> QED BY <2>1, <2>3, <2>4, <2>5, <2>6, <2>7 DEF SyncTypeOK
<1>7. Counted
  BY <1>1, <1>5 DEF Counted, Nodes, Peer
<1>8. FramesOK
  <2>1. DOMAIN stream["a"] = {} /\ DOMAIN stream["b"] = {1} /\ stream["b"][1] = frame
        /\ Len(sent["b"]) = 1 /\ sent["b"][1] = advertise
    BY <1>5 DEF Nodes
  <2> QED BY <1>4, <2>1 DEF FramesOK, Carries, Nodes
<1>9. DeliveredInOrder
  BY <1>1, <1>5, SubSeqEmpty DEF DeliveredInOrder, Nodes
<1> QED BY <1>6, <1>7, <1>8, <1>9 DEF DeliveryInv

\* The driver's next state.
LEMMA PolledOK ==
  ASSUME SyncTypeOK, NEW n \in Nodes, NEW came \in BOOLEAN
  PROVE  /\ Polled(n, came) \in
              [at : Nodes, progressed : BOOLEAN, steps : Nat, result : {"running", "ok", "err"}]
         /\ n = "b" => /\ Polled(n, came).at = "a" /\ Polled(n, came).progressed = came
                       /\ Polled(n, came).result = driver.result
         /\ n = "a" => /\ Polled(n, came).at = "b"
                       /\ Polled(n, came).result = "ok" => ~came /\ ~driver.progressed
<1>1. /\ driver \in [at : Nodes, progressed : BOOLEAN, steps : Nat, result : {"running", "ok", "err"}]
      /\ driver.steps + 1 \in Nat /\ driver.progressed \in BOOLEAN
  BY DEF SyncTypeOK
<1>2. CASE n = "b"
  <2>1. Polled(n, came) = [driver EXCEPT !.at = "a", !.progressed = came]
    BY <1>2 DEF Polled
  <2> QED BY <1>1, <1>2, <2>1, TwoNodes
<1>3. CASE n = "a"
  <2>1. PICK word \in {"ok", "err", "running"} :
          /\ Polled(n, came) = [driver EXCEPT !.at = "b", !.progressed = FALSE, !.steps = @ + 1, !.result = word]
          /\ word = "ok" => ~(driver.progressed \/ came)
    BY <1>3 DEF Polled
  <2> QED BY <1>1, <1>3, <2>1, TwoNodes
<1> QED BY <1>2, <1>3 DEF Nodes

\* Whatever else changes, the frames on their way to a node are among those
\* that were, perhaps marked as no longer genuine.
SameFrames(old, new) ==
  /\ new \in Seq(FrameRecords)
  /\ \A i \in DOMAIN new : \E j \in DOMAIN old : new[i].seq = old[j].seq /\ new[i].msg = old[j].msg

\* A step that loses, repeats, swaps or spoils frames and handles none.
LEMMA NoDelivery ==
  ASSUME DeliveryInv, UNCHANGED <<held, tx_seq, expected_rx_seq, sent, got>>,
         stream' \in [Nodes -> Seq(FrameRecords)],
         \A n \in Nodes : SameFrames(stream[n], stream'[n]),
         driver' \in [at : Nodes, progressed : BOOLEAN, steps : Nat, result : {"running", "ok", "err"}],
         faults' \in Nat, faults' <= MaxFaults, hasty' \in BOOLEAN
  PROVE  DeliveryInv'
<1>1. SyncTypeOK'
  BY DEF DeliveryInv, SyncTypeOK
<1>2. Counted' /\ DeliveredInOrder'
  BY DEF DeliveryInv, Counted, DeliveredInOrder
<1>3. FramesOK'
  BY DEF DeliveryInv, FramesOK, SameFrames, Carries
<1> QED BY <1>1, <1>2, <1>3 DEF DeliveryInv

\* Spoiling the first frame.
LEMMA ForgedHead ==
  ASSUME NEW s \in Seq(FrameRecords), s # <<>>
  PROVE  SameFrames(s, <<[Head(s) EXCEPT !.forged = TRUE]>> \o Tail(s))
<1> DEFINE f == [Head(s) EXCEPT !.forged = TRUE]
<1>1. /\ Head(s) \in FrameRecords /\ Tail(s) \in Seq(FrameRecords) /\ Len(Tail(s)) = Len(s) - 1
      /\ \A i \in 1 .. Len(Tail(s)) : Tail(s)[i] = s[i + 1]
      /\ Len(s) \in Nat \ {0} /\ DOMAIN s = 1 .. Len(s) /\ Head(s) = s[1]
  BY HeadTailProperties, EmptySeq
<1>2. f \in FrameRecords /\ f.seq = s[1].seq /\ f.msg = s[1].msg
  BY <1>1 DEF FrameRecords
<1> HIDE DEF f
<1>3. <<f>> \in Seq(FrameRecords) /\ Len(<<f>>) = 1 /\ <<f>>[1] = f
  BY <1>2
<1>4. /\ <<f>> \o Tail(s) \in Seq(FrameRecords) /\ Len(<<f>> \o Tail(s)) = Len(s)
      /\ \A i \in 1 .. Len(s) : (<<f>> \o Tail(s))[i] = IF i <= 1 THEN <<f>>[i] ELSE Tail(s)[i - 1]
  BY <1>1, <1>3, ConcatProperties
<1>5. \A i \in 1 .. Len(s) : /\ (<<f>> \o Tail(s))[i].seq = s[i].seq
                             /\ (<<f>> \o Tail(s))[i].msg = s[i].msg
  BY <1>1, <1>2, <1>3, <1>4
<1>6. DOMAIN (<<f>> \o Tail(s)) = 1 .. Len(s)
  BY <1>4
<1>7. SameFrames(s, <<f>> \o Tail(s))
  BY <1>1, <1>4, <1>5, <1>6 DEF SameFrames
<1> QED BY <1>7 DEF f

\* Losing, repeating and swapping them.
LEMMA OtherFaults ==
  ASSUME NEW s \in Seq(FrameRecords), s # <<>>
  PROVE  /\ SameFrames(s, s) /\ SameFrames(s, Tail(s)) /\ SameFrames(s, <<Head(s)>> \o s)
         /\ Len(s) > 1 => SameFrames(s, <<s[2], s[1]>> \o SubSeq(s, 3, Len(s)))
<1>1. /\ Head(s) \in FrameRecords /\ Tail(s) \in Seq(FrameRecords) /\ Len(Tail(s)) = Len(s) - 1
      /\ \A i \in 1 .. Len(Tail(s)) : Tail(s)[i] = s[i + 1]
      /\ Len(s) \in Nat \ {0} /\ DOMAIN s = 1 .. Len(s) /\ Head(s) = s[1]
      /\ \A i \in 1 .. Len(s) : s[i] \in FrameRecords
  BY HeadTailProperties, EmptySeq
<1>2. ASSUME NEW new \in Seq(FrameRecords),
             \A i \in 1 .. Len(new) : \E j \in 1 .. Len(s) : new[i] = s[j]
      PROVE  SameFrames(s, new)
  BY <1>1, <1>2 DEF SameFrames
<1>3. SameFrames(s, s)
  BY <1>2
<1>4. SameFrames(s, Tail(s))
  <2>1. \A i \in 1 .. Len(Tail(s)) : i + 1 \in 1 .. Len(s) /\ Tail(s)[i] = s[i + 1]
    BY <1>1
  <2> QED BY <1>1, <1>2, <2>1
<1>5. SameFrames(s, <<Head(s)>> \o s)
  <2>1. <<Head(s)>> \in Seq(FrameRecords) /\ Len(<<Head(s)>>) = 1 /\ <<Head(s)>>[1] = s[1]
    BY <1>1
  <2>2. /\ <<Head(s)>> \o s \in Seq(FrameRecords) /\ Len(<<Head(s)>> \o s) = 1 + Len(s)
        /\ \A i \in 1 .. 1 + Len(s) : (<<Head(s)>> \o s)[i] = IF i <= 1 THEN <<Head(s)>>[i] ELSE s[i - 1]
    BY <2>1, ConcatProperties
  <2>3. \A i \in 1 .. 1 + Len(s) : \E j \in 1 .. Len(s) : (<<Head(s)>> \o s)[i] = s[j]
    <3> SUFFICES ASSUME NEW i \in 1 .. 1 + Len(s)
                 PROVE  \E j \in 1 .. Len(s) : (<<Head(s)>> \o s)[i] = s[j]
      OBVIOUS
    <3>1. CASE i = 1
      BY <1>1, <2>1, <2>2, <3>1
    <3>2. CASE i # 1
      BY <1>1, <2>2, <3>2
    <3> QED BY <3>1, <3>2
  <2> QED BY <1>2, <2>2, <2>3
<1>6. ASSUME Len(s) > 1
      PROVE  SameFrames(s, <<s[2], s[1]>> \o SubSeq(s, 3, Len(s)))
  <2> DEFINE p == <<s[2], s[1]>>
             q == SubSeq(s, 3, Len(s))
  <2>1. p \in Seq(FrameRecords) /\ Len(p) = 2 /\ p[1] = s[2] /\ p[2] = s[1]
    BY <1>1, <1>6
  <2>2. q \in Seq(FrameRecords) /\ Len(q) = Len(s) - 2 /\ \A i \in 1 .. Len(s) - 2 : q[i] = s[i + 2]
    <3>1. \A i \in 3 .. Len(s) : s[i] \in FrameRecords
      BY <1>1
    <3>2. /\ q \in Seq(FrameRecords) /\ Len(q) = IF 3 <= Len(s) THEN Len(s) - 3 + 1 ELSE 0
          /\ \A i \in 1 .. Len(s) - 3 + 1 : q[i] = s[3 + i - 1]
      BY <1>1, <3>1, SubSeqProperties
    <3> QED BY <1>1, <1>6, <3>2
  <2> HIDE DEF p, q
  <2>3. /\ p \o q \in Seq(FrameRecords) /\ Len(p \o q) = Len(s)
        /\ \A i \in 1 .. Len(s) : (p \o q)[i] = IF i <= 2 THEN p[i] ELSE q[i - 2]
    <3>1. /\ p \o q \in Seq(FrameRecords) /\ Len(p \o q) = Len(p) + Len(q)
          /\ \A i \in 1 .. Len(p) + Len(q) : (p \o q)[i] = IF i <= Len(p) THEN p[i] ELSE q[i - Len(p)]
      <4>1. p \in Seq(FrameRecords) /\ q \in Seq(FrameRecords)
        BY <2>1, <2>2
      <4> QED BY <4>1, ConcatProperties
    <3>2. Len(p) + Len(q) = Len(s)
      BY <1>1, <2>1, <2>2
    <3> QED BY <2>1, <3>1, <3>2
  <2>4. \A i \in 1 .. Len(s) : \E j \in 1 .. Len(s) : (p \o q)[i] = s[j]
    <3> SUFFICES ASSUME NEW i \in 1 .. Len(s)
                 PROVE  \E j \in 1 .. Len(s) : (p \o q)[i] = s[j]
      OBVIOUS
    <3>1. CASE i = 1
      BY <1>1, <1>6, <2>1, <2>3, <3>1
    <3>2. CASE i = 2
      BY <1>1, <1>6, <2>1, <2>3, <3>2
    <3>3. CASE i > 2
      BY <1>1, <1>6, <2>2, <2>3, <3>3
    <3>4. i = 1 \/ i = 2 \/ i > 2
      BY <1>1
    <3> QED BY <3>1, <3>2, <3>3, <3>4
  <2>5. SameFrames(s, p \o q)
    BY <1>2, <2>3, <2>4
  <2> QED BY <2>5 DEF p, q
<1> QED BY <1>3, <1>4, <1>5, <1>6

LEMMA SameItself == ASSUME NEW s \in Seq(FrameRecords) PROVE SameFrames(s, s)
BY DEF SameFrames

\* One end's stream changes, the other's does not.
LEMMA OneStream ==
  ASSUME SyncTypeOK, NEW n \in Nodes, NEW new, SameFrames(stream[n], new),
         stream' = [stream EXCEPT ![n] = new]
  PROVE  /\ stream' \in [Nodes -> Seq(FrameRecords)]
         /\ \A m \in Nodes : SameFrames(stream[m], stream'[m])
<1>1. stream \in [Nodes -> Seq(FrameRecords)] /\ new \in Seq(FrameRecords)
  BY DEF SyncTypeOK, SameFrames
<1>2. \A m \in Nodes : stream'[m] = IF m = n THEN new ELSE stream[m]
  BY <1>1
<1> QED BY <1>1, <1>2, SameItself

\* Idle polls, torn reads and the network.
LEMMA QuietSteps ==
  ASSUME DeliveryInv, NEW n \in Nodes, NothingReady(n) \/ TornRead(n) \/ Fault(n)
  PROVE  DeliveryInv'
<1>0. SyncTypeOK /\ stream[n] \in Seq(FrameRecords) /\ \A m \in Nodes : stream[m] \in Seq(FrameRecords)
  BY DEF DeliveryInv, SyncTypeOK
<1>1. CASE NothingReady(n)
  <2>1. \A m \in Nodes : SameFrames(stream[m], stream'[m])
    BY <1>0, <1>1, SameItself DEF NothingReady
  <2>2. /\ stream' \in [Nodes -> Seq(FrameRecords)] /\ faults' \in Nat /\ faults' <= MaxFaults
        /\ hasty' \in BOOLEAN /\ UNCHANGED <<held, tx_seq, expected_rx_seq, sent, got>>
    BY <1>0, <1>1 DEF NothingReady, SyncTypeOK
  <2>3. driver' \in [at : Nodes, progressed : BOOLEAN, steps : Nat, result : {"running", "ok", "err"}]
    BY <1>0, <1>1, PolledOK DEF NothingReady
  <2> QED BY <2>1, <2>2, <2>3, NoDelivery
<1>2. CASE TornRead(n)
  <2>1. /\ stream' \in [Nodes -> Seq(FrameRecords)]
        /\ \A m \in Nodes : SameFrames(stream[m], stream'[m])
    BY <1>0, <1>2, ForgedHead, OneStream DEF TornRead
  <2>2. /\ faults' \in Nat /\ faults' <= MaxFaults
        /\ hasty' \in BOOLEAN /\ UNCHANGED <<held, tx_seq, expected_rx_seq, sent, got>>
    BY <1>0, <1>2 DEF TornRead, SyncTypeOK
  <2>3. driver' \in [at : Nodes, progressed : BOOLEAN, steps : Nat, result : {"running", "ok", "err"}]
    BY <1>0, <1>2, PolledOK DEF TornRead
  <2> QED BY <2>1, <2>2, <2>3, NoDelivery
<1>3. CASE Fault(n)
  <2>1. PICK new : SameFrames(stream[n], new) /\ stream' = [stream EXCEPT ![n] = new]
    BY <1>0, <1>3, ForgedHead, OtherFaults DEF Fault
  <2>2. /\ stream' \in [Nodes -> Seq(FrameRecords)]
        /\ \A m \in Nodes : SameFrames(stream[m], stream'[m])
    BY <1>0, <2>1, OneStream
  <2>3. /\ faults' \in Nat /\ faults' <= MaxFaults
        /\ hasty' \in BOOLEAN /\ UNCHANGED <<held, tx_seq, expected_rx_seq, sent, got, driver>>
    <3>1. faults \in Nat /\ faults <= MaxFaults /\ hasty \in BOOLEAN
      BY <1>0 DEF SyncTypeOK
    <3>2. /\ faults > 0 /\ faults' = faults - 1
          /\ UNCHANGED <<held, tx_seq, expected_rx_seq, driver, sent, got, hasty>>
      BY <1>3, Zenon DEF Fault
    <3>3. faults' \in Nat /\ faults' <= MaxFaults
      BY <3>1, <3>2, SyncAssumption
    <3> QED BY <3>1, <3>2, <3>3
  <2>4. driver' \in [at : Nodes, progressed : BOOLEAN, steps : Nat, result : {"running", "ok", "err"}]
    BY <1>0, <2>3 DEF SyncTypeOK
  <2> QED BY <2>2, <2>3, <2>4, NoDelivery
<1> QED BY <1>1, <1>2, <1>3

\* DeliveredInOrder, message by message.
FirstOf(short, long) == Len(short) <= Len(long) /\ \A i \in 1 .. Len(short) : short[i] = long[i]

FirstHandled == \A n \in Nodes : FirstOf(got[n], sent[n])

LEMMA InOrderIsFirst == SyncTypeOK => (DeliveredInOrder <=> FirstHandled)
<1> SUFFICES ASSUME SyncTypeOK, NEW n \in Nodes
             PROVE  (Len(got[n]) <= Len(sent[n]) /\ got[n] = SubSeq(sent[n], 1, Len(got[n])))
                    <=> FirstOf(got[n], sent[n])
  BY DEF DeliveredInOrder, FirstHandled
<1>1. got[n] \in Seq(Messages) /\ sent[n] \in Seq(Messages) /\ Len(got[n]) \in Nat /\ Len(sent[n]) \in Nat
  BY DEF SyncTypeOK
<1> DEFINE first == SubSeq(sent[n], 1, Len(got[n]))
<1>2. ASSUME Len(got[n]) <= Len(sent[n])
      PROVE  /\ first \in Seq(Messages) /\ Len(first) = Len(got[n])
             /\ \A i \in 1 .. Len(got[n]) : first[i] = sent[n][i]
  <2>1. \A i \in 1 .. Len(got[n]) : sent[n][i] \in Messages
    BY <1>1, <1>2
  <2>2. /\ first \in Seq(Messages) /\ Len(first) = IF 1 <= Len(got[n]) THEN Len(got[n]) - 1 + 1 ELSE 0
        /\ \A i \in 1 .. Len(got[n]) - 1 + 1 : first[i] = sent[n][1 + i - 1]
    BY <1>1, <2>1, SubSeqProperties
  <2> QED BY <1>1, <2>2
<1> HIDE DEF first
<1>3. (Len(got[n]) <= Len(sent[n]) /\ got[n] = first) <=> FirstOf(got[n], sent[n])
  BY <1>1, <1>2, SeqEqual DEF FirstOf
<1> QED BY <1>3 DEF first

\* What a delivery does to the two streams.
LEMMA Delivered ==
  ASSUME DeliveryInv, NEW n \in Nodes, Receive(n), ~Head(stream[n]).forged,
         InOrder(n, Head(stream[n]))
  PROVE  LET m == Head(stream[n]).msg
             msgs == Answers(n, m)
         IN  /\ m \in Messages /\ msgs \in Seq(Messages) /\ stream[n] # <<>>
             /\ stream' \in [Nodes -> Seq(FrameRecords)]
             /\ stream'[n] = Tail(stream[n])
             /\ stream'[Peer(n)] = stream[Peer(n)] \o Frames(n, msgs)
             /\ sent' = [sent EXCEPT ![Peer(n)] = @ \o msgs]
             /\ tx_seq' = [tx_seq EXCEPT ![n] = @ + Len(msgs)]
             /\ got' = [got EXCEPT ![n] = Append(@, m)]
             /\ expected_rx_seq' = [expected_rx_seq EXCEPT ![n] = Head(stream[n]).seq + 1]
             /\ held' = [held EXCEPT ![n] = StoreAfter(n, m)]
             /\ driver' = Polled(n, TRUE)
             /\ UNCHANGED <<faults, hasty>>
<1> DEFINE m == Head(stream[n]).msg
           msgs == Answers(n, m)
<1>1. SyncTypeOK /\ stream[n] # <<>> /\ stream \in [Nodes -> Seq(FrameRecords)]
  BY DEF DeliveryInv, Receive, SyncTypeOK
<1>2. Head(stream[n]) \in FrameRecords /\ Tail(stream[n]) \in Seq(FrameRecords)
  BY <1>1, HeadTailProperties
<1>3. m \in Messages
  BY <1>2 DEF FrameRecords
<1>4. msgs \in Seq(Messages)
  BY <1>1, <1>3, AnswersOK
<1>5. /\ stream' = [stream EXCEPT ![Peer(n)] = @ \o Frames(n, msgs), ![n] = Tail(stream[n])]
      /\ sent' = [sent EXCEPT ![Peer(n)] = @ \o msgs]
      /\ tx_seq' = [tx_seq EXCEPT ![n] = @ + Len(msgs)]
      /\ got' = [got EXCEPT ![n] = Append(@, m)]
      /\ expected_rx_seq' = [expected_rx_seq EXCEPT ![n] = Head(stream[n]).seq + 1]
      /\ held' = [held EXCEPT ![n] = StoreAfter(n, m)]
      /\ driver' = Polled(n, TRUE)
      /\ UNCHANGED <<faults, hasty>>
  BY DEF Receive, Send
<1> HIDE DEF m, msgs
<1>6. Frames(n, msgs) \in Seq(FrameRecords)
  BY <1>1, <1>4, FramesOfMessages
<1>7. stream[Peer(n)] \o Frames(n, msgs) \in Seq(FrameRecords)
  BY <1>1, <1>6, TwoNodes, ConcatProperties
<1>8. /\ stream' \in [Nodes -> Seq(FrameRecords)] /\ stream'[n] = Tail(stream[n])
      /\ stream'[Peer(n)] = stream[Peer(n)] \o Frames(n, msgs)
  BY <1>1, <1>2, <1>5, <1>7, TwoNodes
<1> QED BY <1>1, <1>3, <1>4, <1>5, <1>8 DEF m, msgs

\* What is appended to a sequence follows its last element.
LEMMA AfterFirst ==
  ASSUME NEW S, NEW p \in Seq(S), NEW q \in Seq(S), NEW x \in 1 .. Len(q)
  PROVE  (p \o q)[Len(p) + x] = q[x] /\ Len(p) + x - 1 + 1 = Len(p) + x
<1>1. Len(p) \in Nat /\ Len(q) \in Nat /\ x \in Nat /\ x > 0
  OBVIOUS
<1>2. Len(p) + x \in 1 .. Len(p) + Len(q) /\ Len(p) + x > Len(p) /\ Len(p) + x - Len(p) = x
  BY <1>1
<1>3. (p \o q)[Len(p) + x] = q[Len(p) + x - Len(p)]
  BY <1>1, <1>2
<1> QED BY <1>1, <1>2, <1>3

\* A delivery: the frame's number makes its message the next one.
LEMMA ReceiveStep ==
  ASSUME DeliveryInv, NEW n \in Nodes, Receive(n)
  PROVE  DeliveryInv'
<1>0. SyncTypeOK
  BY DEF DeliveryInv
<1>1. CASE Head(stream[n]).forged \/ ~InOrder(n, Head(stream[n]))
  <2>1. /\ driver' = [driver EXCEPT !.result = "err"]
        /\ UNCHANGED <<held, stream, tx_seq, expected_rx_seq, sent, got, faults, hasty>>
    BY <1>1 DEF Receive
  <2>2. driver' \in [at : Nodes, progressed : BOOLEAN, steps : Nat, result : {"running", "ok", "err"}]
    BY <1>0, <2>1 DEF SyncTypeOK
  <2>3. stream' \in [Nodes -> Seq(FrameRecords)] /\ \A k \in Nodes : SameFrames(stream[k], stream'[k])
    BY <1>0, <2>1, SameItself DEF SyncTypeOK
  <2>4. faults' \in Nat /\ faults' <= MaxFaults /\ hasty' \in BOOLEAN
    BY <1>0, <2>1 DEF SyncTypeOK
  <2> QED BY <2>1, <2>2, <2>3, <2>4, NoDelivery
<1>2. CASE ~Head(stream[n]).forged /\ InOrder(n, Head(stream[n]))
  <2> DEFINE m == Head(stream[n]).msg
             msgs == Answers(n, m)
             P == Peer(n)
             f == Head(stream[n])
  <2>1. /\ m \in Messages /\ msgs \in Seq(Messages) /\ stream[n] # <<>>
        /\ stream' \in [Nodes -> Seq(FrameRecords)]
        /\ stream'[n] = Tail(stream[n])
        /\ stream'[P] = stream[P] \o Frames(n, msgs)
        /\ sent' = [sent EXCEPT ![P] = @ \o msgs]
        /\ tx_seq' = [tx_seq EXCEPT ![n] = @ + Len(msgs)]
        /\ got' = [got EXCEPT ![n] = Append(@, m)]
        /\ expected_rx_seq' = [expected_rx_seq EXCEPT ![n] = f.seq + 1]
        /\ held' = [held EXCEPT ![n] = StoreAfter(n, m)]
        /\ driver' = Polled(n, TRUE)
        /\ UNCHANGED <<faults, hasty>>
    BY <1>2, Delivered
  <2>2. /\ stream[n] \in Seq(FrameRecords) /\ stream[P] \in Seq(FrameRecords)
        /\ sent[n] \in Seq(Messages) /\ sent[P] \in Seq(Messages)
        /\ got[n] \in Seq(Messages) /\ got[P] \in Seq(Messages)
        /\ tx_seq[n] = Len(sent[P]) /\ tx_seq[P] = Len(sent[n])
        /\ expected_rx_seq[n] = Len(got[n]) /\ expected_rx_seq[P] = Len(got[P])
        /\ P \in Nodes /\ P # n /\ \A k \in Nodes : k = n \/ k = P
    BY TwoNodes DEF DeliveryInv, SyncTypeOK, Counted
  <2>3. /\ Carries(f, sent[n]) /\ f.seq = Len(got[n]) /\ f = stream[n][1]
        /\ Len(got[n]) \in Nat /\ Len(sent[n]) \in Nat
    <3>1. f = stream[n][1] /\ 1 \in DOMAIN stream[n]
      BY <2>1, <2>2, EmptySeq
    <3> QED BY <1>2, <2>2, <3>1 DEF DeliveryInv, FramesOK, InOrder
  <2>4. /\ sent[P] \o msgs \in Seq(Messages) /\ Len(sent[P] \o msgs) = Len(sent[P]) + Len(msgs)
        /\ \A i \in 1 .. Len(sent[P]) + Len(msgs) :
             (sent[P] \o msgs)[i] = IF i <= Len(sent[P]) THEN sent[P][i] ELSE msgs[i - Len(sent[P])]
        /\ Len(msgs) \in Nat /\ Len(sent[P]) \in Nat
    <3>1. msgs \in Seq(Messages) /\ sent[P] \in Seq(Messages)
      BY <2>1, <2>2
    <3>2. Len(msgs) \in Nat /\ Len(sent[P]) \in Nat
      BY <3>1
    <3> HIDE DEF msgs, P
    <3> QED BY <3>1, <3>2, ConcatProperties
  <2>5. /\ sent' \in [Nodes -> Seq(Messages)]
        /\ sent'[P] = sent[P] \o msgs /\ sent'[n] = sent[n]
    BY <1>0, <2>1, <2>2, <2>4 DEF SyncTypeOK
  <2>6. /\ got' \in [Nodes -> Seq(Messages)] /\ Len(got'[n]) = Len(got[n]) + 1 /\ got'[P] = got[P]
        /\ \A i \in 1 .. Len(got[n]) : got'[n][i] = got[n][i]
        /\ got'[n][Len(got[n]) + 1] = m
    <3>1. /\ Append(got[n], m) \in Seq(Messages) /\ Len(Append(got[n], m)) = Len(got[n]) + 1
          /\ \A i \in 1 .. Len(got[n]) : Append(got[n], m)[i] = got[n][i]
          /\ Append(got[n], m)[Len(got[n]) + 1] = m
      BY <2>1, <2>2, AppendProperties
    <3>2. got' \in [Nodes -> Seq(Messages)] /\ got'[n] = Append(got[n], m) /\ got'[P] = got[P]
      BY <1>0, <2>1, <2>2, <3>1 DEF SyncTypeOK
    <3> QED BY <3>1, <3>2
  <2>7. /\ tx_seq' \in [Nodes -> Nat] /\ expected_rx_seq' \in [Nodes -> Nat]
        /\ tx_seq'[n] = Len(sent[P]) + Len(msgs) /\ tx_seq'[P] = Len(sent[n])
        /\ expected_rx_seq'[n] = Len(got[n]) + 1 /\ expected_rx_seq'[P] = Len(got[P])
    <3> HIDE DEF m, msgs, P, f
    <3>1. /\ tx_seq \in [Nodes -> Nat] /\ tx_seq[n] + Len(msgs) \in Nat
          /\ expected_rx_seq \in [Nodes -> Nat] /\ f.seq + 1 = Len(got[n]) + 1 /\ f.seq + 1 \in Nat
      <4>1. tx_seq \in [Nodes -> Nat] /\ expected_rx_seq \in [Nodes -> Nat] /\ tx_seq[n] \in Nat
        BY <1>0 DEF SyncTypeOK
      <4>2. tx_seq[n] + Len(msgs) \in Nat
        BY <2>4, <4>1
      <4>3. f.seq + 1 = Len(got[n]) + 1 /\ Len(got[n]) + 1 \in Nat
        BY <2>3
      <4> QED BY <4>1, <4>2, <4>3
    <3>2. tx_seq' \in [Nodes -> Nat] /\ tx_seq'[n] = tx_seq[n] + Len(msgs) /\ tx_seq'[P] = tx_seq[P]
      BY <2>1, <2>2, <3>1
    <3>3. /\ expected_rx_seq' \in [Nodes -> Nat] /\ expected_rx_seq'[n] = f.seq + 1
          /\ expected_rx_seq'[P] = expected_rx_seq[P]
      BY <2>1, <2>2, <3>1
    <3> QED BY <2>2, <3>1, <3>2, <3>3
  <2> HIDE DEF m, msgs, P, f
  <2>8. SyncTypeOK'
    <3>1. held' = [k \in Nodes |-> held'[k]] /\ \A k \in Nodes : StoreOK(held'[k])
      BY <1>0, <2>1, StoreAfterOK DEF SyncTypeOK
    <3>2. driver' \in [at : Nodes, progressed : BOOLEAN, steps : Nat, result : {"running", "ok", "err"}]
      BY <1>0, <2>1, PolledOK
    <3>3. faults' \in Nat /\ faults' <= MaxFaults /\ hasty' \in BOOLEAN
      BY <1>0, <2>1 DEF SyncTypeOK
    <3> QED BY <2>1, <2>5, <2>6, <2>7, <3>1, <3>2, <3>3 DEF SyncTypeOK
  <2>9. Counted'
    BY <2>2, <2>4, <2>5, <2>6, <2>7, TwoNodes DEF Counted, P
  <2>10. FirstHandled'
    <3>1. FirstOf(got[n], sent[n]) /\ FirstOf(got[P], sent[P])
      BY <1>0, <2>2, InOrderIsFirst DEF DeliveryInv, FirstHandled
    <3>2. FirstOf(got'[n], sent'[n])
      <4>1. Len(got[n]) < Len(sent[n]) /\ m = sent[n][Len(got[n]) + 1]
        BY <2>3 DEF Carries, m, f
      <4>2. \A i \in 1 .. Len(got[n]) + 1 : got'[n][i] = sent[n][i]
        <5> SUFFICES ASSUME NEW i \in 1 .. Len(got[n]) + 1 PROVE got'[n][i] = sent[n][i]
          OBVIOUS
        <5>1. CASE i = Len(got[n]) + 1
          BY <2>6, <4>1, <5>1
        <5>2. CASE i # Len(got[n]) + 1
          <6>1. i \in 1 .. Len(got[n])
            BY <2>3, <5>2
          <6> QED BY <2>6, <3>1, <6>1 DEF FirstOf
        <5> QED BY <5>1, <5>2
      <4>3. Len(got[n]) + 1 <= Len(sent[n])
        BY <2>3, <4>1
      <4> QED BY <2>5, <2>6, <4>2, <4>3 DEF FirstOf
    <3>3. FirstOf(got'[P], sent'[P])
      BY <2>2, <2>4, <2>5, <2>6, <3>1 DEF FirstOf
    <3> QED BY <2>2, <3>2, <3>3 DEF FirstHandled
  <2>11. DeliveredInOrder'
    BY <2>8, <2>10, InOrderIsFirst, PTL
  <2>12. \A i \in DOMAIN stream'[n] : Carries(stream'[n][i], sent'[n])
    <3>1. \A i \in DOMAIN stream'[n] : i + 1 \in DOMAIN stream[n] /\ stream'[n][i] = stream[n][i + 1]
      BY <2>1, <2>2, HeadTailProperties, EmptySeq
    <3> QED BY <2>5, <3>1 DEF DeliveryInv, FramesOK
  <2>13. \A i \in DOMAIN stream'[P] : Carries(stream'[P][i], sent'[P])
    <3>1. /\ Frames(n, msgs) \in Seq(FrameRecords) /\ Len(Frames(n, msgs)) = Len(msgs)
          /\ \A x \in 1 .. Len(msgs) : /\ Frames(n, msgs)[x].seq = Len(sent[P]) + x - 1
                                       /\ Frames(n, msgs)[x].msg = msgs[x]
      BY <1>0, <2>1, <2>2, FramesOfMessages
    <3> DEFINE old == stream[P]
               new == Frames(n, msgs)
    <3> HIDE DEF old, new
    <3>2. /\ Len(old \o new) = Len(old) + Len(msgs) /\ Len(old) \in Nat /\ old \o new \in Seq(FrameRecords)
          /\ \A i \in 1 .. Len(old) + Len(msgs) :
               (old \o new)[i] = IF i <= Len(old) THEN old[i] ELSE new[i - Len(old)]
      <4>1. old \in Seq(FrameRecords) /\ new \in Seq(FrameRecords) /\ Len(new) = Len(msgs)
        BY <2>2, <3>1 DEF old, new
      <4>2. Len(old) \in Nat
        BY <4>1
      <4>3. /\ Len(old \o new) = Len(old) + Len(new) /\ old \o new \in Seq(FrameRecords)
            /\ \A i \in 1 .. Len(old) + Len(new) :
                 (old \o new)[i] = IF i <= Len(old) THEN old[i] ELSE new[i - Len(old)]
        BY <4>1, ConcatProperties
      <4> QED BY <4>1, <4>2, <4>3
    <3>3. stream'[P] = old \o new /\ DOMAIN stream'[P] = 1 .. Len(old) + Len(msgs)
      BY <2>1, <2>4, <3>2 DEF old, new
    <3> SUFFICES ASSUME NEW i \in 1 .. Len(old) + Len(msgs)
                 PROVE  Carries(stream'[P][i], sent'[P])
      BY <3>3
    <3>4. CASE i <= Len(old)
      <4>0. i \in 1 .. Len(old) /\ old \in Seq(FrameRecords) /\ i \in DOMAIN old
        BY <2>2, <2>4, <3>2, <3>4 DEF old
      <4>1. Carries(old[i], sent[P]) /\ stream'[P][i] = old[i] /\ old[i].seq \in Nat
        <5>1. old[i] \in FrameRecords
          BY <4>0
        <5>2. stream'[P][i] = old[i]
          BY <2>4, <3>2, <3>3, <3>4
        <5>3. Carries(old[i], sent[P])
          BY <2>2, <4>0 DEF DeliveryInv, FramesOK, old
        <5> QED BY <5>1, <5>2, <5>3 DEF FrameRecords
      <4> QED BY <2>4, <2>5, <4>1, SMTT(30) DEF Carries
    <3>5. CASE i > Len(old)
      <4> DEFINE x == i - Len(old)
      <4>1. x \in 1 .. Len(msgs) /\ stream'[P][i] = new[x]
        BY <2>4, <3>2, <3>3, <3>5
      <4>2. new[x].seq = Len(sent[P]) + x - 1 /\ new[x].msg = msgs[x]
        BY <3>1, <4>1 DEF new
      <4> HIDE DEF x
      <4>3. (sent[P] \o msgs)[Len(sent[P]) + x] = msgs[x] /\ Len(sent[P]) + x - 1 + 1 = Len(sent[P]) + x
        <5>1. sent[P] \in Seq(Messages) /\ msgs \in Seq(Messages)
          BY <2>4
        <5>2. x \in 1 .. Len(msgs)
          BY <4>1
        <5> QED BY ONLY <5>1, <5>2, AfterFirst
      <4> QED BY <2>4, <2>5, <4>1, <4>2, <4>3, SMTT(30) DEF Carries
    <3> QED BY <2>4, <3>2, <3>4, <3>5
  <2>14. FramesOK'
    BY <2>2, <2>12, <2>13 DEF FramesOK
  <2> QED BY <2>8, <2>9, <2>11, <2>14 DEF DeliveryInv
<1> QED BY <1>1, <1>2

LEMMA DeliveryNext == DeliveryInv /\ [SyncNext]_syncVars => DeliveryInv'
<1> SUFFICES ASSUME DeliveryInv, [SyncNext]_syncVars PROVE DeliveryInv'
  OBVIOUS
<1>1. CASE UNCHANGED syncVars
  BY <1>1 DEF syncVars, DeliveryInv, SyncTypeOK, Counted, FramesOK, DeliveredInOrder
<1>2. CASE SyncNext
  BY <1>2, ReceiveStep, QuietSteps DEF SyncNext
<1> QED BY <1>1, <1>2

\* For any snapshots and any number of steps and of frames lost, repeated,
\* swapped, spoiled or torn: a node handles the first messages its peer sent,
\* in that order, each once.
THEOREM AlwaysDeliveredInOrder == SyncSpec => []DeliveredInOrder
<1>1. DeliveryInv => DeliveredInOrder
  BY DEF DeliveryInv
<1> QED BY <1>1, DeliveryInit, DeliveryNext, PTL DEF SyncSpec

-----------------------------------------------------------------------------
\* The messages on their way to a node.
OnWay(n) == {stream[n][i].msg : i \in DOMAIN stream[n]}

\* b advertises nothing, so only b asks and only a answers with snapshots,
\* which come from its store.
RolesOK ==
  /\ \A m \in OnWay("a") : m.kind \in {"want", "ack", "nack"}
  /\ \A m \in OnWay("b") : m.kind # "want" /\ (m.kind = "snapshot" => Verified(m))

\* A digest that is advertised, asked for or sent, and not yet handled.
Underway(d) ==
  \/ \E m \in OnWay("b") : \/ m.kind = "advertise" /\ d \in m.digests
                           \/ m.kind = "snapshot" /\ m.digest = d
  \/ \E m \in OnWay("a") : m.kind = "want" /\ d \in m.digests

\* Nothing was lost, given up on or refused so far.
Calm == ~hasty /\ faults = MaxFaults /\ driver.result # "err"

NothingForgotten == Calm => \A d \in DOMAIN held["a"] : d \in DOMAIN held["b"] \/ Underway(d)

\* A poll of b that found nothing, and the end, mean that nothing is on its way.
PollsOK ==
  Calm => /\ driver.at = "a" /\ ~driver.progressed /\ driver.result = "running" => OnWay("b") = {}
          /\ driver.result = "ok" => OnWay("a") = {} /\ OnWay("b") = {}

ReplicaInv == DeliveryInv /\ RolesOK /\ NothingForgotten /\ PollsOK

LEMMA ReplicaInit == SyncInit => ReplicaInv
<1> SUFFICES ASSUME SyncInit PROVE ReplicaInv
  OBVIOUS
<1>1. DeliveryInv
  BY DeliveryInit
<1>2. PICK atA \in SUBSET Snapshots :
        LET advertise == [kind |-> "advertise", digests |-> DOMAIN Stocked(atA)]
        IN  /\ held["a"] = Stocked(atA)
            /\ stream["b"] = <<[seq |-> 0, msg |-> advertise, forged |-> FALSE]>> /\ stream["a"] = <<>>
            /\ driver = [at |-> "b", progressed |-> FALSE, steps |-> 0, result |-> "running"]
  BY DEF SyncInit, Nodes
<1> DEFINE advertise == [kind |-> "advertise", digests |-> DOMAIN Stocked(atA)]
           frame == [seq |-> 0, msg |-> advertise, forged |-> FALSE]
<1>3. /\ advertise.kind = "advertise" /\ advertise.digests = DOMAIN held["a"] /\ frame.msg = advertise
      /\ stream["b"] = <<frame>>
  BY <1>2
<1> HIDE DEF advertise, frame
<1>4. OnWay("a") = {} /\ OnWay("b") = {advertise}
  BY <1>2, <1>3 DEF OnWay
<1>5. RolesOK
  BY <1>3, <1>4 DEF RolesOK
<1>6. NothingForgotten
  BY <1>3, <1>4 DEF NothingForgotten, Underway
<1>7. PollsOK
  BY <1>2 DEF PollsOK
<1> QED BY <1>1, <1>5, <1>6, <1>7 DEF ReplicaInv

\* A step after which the run is not calm only has to keep the roles.
LEMMA NoLongerCalm ==
  ASSUME ReplicaInv, DeliveryInv', ~Calm', \A n \in Nodes : SameFrames(stream[n], stream'[n])
  PROVE  ReplicaInv'
<1>1. \A n \in Nodes : OnWay(n)' \subseteq OnWay(n)
  BY DEF OnWay, SameFrames
<1>2. RolesOK'
  BY <1>1, TwoNodes DEF ReplicaInv, RolesOK, Verified
<1> QED BY <1>2 DEF ReplicaInv, NothingForgotten, PollsOK

\* Torn reads and faults end the calm.
LEMMA FaultyStep ==
  ASSUME ReplicaInv, NEW n \in Nodes, TornRead(n) \/ Fault(n)
  PROVE  ReplicaInv'
<1>0. SyncTypeOK /\ stream[n] \in Seq(FrameRecords) /\ DeliveryInv
  BY DEF ReplicaInv, DeliveryInv, SyncTypeOK
<1>1. DeliveryInv'
  BY <1>0, QuietSteps
<1>2. ~Calm'
  <2>1. CASE TornRead(n)
    BY <2>1 DEF TornRead, Calm
  <2>2. CASE Fault(n)
    <3>1. faults' = faults - 1 /\ faults \in Nat /\ faults <= MaxFaults
      BY <1>0, <2>2 DEF Fault, SyncTypeOK
    <3>2. faults' # MaxFaults
      BY <3>1, SyncAssumption
    <3> QED BY <3>2 DEF Calm
  <2> QED BY <2>1, <2>2
<1>3. \A m \in Nodes : SameFrames(stream[m], stream'[m])
  <2>1. PICK new : SameFrames(stream[n], new) /\ stream' = [stream EXCEPT ![n] = new]
    BY <1>0, ForgedHead, OtherFaults DEF TornRead, Fault
  <2> QED BY <1>0, <2>1, OneStream
<1> QED BY <1>1, <1>2, <1>3, NoLongerCalm

\* A poll that finds nothing.
LEMMA IdlePoll ==
  ASSUME ReplicaInv, NEW n \in Nodes, NothingReady(n)
  PROVE  ReplicaInv'
<1>0. SyncTypeOK /\ DeliveryInv
  BY DEF ReplicaInv, DeliveryInv
<1>1. DeliveryInv'
  BY <1>0, QuietSteps
<1>2. UNCHANGED <<held, stream, faults>> /\ Polling(n) /\ driver' = Polled(n, FALSE)
  BY DEF NothingReady
<1>3. OnWay("a")' = OnWay("a") /\ OnWay("b")' = OnWay("b")
  BY <1>2 DEF OnWay
<1>4. RolesOK'
  BY <1>3 DEF ReplicaInv, RolesOK, Verified
<1>5. Calm' => Calm /\ OnWay(n) = {}
  <2> SUFFICES ASSUME Calm' PROVE Calm /\ OnWay(n) = {}
    OBVIOUS
  <2>1. ~hasty' /\ hasty' = (hasty \/ stream[n] # <<>>)
    BY DEF Calm, NothingReady
  <2>2. ~hasty /\ stream[n] = <<>>
    BY <2>1
  <2>3. Calm
    BY <1>2, <2>2 DEF Calm, Polling
  <2> QED BY <2>2, <2>3 DEF OnWay
<1>6. NothingForgotten'
  BY <1>2, <1>3, <1>5 DEF ReplicaInv, NothingForgotten, Underway
<1>7. PollsOK'
  <2>1. CASE n = "b"
    <3>1. driver'.result = "running"
      BY <1>0, <1>2, <2>1, PolledOK DEF Polling
    <3> QED BY <1>3, <1>5, <2>1, <3>1 DEF PollsOK
  <2>2. CASE n = "a"
    <3>1. driver'.at = "b" /\ (driver'.result = "ok" => ~driver.progressed)
      BY <1>0, <1>2, <2>2, PolledOK
    <3>2. driver.at = "a" /\ driver.result = "running"
      BY <1>2, <2>2 DEF Polling
    <3> QED BY <1>3, <1>5, <2>2, <3>1, <3>2, TwoNodes DEF ReplicaInv, PollsOK
  <2> QED BY <2>1, <2>2 DEF Nodes
<1> QED BY <1>1, <1>4, <1>6, <1>7 DEF ReplicaInv

\* What a delivery does to the messages on their way.
LEMMA Flow ==
  ASSUME DeliveryInv, NEW n \in Nodes, Receive(n), ~Head(stream[n]).forged,
         InOrder(n, Head(stream[n]))
  PROVE  LET m == Head(stream[n]).msg
             msgs == Answers(n, m)
         IN  /\ m \in OnWay(n) /\ OnWay(n)' \subseteq OnWay(n) /\ OnWay(n) \subseteq OnWay(n)' \cup {m}
             /\ OnWay(Peer(n))' = OnWay(Peer(n)) \cup {msgs[x] : x \in 1 .. Len(msgs)}
<1> DEFINE m == Head(stream[n]).msg
           msgs == Answers(n, m)
           old == stream[Peer(n)]
           new == Frames(n, msgs)
<1>0. SyncTypeOK /\ old \in Seq(FrameRecords) /\ stream[n] \in Seq(FrameRecords)
  BY TwoNodes DEF DeliveryInv, SyncTypeOK
<1>1. /\ msgs \in Seq(Messages) /\ stream[n] # <<>> /\ stream'[n] = Tail(stream[n])
      /\ stream'[Peer(n)] = old \o new
  BY Delivered
<1>2. /\ Len(stream[n]) \in Nat \ {0} /\ DOMAIN stream[n] = 1 .. Len(stream[n]) /\ Head(stream[n]) = stream[n][1]
      /\ DOMAIN stream'[n] = 1 .. Len(stream[n]) - 1
      /\ \A i \in 1 .. Len(stream[n]) - 1 : stream'[n][i] = stream[n][i + 1]
  BY <1>0, <1>1, HeadTailProperties, EmptySeq
<1>3. m \in OnWay(n)
  BY <1>2 DEF OnWay
<1>4. OnWay(n)' \subseteq OnWay(n)
  BY <1>2, SMTT(30) DEF OnWay
<1>5. OnWay(n) \subseteq OnWay(n)' \cup {m}
  <2> SUFFICES ASSUME NEW i \in 1 .. Len(stream[n]), i # 1
               PROVE  stream[n][i].msg \in OnWay(n)'
    BY <1>2 DEF OnWay
  <2>1. i - 1 \in DOMAIN stream'[n] /\ stream'[n][i - 1] = stream[n][i]
    BY <1>2
  <2> QED BY <2>1 DEF OnWay
<1>6. /\ new \in Seq(FrameRecords) /\ Len(new) = Len(msgs) /\ Len(msgs) \in Nat
      /\ \A x \in 1 .. Len(msgs) : new[x].msg = msgs[x]
  BY <1>0, <1>1, FramesOfMessages, SMTT(30)
<1> HIDE DEF m, msgs, old, new
<1>7. /\ old \o new \in Seq(FrameRecords) /\ Len(old \o new) = Len(old) + Len(new)
      /\ \A i \in 1 .. Len(old) + Len(new) :
           (old \o new)[i] = IF i <= Len(old) THEN old[i] ELSE new[i - Len(old)]
  <2>1. old \in Seq(FrameRecords) /\ new \in Seq(FrameRecords)
    BY <1>0, <1>6
  <2> QED BY <2>1, ConcatProperties
<1>8. /\ Len(old) \in Nat /\ DOMAIN old = 1 .. Len(old)
      /\ DOMAIN (old \o new) = 1 .. Len(old) + Len(msgs)
  BY <1>0, <1>6, <1>7
<1>9. \A i \in 1 .. Len(old) + Len(msgs) :
        \/ i \in DOMAIN old /\ (old \o new)[i] = old[i]
        \/ i - Len(old) \in 1 .. Len(msgs) /\ (old \o new)[i].msg = msgs[i - Len(old)]
  BY <1>6, <1>7, <1>8
<1>10. \A i \in DOMAIN old : i \in 1 .. Len(old) + Len(msgs) /\ (old \o new)[i] = old[i]
  BY <1>6, <1>7, <1>8
<1>11. \A x \in 1 .. Len(msgs) : /\ Len(old) + x \in 1 .. Len(old) + Len(msgs)
                                 /\ (old \o new)[Len(old) + x].msg = msgs[x]
  BY <1>6, <1>7, <1>8
<1>12. {(old \o new)[i].msg : i \in 1 .. Len(old) + Len(msgs)}
       = {old[i].msg : i \in DOMAIN old} \cup {msgs[x] : x \in 1 .. Len(msgs)}
  <2> DEFINE all == {(old \o new)[i].msg : i \in 1 .. Len(old) + Len(msgs)}
             before == {old[i].msg : i \in DOMAIN old}
             added == {msgs[x] : x \in 1 .. Len(msgs)}
  <2>1. all \subseteq before \cup added
    BY <1>9
  <2>2. before \subseteq all
    BY <1>10
  <2>3. added \subseteq all
    BY <1>11
  <2> QED BY <2>1, <2>2, <2>3
<1>13. OnWay(Peer(n))' = OnWay(Peer(n)) \cup {msgs[x] : x \in 1 .. Len(msgs)}
  BY <1>1, <1>8, <1>12 DEF OnWay, old
<1> QED BY <1>3, <1>4, <1>5, <1>13 DEF m, msgs

\* b handles a message: what was advertised it has, or asks for; what was
\* sent it stores.
LEMMA AtB ==
  ASSUME ReplicaInv, Receive("b"), ~Head(stream["b"]).forged, InOrder("b", Head(stream["b"]))
  PROVE  ReplicaInv'
<1> DEFINE m == Head(stream["b"]).msg
           msgs == Answers("b", m)
<1>0. SyncTypeOK /\ DeliveryInv /\ "b" \in Nodes /\ "a" \in Nodes /\ Peer("b") = "a"
  BY TwoNodes DEF ReplicaInv, DeliveryInv, Peer
<1>1. /\ m \in OnWay("b") /\ OnWay("b")' \subseteq OnWay("b") /\ OnWay("b") \subseteq OnWay("b")' \cup {m}
      /\ OnWay("a")' = OnWay("a") \cup {msgs[x] : x \in 1 .. Len(msgs)}
  BY <1>0, Flow
<1>2. /\ m \in Messages /\ held' = [held EXCEPT !["b"] = StoreAfter("b", m)]
      /\ driver' = Polled("b", TRUE) /\ UNCHANGED <<faults, hasty>>
  BY <1>0, Delivered
<1>3. DeliveryInv'
  BY <1>0, ReceiveStep
<1> HIDE DEF m
<1>4. m.kind \in {"advertise", "snapshot", "ack", "nack"} /\ (m.kind = "snapshot" => Verified(m))
  BY <1>1, <1>2, MessageKinds DEF ReplicaInv, RolesOK
<1>5. held'["a"] = held["a"] /\ held'["b"] = StoreAfter("b", m)
  BY <1>0, <1>2, TwoNodes DEF SyncTypeOK
<1>6. driver'.at = "a" /\ driver'.progressed /\ driver'.result = driver.result /\ driver.result = "running"
  <2>1. driver.result = "running"
    BY DEF Receive, Polling
  <2> QED BY <1>0, <1>2, <2>1, PolledOK
<1>7. \A x \in 1 .. Len(msgs) : msgs[x].kind \in {"want", "ack", "nack"}
  <2>1. CASE m.kind = "advertise"
    BY <2>1 DEF Answers
  <2>2. CASE m.kind = "snapshot"
    BY <2>2 DEF Answers
  <2>3. CASE m.kind \in {"ack", "nack"}
    BY <2>3 DEF Answers
  <2> QED BY <1>4, <2>1, <2>2, <2>3
<1>8. m.kind = "advertise" =>
        \A d \in m.digests : \/ d \in DOMAIN held["b"]
                             \/ \E x \in 1 .. Len(msgs) : msgs[x].kind = "want" /\ d \in msgs[x].digests
  <2> SUFFICES ASSUME m.kind = "advertise", NEW d \in m.digests, d \notin DOMAIN held["b"]
               PROVE  \E x \in 1 .. Len(msgs) : msgs[x].kind = "want" /\ d \in msgs[x].digests
    OBVIOUS
  <2>1. msgs = <<[kind |-> "want", digests |-> Want("b", m.digests)]>> /\ d \in Want("b", m.digests)
    BY DEF Answers, Want
  <2> QED BY <2>1
<1> HIDE DEF msgs
<1>9. RolesOK'
  BY <1>1, <1>7 DEF ReplicaInv, RolesOK, Verified
<1>10. NothingForgotten'
  <2> SUFFICES ASSUME Calm', NEW d \in DOMAIN held["a"]
               PROVE  d \in DOMAIN held'["b"] \/ Underway(d)'
    BY <1>5 DEF NothingForgotten
  <2>1. Calm
    BY <1>2, <1>6 DEF Calm
  <2>2. DOMAIN held["b"] \subseteq DOMAIN held'["b"]
        /\ (m.kind = "snapshot" => m.digest \in DOMAIN held'["b"])
    BY <1>0, <1>2, <1>4, <1>5, StoreAfterOK
  <2>3. CASE d \in DOMAIN held["b"]
    BY <2>2, <2>3
  <2>4. CASE \E k \in OnWay("a") : k.kind = "want" /\ d \in k.digests
    BY <1>1, <2>4 DEF Underway
  <2>5. ASSUME NEW k \in OnWay("b"), \/ k.kind = "advertise" /\ d \in k.digests
                                     \/ k.kind = "snapshot" /\ k.digest = d
        PROVE  d \in DOMAIN held'["b"] \/ Underway(d)'
    <3>1. CASE k \in OnWay("b")'
      BY <2>5, <3>1 DEF Underway
    <3>2. CASE k = m
      BY <1>1, <1>8, <2>2, <2>5, <3>2 DEF Underway
    <3> QED BY <1>1, <3>1, <3>2
  <2> QED BY <2>1, <2>3, <2>4, <2>5 DEF ReplicaInv, NothingForgotten, Underway
<1>11. PollsOK'
  BY <1>6 DEF PollsOK
<1> QED BY <1>3, <1>9, <1>10, <1>11 DEF ReplicaInv

\* a handles a message: it sends every snapshot that is asked for.
LEMMA AtA ==
  ASSUME ReplicaInv, Receive("a"), ~Head(stream["a"]).forged, InOrder("a", Head(stream["a"]))
  PROVE  ReplicaInv'
<1> DEFINE m == Head(stream["a"]).msg
           msgs == Answers("a", m)
<1>0. SyncTypeOK /\ DeliveryInv /\ "b" \in Nodes /\ "a" \in Nodes /\ Peer("a") = "b"
  BY TwoNodes DEF ReplicaInv, DeliveryInv, Peer
<1>1. /\ m \in OnWay("a") /\ OnWay("a")' \subseteq OnWay("a") /\ OnWay("a") \subseteq OnWay("a")' \cup {m}
      /\ OnWay("b")' = OnWay("b") \cup {msgs[x] : x \in 1 .. Len(msgs)}
  BY <1>0, Flow
<1>2. /\ m \in Messages /\ held' = [held EXCEPT !["a"] = StoreAfter("a", m)]
      /\ driver' = Polled("a", TRUE) /\ UNCHANGED <<faults, hasty>>
  BY <1>0, Delivered
<1>3. DeliveryInv'
  BY <1>0, ReceiveStep
<1> HIDE DEF m
<1>4. m.kind \in {"want", "ack", "nack"}
  BY <1>1 DEF ReplicaInv, RolesOK
<1>5. held'["a"] = held["a"] /\ held'["b"] = held["b"]
  BY <1>0, <1>2, <1>4, StoreAfterOK, TwoNodes DEF SyncTypeOK
<1>6. driver'.at = "b" /\ driver'.result # "ok" /\ driver.result = "running"
  <2>1. driver.result = "running"
    BY DEF Receive, Polling
  <2> QED BY <1>0, <1>2, <2>1, PolledOK
<1>7. ASSUME m.kind = "want"
      PROVE  /\ \A d \in m.digests : \E x \in 1 .. Len(msgs) : msgs[x] = SnapshotOrGone("a", d)
             /\ \A x \in 1 .. Len(msgs) : \E d \in m.digests : msgs[x] = SnapshotOrGone("a", d)
  <2>1. m.digests \in SUBSET Digests
    BY <1>2, <1>7, MessageKinds
  <2>2. msgs = [x \in 1 .. Cardinality(m.digests) |-> SnapshotOrGone("a", Listed(m.digests)[x])]
    BY <1>7 DEF Answers
  <2>3. /\ Cardinality(m.digests) \in Nat /\ Listed(m.digests) \in [1 .. Cardinality(m.digests) -> m.digests]
        /\ \A d \in m.digests : \E x \in 1 .. Cardinality(m.digests) : Listed(m.digests)[x] = d
    BY <2>1, ListedOK
  <2>4. Len(msgs) = Cardinality(m.digests)
    BY <2>2, <2>3
  <2> QED BY <2>2, <2>3, <2>4
<1>8. \A x \in 1 .. Len(msgs) : /\ msgs[x].kind \in {"snapshot", "nack"}
                                /\ msgs[x].kind = "snapshot" => Verified(msgs[x])
  <2>1. ASSUME NEW d
        PROVE  /\ SnapshotOrGone("a", d).kind \in {"snapshot", "nack"}
               /\ SnapshotOrGone("a", d).kind = "snapshot" => Verified(SnapshotOrGone("a", d))
    <3>1. d \in DOMAIN held["a"] => SnapshotDigest[held["a"][d]] = d /\ d # Malformed
      BY <1>0 DEF SyncTypeOK, StoreOK
    <3> QED BY <3>1 DEF SnapshotOrGone, Verified
  <2>2. CASE m.kind = "want"
    BY <1>7, <2>1, <2>2
  <2>3. CASE m.kind \in {"ack", "nack"}
    BY <2>3 DEF Answers
  <2> QED BY <1>4, <2>2, <2>3
<1> HIDE DEF msgs
<1>9. RolesOK'
  BY <1>1, <1>8 DEF ReplicaInv, RolesOK, Verified
<1>10. NothingForgotten'
  <2> SUFFICES ASSUME Calm', NEW d \in DOMAIN held["a"]
               PROVE  d \in DOMAIN held["b"] \/ Underway(d)'
    BY <1>5 DEF NothingForgotten
  <2>1. Calm
    BY <1>2, <1>6 DEF Calm
  <2>2. CASE d \in DOMAIN held["b"]
    BY <2>2
  <2>3. CASE \E k \in OnWay("b") : \/ k.kind = "advertise" /\ d \in k.digests
                                   \/ k.kind = "snapshot" /\ k.digest = d
    BY <1>1, <2>3 DEF Underway
  <2>4. ASSUME NEW k \in OnWay("a"), k.kind = "want", d \in k.digests
        PROVE  Underway(d)'
    <3>1. CASE k \in OnWay("a")'
      BY <2>4, <3>1 DEF Underway
    <3>2. CASE k = m
      <4>1. PICK x \in 1 .. Len(msgs) : msgs[x] = SnapshotOrGone("a", d)
        BY <1>7, <2>4, <3>2
      <4>2. msgs[x].kind = "snapshot" /\ msgs[x].digest = d
        BY <4>1 DEF SnapshotOrGone
      <4>3. msgs[x] \in OnWay("b")'
        BY <1>1
      <4> QED BY <4>2, <4>3 DEF Underway
    <3> QED BY <1>1, <3>1, <3>2
  <2> QED BY <2>1, <2>2, <2>3, <2>4 DEF ReplicaInv, NothingForgotten, Underway
<1>11. PollsOK'
  BY <1>6 DEF PollsOK
<1> QED BY <1>3, <1>9, <1>10, <1>11 DEF ReplicaInv

\* A frame that is refused ends the run with an error.
LEMMA Refuses ==
  ASSUME ReplicaInv, NEW n \in Nodes, Receive(n),
         Head(stream[n]).forged \/ ~InOrder(n, Head(stream[n]))
  PROVE  ReplicaInv'
<1>0. SyncTypeOK /\ DeliveryInv
  BY DEF ReplicaInv, DeliveryInv
<1>1. driver' = [driver EXCEPT !.result = "err"] /\ stream' = stream
  BY DEF Receive
<1>2. ~Calm'
  BY <1>0, <1>1 DEF Calm, SyncTypeOK
<1>3. \A m \in Nodes : SameFrames(stream[m], stream'[m])
  BY <1>0, <1>1, SameItself DEF SyncTypeOK
<1>4. DeliveryInv'
  BY <1>0, ReceiveStep
<1> QED BY <1>2, <1>3, <1>4, NoLongerCalm

LEMMA ReplicaNext == ReplicaInv /\ [SyncNext]_syncVars => ReplicaInv'
<1> SUFFICES ASSUME ReplicaInv, [SyncNext]_syncVars PROVE ReplicaInv'
  OBVIOUS
<1>1. CASE UNCHANGED syncVars
  <2>1. DeliveryInv'
    BY <1>1, DeliveryNext DEF ReplicaInv
  <2>2. OnWay("a")' = OnWay("a") /\ OnWay("b")' = OnWay("b") /\ UNCHANGED <<held, hasty, faults, driver>>
    BY <1>1 DEF syncVars, OnWay
  <2> QED BY <2>1, <2>2 DEF ReplicaInv, RolesOK, Verified, NothingForgotten, PollsOK, Calm, Underway
<1>2. ASSUME NEW n \in Nodes, Receive(n)
      PROVE  ReplicaInv'
  BY <1>2, AtA, AtB, Refuses DEF Nodes
<1>3. CASE SyncNext
  BY <1>2, <1>3, FaultyStep, IdlePoll DEF SyncNext
<1> QED BY <1>1, <1>3

\* For any snapshots and any number of steps: a replication that ended well,
\* with no frame lost and none given up on, left b with all that a has.
THEOREM OkAlwaysReplicates == SyncSpec => []OkMeansReplicated
<1>1. ReplicaInv => OkMeansReplicated
  BY DEF ReplicaInv, NothingForgotten, PollsOK, Calm, Underway, OkMeansReplicated
<1> QED BY <1>1, ReplicaInit, ReplicaNext, PTL DEF SyncSpec

-----------------------------------------------------------------------------
Timestamps == Nat \X Nat

\* A site at the initial timestamp has seen nothing later.
LineageClocks ==
  /\ made \in Seq([parent : Nat, hlc : Timestamps])
  /\ hlc \in [Sites -> Timestamps] /\ seenHlc \in [Sites -> Timestamps]
  /\ \A s \in Sites : hlc[s] = <<0, 0>> => seenHlc[s] = <<0, 0>>

ClockInv == LineageClocks /\ HlcCausal

\* HlcTimestamp::tick and update give a later timestamp than what they are
\* given, whatever the physical clock says.
LEMMA TickIsLater ==
  ASSUME NEW h \in Timestamps, NEW now \in Nat
  PROVE  Tick(h, now) \in Timestamps /\ Before(h, Tick(h, now)) /\ Tick(h, now) # <<0, 0>>
BY DEF Timestamps, Tick, Before

LEMMA UpdateIsLater ==
  ASSUME NEW h \in Timestamps, NEW seen \in Timestamps, NEW now \in Nat
  PROVE  LET u == Update(h, seen, now)
         IN  u \in Timestamps /\ Before(h, u) /\ Before(seen, u) /\ u # <<0, 0>>
BY DEF Timestamps, Update, Greater, Before

LEMMA LaterOfTwo ==
  ASSUME NEW x \in Timestamps, NEW y \in Timestamps
  PROVE  /\ Later(x, y) \in Timestamps
         /\ \A z \in Timestamps : Before(x, z) /\ Before(y, z) => Before(Later(x, y), z)
         /\ Later(<<0, 0>>, y) = y
BY DEF Timestamps, Later, Before

LEMMA BeforeIsTransitive ==
  ASSUME NEW x \in Timestamps, NEW y \in Timestamps, NEW z \in Timestamps, Before(x, y), Before(y, z)
  PROVE  Before(x, z)
BY DEF Timestamps, Before

\* A site whose clock moves from h to a later t, having seen v.
LEMMA ClockStep ==
  ASSUME ClockInv, NEW s \in Sites, NEW t \in Timestamps, NEW v \in Timestamps, t # <<0, 0>>,
         Before(hlc[s], t), Before(v, t),
         hlc' = [hlc EXCEPT ![s] = t], seenHlc' = [seenHlc EXCEPT ![s] = Later(@, v)],
         made' \in Seq([parent : Nat, hlc : Timestamps])
  PROVE  ClockInv'
<1>1. hlc[s] \in Timestamps /\ seenHlc[s] \in Timestamps
  BY DEF ClockInv, LineageClocks
<1>2. Before(seenHlc[s], t)
  <2>1. CASE hlc[s] = <<0, 0>>
    BY <2>1 DEF ClockInv, LineageClocks
  <2>2. CASE hlc[s] # <<0, 0>>
    BY <1>1, <2>2, BeforeIsTransitive DEF ClockInv, HlcCausal
  <2> QED BY <2>1, <2>2
<1>3. Later(seenHlc[s], v) \in Timestamps /\ Before(Later(seenHlc[s], v), t)
  BY <1>1, <1>2, LaterOfTwo
<1>4. \A q \in Sites : /\ hlc'[q] = IF q = s THEN t ELSE hlc[q]
                       /\ seenHlc'[q] = IF q = s THEN Later(seenHlc[s], v) ELSE seenHlc[q]
  BY DEF ClockInv, LineageClocks
<1>5. LineageClocks'
  BY <1>3, <1>4 DEF ClockInv, LineageClocks
<1>6. HlcCausal'
  BY <1>3, <1>4 DEF ClockInv, HlcCausal
<1> QED BY <1>5, <1>6 DEF ClockInv

LEMMA ClockNext == ClockInv /\ [LineageNext]_lineageVars => ClockInv'
<1> SUFFICES ASSUME ClockInv, [LineageNext]_lineageVars PROVE ClockInv'
  OBVIOUS
<1>1. CASE UNCHANGED lineageVars
  BY <1>1 DEF lineageVars, ClockInv, LineageClocks, HlcCausal
<1>2. ASSUME NEW s \in Sites, NEW now \in 0 .. MaxMillis, NEW parent \in 0 .. MaxHeads,
             Make(s, parent, now)
      PROVE  ClockInv'
  <2>1. now \in Nat /\ parent \in Nat /\ hlc[s] \in Timestamps
    BY LineageAssumption DEF ClockInv, LineageClocks
  <2> DEFINE t == Tick(hlc[s], now)
  <2>2. t \in Timestamps /\ Before(hlc[s], t) /\ t # <<0, 0>>
    BY <2>1, TickIsLater
  <2>3. hlc' = [hlc EXCEPT ![s] = t] /\ seenHlc' = [seenHlc EXCEPT ![s] = Later(@, hlc[s])]
    BY <1>2 DEF Make
  <2> HIDE DEF t
  <2>4. hlc'[s] = t
    BY <2>3 DEF ClockInv, LineageClocks
  <2>5. made' \in Seq([parent : Nat, hlc : Timestamps])
    <3>1. [parent |-> parent, hlc |-> hlc'[s]] \in [parent : Nat, hlc : Timestamps]
      BY <2>1, <2>2, <2>4
    <3> QED BY <1>2, <3>1, AppendProperties DEF Make, ClockInv, LineageClocks
  <2> QED BY <2>1, <2>2, <2>3, <2>5, ClockStep
<1>3. ASSUME NEW s \in Sites, NEW now \in 0 .. MaxMillis, NEW d \in DOMAIN made, Deliver(s, d, now)
      PROVE  ClockInv'
  <2>1. now \in Nat /\ hlc[s] \in Timestamps /\ made[d].hlc \in Timestamps
    <3> DEFINE M == [parent : Nat, hlc : Timestamps]
    <3>0. made \in Seq(M)
      BY DEF ClockInv, LineageClocks
    <3> HIDE DEF M
    <3>1. made[d] \in M
      BY <3>0
    <3>2. made[d].hlc \in Timestamps
      BY <3>1 DEF M
    <3> QED BY <3>2, LineageAssumption DEF ClockInv, LineageClocks
  <2> DEFINE t == Update(hlc[s], made[d].hlc, now)
             v == Later(hlc[s], made[d].hlc)
  <2>2. t \in Timestamps /\ Before(hlc[s], t) /\ Before(made[d].hlc, t) /\ t # <<0, 0>>
    BY <2>1, UpdateIsLater
  <2>3. /\ hlc' = [hlc EXCEPT ![s] = t] /\ seenHlc' = [seenHlc EXCEPT ![s] = Later(@, v)]
        /\ made' \in Seq([parent : Nat, hlc : Timestamps])
    BY <1>3 DEF Deliver, ClockInv, LineageClocks
  <2>4. v \in Timestamps /\ Before(v, t)
    BY <2>1, <2>2, LaterOfTwo
  <2> HIDE DEF t, v
  <2> QED BY <2>2, <2>3, <2>4, ClockStep
<1> QED BY <1>1, <1>2, <1>3 DEF LineageNext

\* For any sites, updates and physical clocks, however these stand still or
\* jump back: a site's timestamp is later than all it issued or saw before.
THEOREM ClocksAlwaysCausal == LineageSpec => []HlcCausal
<1>1. LineageInit => ClockInv
  BY EmptySeq DEF LineageInit, ClockInv, LineageClocks, HlcCausal, Timestamps
<1>2. ClockInv => HlcCausal
  BY DEF ClockInv
<1> QED BY <1>1, <1>2, ClockNext, PTL DEF LineageSpec

-----------------------------------------------------------------------------
(***************************************************************************)
(* Heads and leaves.  A parent is older than its child, so the walk of     *)
(* is_ancestor_digest ends, and facts about it are proved from the oldest  *)
(* digest up.  A new node d only lengthens the walks that ended at d.      *)
(***************************************************************************)
AncestorWalk(updates, nodes) ==
  LET Walk[e \in 0 .. MaxHeads] ==
        IF e = 0 THEN {} ELSE IF e \notin nodes THEN {e} ELSE {e} \cup Walk[updates[e].parent]
  IN  Walk

\* The nodes have digests up to n, and their parents are older.
Downward(updates, nodes) ==
  /\ nodes \subseteq 1 .. MaxHeads
  /\ \A e \in nodes : updates[e].parent \in 0 .. (e - 1)

AncestorsUpTo(updates, nodes, n, g) ==
  g = [e \in 0 .. n |-> IF e = 0 THEN {} ELSE IF e \notin nodes THEN {e}
                        ELSE {e} \cup g[updates[e].parent]]

LEMMA WalkExists ==
  ASSUME NEW u, NEW N, Downward(u, N)
  PROVE  AncestorsUpTo(u, N, MaxHeads, AncestorWalk(u, N))
<1> USE LineageAssumption
<1> DEFINE S == {m \in 0 .. MaxHeads : \E g : AncestorsUpTo(u, N, m, g)}
<1>1. 0 \in S
  <2> DEFINE g == [e \in 0 .. 0 |-> {}]
  <2>1. AncestorsUpTo(u, N, 0, g)
    BY DEF AncestorsUpTo
  <2> QED BY <2>1
<1>2. ASSUME NEW m \in 0 .. MaxHeads, m # MaxHeads, m \in S PROVE m + 1 \in S
  <2>1. PICK g : g = [e \in 0 .. m |-> IF e = 0 THEN {} ELSE IF e \notin N THEN {e}
                                       ELSE {e} \cup g[u[e].parent]]
    BY <1>2 DEF AncestorsUpTo
  <2> DEFINE h == [e \in 0 .. m + 1 |-> IF e = 0 THEN {} ELSE IF e \notin N THEN {e}
                                        ELSE {e} \cup g[u[e].parent]]
  <2>2. \A e \in 0 .. m : e \in 0 .. m + 1
    OBVIOUS
  <2>3. \A e \in 0 .. m : h[e] = g[e]
    BY <2>1, <2>2, Zenon
  <2>4. \A e \in 0 .. m + 1 : e \in N => u[e].parent \in 0 .. m
    BY DEF Downward
  <2> HIDE DEF h
  <2>5. \A e \in 0 .. m + 1 : (IF e = 0 THEN {} ELSE IF e \notin N THEN {e} ELSE {e} \cup h[u[e].parent])
                            = (IF e = 0 THEN {} ELSE IF e \notin N THEN {e} ELSE {e} \cup g[u[e].parent])
    BY <2>3, <2>4
  <2>6. AncestorsUpTo(u, N, m + 1, h)
    BY <2>5, Zenon DEF AncestorsUpTo, h
  <2> QED BY <1>2, <2>6
<1>3. \A m \in 0 .. MaxHeads : m \in S
  <2> HIDE DEF S
  <2> QED BY <1>1, <1>2, NatUpTo
<1>4. \E g : AncestorsUpTo(u, N, MaxHeads, g)
  BY <1>3
<1> QED BY <1>4, Zenon DEF AncestorsUpTo, AncestorWalk

LEMMA AncestorsStep ==
  ASSUME NEW u, NEW N, Downward(u, N), NEW e \in 0 .. MaxHeads
  PROVE  Ancestors(u, N, e) = IF e = 0 THEN {} ELSE IF e \notin N THEN {e}
                              ELSE {e} \cup Ancestors(u, N, u[e].parent)
<1> DEFINE W == AncestorWalk(u, N)
<1>1. \A f : Ancestors(u, N, f) = W[f]
  BY Zenon DEF Ancestors, AncestorWalk
<1>2. W = [f \in 0 .. MaxHeads |-> IF f = 0 THEN {} ELSE IF f \notin N THEN {f}
                                   ELSE {f} \cup W[u[f].parent]]
  BY WalkExists DEF AncestorsUpTo
<1> HIDE DEF W
<1>3. W[e] = IF e = 0 THEN {} ELSE IF e \notin N THEN {e} ELSE {e} \cup W[u[e].parent]
  BY <1>2
<1> QED BY <1>1, <1>3

\* Ancestors are no younger, and theirs are among them.
LEMMA AncestorsAreOlder ==
  ASSUME NEW u, NEW N, Downward(u, N), NEW e \in 0 .. MaxHeads
  PROVE  /\ Ancestors(u, N, e) \subseteq 1 .. e
         /\ \A f \in Ancestors(u, N, e) : Ancestors(u, N, f) \subseteq Ancestors(u, N, e)
         /\ e # 0 => e \in Ancestors(u, N, e)
<1> USE LineageAssumption
<1> DEFINE A(f) == Ancestors(u, N, f)
           S == {k \in 0 .. MaxHeads : /\ A(k) \subseteq 1 .. k
                                       /\ \A f \in A(k) : A(f) \subseteq A(k)}
<1>1. ASSUME NEW k \in 0 .. MaxHeads PROVE A(k) = IF k = 0 THEN {} ELSE IF k \notin N THEN {k}
                                                  ELSE {k} \cup A(u[k].parent)
  BY AncestorsStep
<1> HIDE DEF A
<1>2. ASSUME NEW k \in 0 .. MaxHeads, \A j \in 0 .. MaxHeads : j < k => j \in S PROVE k \in S
  <2>1. CASE k = 0 \/ k \notin N
    BY <1>1, <2>1
  <2>2. CASE k # 0 /\ k \in N
    <3>1. u[k].parent \in 0 .. (k - 1)
      BY <2>2 DEF Downward
    <3>2. u[k].parent \in S /\ A(k) = {k} \cup A(u[k].parent)
      BY <1>1, <1>2, <2>2, <3>1
    <3> QED BY <2>2, <3>1, <3>2
  <2> QED BY <2>1, <2>2
<1>3. \A k \in 0 .. MaxHeads : k \in S
  <2> HIDE DEF S
  <2> QED BY <1>2, NatStrong
<1>4. e # 0 => e \in A(e)
  BY <1>1
<1> QED BY <1>3, <1>4 DEF A

\* Two tables of updates with the same parents for the nodes give the same
\* ancestors.
LEMMA AncestorsAgree ==
  ASSUME NEW u, NEW v, NEW N, Downward(u, N), \A e \in N : v[e].parent = u[e].parent,
         NEW e \in 0 .. MaxHeads
  PROVE  Ancestors(v, N, e) = Ancestors(u, N, e)
<1> USE LineageAssumption
<1>1. Downward(v, N)
  BY DEF Downward
<1> DEFINE A(f) == Ancestors(u, N, f)
           B(f) == Ancestors(v, N, f)
           S == {k \in 0 .. MaxHeads : B(k) = A(k)}
<1>2. ASSUME NEW k \in 0 .. MaxHeads
      PROVE  /\ A(k) = IF k = 0 THEN {} ELSE IF k \notin N THEN {k} ELSE {k} \cup A(u[k].parent)
             /\ B(k) = IF k = 0 THEN {} ELSE IF k \notin N THEN {k} ELSE {k} \cup B(v[k].parent)
  BY <1>1, AncestorsStep
<1> HIDE DEF A, B
<1>3. ASSUME NEW k \in 0 .. MaxHeads, \A j \in 0 .. MaxHeads : j < k => j \in S PROVE k \in S
  <2>1. CASE k = 0 \/ k \notin N
    BY <1>2, <2>1
  <2>2. CASE k # 0 /\ k \in N
    <3>1. u[k].parent \in 0 .. (k - 1) /\ v[k].parent = u[k].parent
      BY <2>2 DEF Downward
    <3>2. u[k].parent \in S
      BY <1>3, <3>1
    <3>3. A(k) = {k} \cup A(u[k].parent) /\ B(k) = {k} \cup B(v[k].parent)
      BY <1>2, <2>2
    <3>4. B(v[k].parent) = A(u[k].parent)
      BY <3>1, <3>2, Zenon
    <3> QED BY <3>3, <3>4
  <2> QED BY <2>1, <2>2
<1>4. \A k \in 0 .. MaxHeads : k \in S
  <2> HIDE DEF S
  <2> QED BY <1>3, NatStrong
<1> QED BY <1>4 DEF A, B

\* A new node d lengthens the walks that ended at d by its own ancestors.
LEMMA AncestorsGrow ==
  ASSUME NEW u, NEW N, NEW d, Downward(u, N \cup {d}), d \notin N, NEW e \in 0 .. MaxHeads
  PROVE  /\ Ancestors(u, N, e) \subseteq Ancestors(u, N \cup {d}, e)
         /\ Ancestors(u, N \cup {d}, e) \subseteq Ancestors(u, N, e) \cup Ancestors(u, N \cup {d}, d)
<1> USE LineageAssumption
<1>1. Downward(u, N) /\ d \in 0 .. MaxHeads /\ d # 0
  BY DEF Downward
<1> DEFINE A(f) == Ancestors(u, N, f)
           B(f) == Ancestors(u, N \cup {d}, f)
           S == {k \in 0 .. MaxHeads : A(k) \subseteq B(k) /\ B(k) \subseteq A(k) \cup B(d)}
<1>2. ASSUME NEW k \in 0 .. MaxHeads
      PROVE  /\ A(k) = IF k = 0 THEN {} ELSE IF k \notin N THEN {k} ELSE {k} \cup A(u[k].parent)
             /\ B(k) = IF k = 0 THEN {} ELSE IF k \notin N \cup {d} THEN {k} ELSE {k} \cup B(u[k].parent)
  <2>1. A(k) = IF k = 0 THEN {} ELSE IF k \notin N THEN {k} ELSE {k} \cup A(u[k].parent)
    BY <1>1, AncestorsStep
  <2> DEFINE M == N \cup {d}
  <2> HIDE DEF M
  <2>2. Downward(u, M)
    BY DEF M
  <2>3. Ancestors(u, M, k) = IF k = 0 THEN {} ELSE IF k \notin M THEN {k}
                             ELSE {k} \cup Ancestors(u, M, u[k].parent)
    BY <2>2, AncestorsStep
  <2> QED BY <2>1, <2>3 DEF M
<1> HIDE DEF A, B
<1>3. ASSUME NEW k \in 0 .. MaxHeads, \A j \in 0 .. MaxHeads : j < k => j \in S PROVE k \in S
  <2>1. CASE k = 0 \/ k \notin N
    <3>1. CASE k = d
      BY <1>1, <1>2, <2>1, <3>1
    <3>2. CASE k # d
      BY <1>2, <2>1, <3>2
    <3> QED BY <3>1, <3>2
  <2>2. CASE k # 0 /\ k \in N
    <3>1. u[k].parent \in 0 .. (k - 1)
      BY <2>2 DEF Downward
    <3>2. u[k].parent \in S
      BY <1>3, <3>1
    <3> QED BY <1>2, <2>2, <3>1, <3>2
  <2> QED BY <2>1, <2>2
<1>4. \A k \in 0 .. MaxHeads : k \in S
  <2> HIDE DEF S
  <2> QED BY <1>3, NatStrong
<1> QED BY <1>4 DEF A, B

\* The nodes that no other node descends from.
Leaves(updates, nodes) ==
  {d \in nodes : \A e \in nodes \ {d} : d \notin Ancestors(updates, nodes, e)}

\* A new node is a leaf unless a head descends from it: the youngest of its
\* descendants would be one.
LEMMA NewLeaf ==
  ASSUME NEW u, NEW N, NEW d, Downward(u, N \cup {d}), d \notin N
  PROVE  d \in Leaves(u, N \cup {d})
         <=> \A h \in Leaves(u, N) : h \in Ancestors(u, N \cup {d}, d) \/ d \notin Ancestors(u, N \cup {d}, h)
<1> USE LineageAssumption
<1>1. Downward(u, N) /\ d \in 1 .. MaxHeads /\ N \subseteq 1 .. MaxHeads
  BY DEF Downward
<1> DEFINE A(f) == Ancestors(u, N, f)
           B(f) == Ancestors(u, N \cup {d}, f)
<1>2. ASSUME NEW e \in 0 .. MaxHeads
      PROVE  B(e) \subseteq 1 .. e /\ \A f \in B(e) : B(f) \subseteq B(e)
  BY AncestorsAreOlder
<1>3. ASSUME NEW e \in 0 .. MaxHeads PROVE A(e) \subseteq 1 .. e /\ A(e) \subseteq B(e)
  <2>1. A(e) \subseteq 1 .. e
    BY <1>1, AncestorsAreOlder
  <2>2. A(e) \subseteq B(e)
    BY AncestorsGrow
  <2> QED BY <2>1, <2>2
<1>4. d \in Leaves(u, N \cup {d}) <=> \A e \in N : d \notin B(e)
  BY DEF Leaves
<1>5. \A h : h \in Leaves(u, N) <=> h \in N /\ \A e \in N \ {h} : h \notin A(e)
  BY DEF Leaves
<1> HIDE DEF A, B
<1>6. ASSUME NEW e \in N, d \in B(e)
      PROVE  \E h \in Leaves(u, N) : h \notin B(d) /\ d \in B(h)
  <2> DEFINE T == {f \in N : d \in B(f)}
  <2>1. T \in SUBSET (0 .. MaxHeads) /\ T # {}
    <3>1. e \in T
      BY <1>6
    <3>2. \A f \in N : f \in 0 .. MaxHeads
      BY <1>1
    <3> QED BY <3>1, <3>2, Zenon
  <2>2. PICK g \in T : \A f \in T : f <= g
    <3> HIDE DEF T
    <3> QED BY <2>1, GreatestUpTo
  <2>3. g \in N /\ g \in 1 .. MaxHeads /\ d \in B(g) /\ d < g
    <3>1. g \in N /\ g \in 1 .. MaxHeads /\ d \in B(g) /\ g # d
      BY <1>1, <2>2
    <3>2. d \in 1 .. g
      BY <1>2, <3>1
    <3> QED BY <3>1, <3>2
  <2>4. ASSUME NEW f \in N \ {g}, g \in A(f) PROVE FALSE
    <3>1. f \in 1 .. MaxHeads
      BY <1>1
    <3>2. g \in 1 .. f /\ g \in B(f)
      BY <1>3, <2>4, <3>1
    <3>3. d \in B(f)
      BY <1>2, <2>3, <3>1, <3>2
    <3>4. f <= g
      BY <2>2, <3>3
    <3> QED BY <2>3, <3>1, <3>2, <3>4
  <2>5. g \in Leaves(u, N)
    BY <1>5, <2>3, <2>4
  <2>6. g \notin B(d)
    BY <1>1, <1>2, <2>3
  <2> QED BY <2>3, <2>5, <2>6
<1>7. (\A e \in N : d \notin B(e)) <=> \A h \in Leaves(u, N) : h \in B(d) \/ d \notin B(h)
  BY <1>5, <1>6
<1> QED BY <1>4, <1>7 DEF B

\* The other leaves are the old ones that the new node does not descend from.
LEMMA OtherLeaves ==
  ASSUME NEW u, NEW N, NEW d, Downward(u, N \cup {d}), d \notin N, NEW x \in N
  PROVE  x \in Leaves(u, N \cup {d}) <=> x \in Leaves(u, N) /\ x \notin Ancestors(u, N \cup {d}, d)
<1> DEFINE A(f) == Ancestors(u, N, f)
           B(f) == Ancestors(u, N \cup {d}, f)
<1>1. ASSUME NEW e \in N PROVE A(e) \subseteq B(e) /\ B(e) \subseteq A(e) \cup B(d)
  <2>1. e \in 0 .. MaxHeads
    BY LineageAssumption DEF Downward
  <2> QED BY <2>1, AncestorsGrow
<1>2. x \in Leaves(u, N \cup {d}) <=> (\A e \in N \ {x} : x \notin B(e)) /\ x \notin B(d)
  BY DEF Leaves
<1>3. x \in Leaves(u, N) <=> \A e \in N \ {x} : x \notin A(e)
  BY DEF Leaves
<1> HIDE DEF A, B
<1>4. (\A e \in N \ {x} : x \notin B(e)) /\ x \notin B(d) <=> (\A e \in N \ {x} : x \notin A(e)) /\ x \notin B(d)
  BY <1>1
<1> QED BY <1>2, <1>3, <1>4 DEF B

\* What one store guarantees over the updates made so far.
StoreShows(updates, store) ==
  /\ store = [nodes |-> store.nodes, heads |-> store.heads, forks |-> store.forks]
  /\ store.nodes \subseteq DOMAIN updates
  /\ store.heads = Leaves(updates, store.nodes)
  /\ \A d, e \in store.heads : d = e \/ {d, e} \in store.forks

UpdatesOK(updates) ==
  /\ DOMAIN updates \subseteq 1 .. MaxHeads
  /\ \A d \in DOMAIN updates : updates[d].parent \in 0 .. (d - 1)

LEMMA ApplyHeadShows ==
  ASSUME NEW u, UpdatesOK(u), NEW store, StoreShows(u, store), NEW d \in DOMAIN u
  PROVE  StoreShows(u, ApplyHead(u, store, d))
<1> DEFINE N == store.nodes
           B(f) == Ancestors(u, N \cup {d}, f)
           replaced == {h \in store.heads : h \in B(d)}
           descendants == {h \in store.heads \ replaced : d \in B(h)}
           forked == store.heads \ (replaced \cup descendants)
           new == ApplyHead(u, store, d)
<1>1. CASE d \in N
  <2>1. new = store
    BY <1>1 DEF ApplyHead
  <2> QED BY <2>1
<1>2. CASE d \notin N
  <2>1. new = [nodes |-> N \cup {d}, heads |-> (store.heads \ replaced) \cup Visible(d, descendants),
               forks |-> store.forks \cup {{h, d} : h \in forked}]
    BY <1>2, Zenon DEF ApplyHead
  <2>2. Downward(u, N \cup {d})
    BY DEF UpdatesOK, StoreShows, Downward
  <2>3. store.heads = Leaves(u, N)
    BY DEF StoreShows
  <2>4. d \in Leaves(u, N \cup {d}) <=> descendants = {}
    <3>1. d \in Leaves(u, N \cup {d}) <=> \A h \in store.heads : h \in B(d) \/ d \notin B(h)
      BY <1>2, <2>2, <2>3, NewLeaf
    <3> HIDE DEF B
    <3> QED BY <3>1
  <2>5. ASSUME NEW x \in N PROVE x \in Leaves(u, N \cup {d}) <=> x \in store.heads \ replaced
    <3>1. x \in Leaves(u, N \cup {d}) <=> x \in Leaves(u, N) /\ x \notin B(d)
      BY <1>2, <2>2, OtherLeaves
    <3> QED BY <2>3, <3>1
  <2>6. store.heads \subseteq N /\ Leaves(u, N \cup {d}) \subseteq N \cup {d}
    BY <2>3 DEF Leaves
  <2> HIDE DEF B, new, replaced, descendants
  <2>7. (store.heads \ replaced) \cup Visible(d, descendants) = Leaves(u, N \cup {d})
    BY <1>2, <2>4, <2>5, <2>6 DEF Visible
  <2>8. new.heads = Leaves(u, new.nodes) /\ new.nodes \subseteq DOMAIN u
    BY <2>1, <2>7 DEF StoreShows
  <2>9. ASSUME NEW x \in new.heads, NEW y \in new.heads, x # y PROVE {x, y} \in new.forks
    <3>1. ASSUME NEW h \in store.heads \ replaced, descendants = {} PROVE {h, d} \in new.forks
      <4>1. h \in forked
        BY <3>1
      <4> QED BY <2>1, <4>1
    <3>2. new.heads = (store.heads \ replaced) \cup Visible(d, descendants)
      BY <2>1
    <3>3. store.forks \subseteq new.forks
      BY <2>1
    <3>4. CASE x \in store.heads /\ y \in store.heads
      BY <2>9, <3>3, <3>4 DEF StoreShows
    <3>5. CASE x \notin store.heads
      <4>1. x = d /\ descendants = {} /\ y \in store.heads \ replaced
        BY <2>9, <3>2, <3>5 DEF Visible
      <4>2. {y, x} \in new.forks
        BY <3>1, <4>1
      <4>3. {x, y} = {y, x}
        OBVIOUS
      <4> QED BY <4>2, <4>3
    <3>6. CASE y \notin store.heads
      <4>1. y = d /\ descendants = {} /\ x \in store.heads \ replaced
        BY <2>9, <3>2, <3>6 DEF Visible
      <4> QED BY <3>1, <4>1
    <3> QED BY <3>4, <3>5, <3>6
  <2>10. new = [nodes |-> new.nodes, heads |-> new.heads, forks |-> new.forks]
    BY <2>1
  <2> QED BY <2>8, <2>9, <2>10 DEF StoreShows, new
<1> QED BY <1>1, <1>2

\* A later update changes nothing for a store that does not know it.
LEMMA AppendShows ==
  ASSUME NEW u, UpdatesOK(u), NEW v, DOMAIN u \subseteq DOMAIN v, \A d \in DOMAIN u : v[d] = u[d],
         NEW store, StoreShows(u, store)
  PROVE  StoreShows(v, store)
<1> DEFINE N == store.nodes
<1>1. N \subseteq DOMAIN u /\ Downward(u, N) /\ N \subseteq 0 .. MaxHeads
  BY LineageAssumption DEF UpdatesOK, StoreShows, Downward
<1>2. \A e \in N : v[e].parent = u[e].parent
  BY <1>1
<1>3. ASSUME NEW e \in N PROVE Ancestors(v, N, e) = Ancestors(u, N, e)
  BY <1>1, <1>2, AncestorsAgree
<1>4. Leaves(v, N) = Leaves(u, N)
  BY <1>3 DEF Leaves
<1> QED BY <1>1, <1>4 DEF StoreShows

LineageInv ==
  /\ ClockInv /\ Len(made) <= MaxHeads /\ UpdatesOK(made)
  /\ lineage = [s \in Sites |-> lineage[s]] /\ \A s \in Sites : StoreShows(made, lineage[s])

\* One site applies an update of those made, which may be more than before.
LEMMA SiteShows ==
  ASSUME LineageInv, UpdatesOK(made)', DOMAIN made \subseteq DOMAIN made', \A d \in DOMAIN made : made'[d] = made[d],
         NEW s \in Sites, NEW d \in DOMAIN made',
         lineage' = [lineage EXCEPT ![s] = ApplyHead(made', @, d)]
  PROVE  lineage' = [q \in Sites |-> lineage'[q]] /\ \A q \in Sites : StoreShows(made', lineage'[q])
<1>1. PICK v : v = made'
  OBVIOUS
<1>2. ASSUME NEW q \in Sites PROVE StoreShows(v, lineage[q])
  <2>1. StoreShows(made, lineage[q]) /\ UpdatesOK(made)
    BY DEF LineageInv
  <2> QED BY <1>1, <2>1, AppendShows
<1>3. UpdatesOK(v)
  BY <1>1 DEF UpdatesOK
<1>4. StoreShows(v, ApplyHead(v, lineage[s], d))
  BY <1>1, <1>2, <1>3, ApplyHeadShows
<1>5. \A q \in Sites : lineage'[q] = IF q = s THEN ApplyHead(v, lineage[s], d) ELSE lineage[q]
  BY <1>1 DEF LineageInv
<1>6. lineage' = [q \in Sites |-> lineage'[q]]
  BY DEF LineageInv
<1> QED BY <1>1, <1>2, <1>4, <1>5, <1>6

LEMMA LineageStep == LineageInv /\ [LineageNext]_lineageVars => LineageInv'
<1> SUFFICES ASSUME LineageInv, [LineageNext]_lineageVars PROVE LineageInv'
  OBVIOUS
<1> USE LineageAssumption
<1>0. ClockInv'
  BY ClockNext DEF LineageInv
<1>s. made \in Seq([parent : Nat, hlc : Timestamps]) /\ Len(made) \in Nat /\ DOMAIN made = 1 .. Len(made)
  BY DEF LineageInv, ClockInv, LineageClocks
<1>1. CASE UNCHANGED lineageVars
  BY <1>0, <1>1 DEF lineageVars, LineageInv
<1>2. ASSUME NEW s \in Sites, NEW now \in 0 .. MaxMillis, NEW parent \in 0 .. MaxHeads,
             Make(s, parent, now)
      PROVE  LineageInv'
  <2>1. PICK m : m = [parent |-> parent, hlc |-> hlc'[s]]
    OBVIOUS
  <2>2. made' = Append(made, m) /\ m.parent = parent /\ Len(made) < MaxHeads
    BY <1>2, <2>1 DEF Make
  <2>3. /\ Len(made') = Len(made) + 1 /\ DOMAIN made' = 1 .. Len(made) + 1
        /\ \A d \in DOMAIN made : made'[d] = made[d]
        /\ made'[Len(made) + 1] = m
    BY <1>s, <2>2
  <2>4. parent \in 0 .. Len(made)
    <3>1. lineage[s].heads \subseteq DOMAIN made
      BY DEF LineageInv, StoreShows, Leaves
    <3> QED BY <1>s, <1>2, <3>1 DEF Make
  <2>5. UpdatesOK(made)'
    <3>1. ASSUME NEW d \in DOMAIN made' PROVE made'[d].parent \in 0 .. (d - 1)
      <4>1. CASE d = Len(made) + 1
        BY <1>s, <2>2, <2>3, <2>4, <4>1
      <4>2. CASE d # Len(made) + 1
        <5>1. d \in DOMAIN made
          BY <1>s, <2>3, <4>2
        <5> QED BY <2>3, <5>1 DEF LineageInv, UpdatesOK
      <4> QED BY <4>1, <4>2
    <3>2. DOMAIN made' \subseteq 1 .. MaxHeads
      BY <1>s, <2>2, <2>3
    <3> QED BY <3>1, <3>2 DEF UpdatesOK
  <2>6. Len(made') \in DOMAIN made' /\ DOMAIN made \subseteq DOMAIN made' /\ Len(made') <= MaxHeads
    BY <1>s, <2>2, <2>3
  <2>7. lineage' = [lineage EXCEPT ![s] = ApplyHead(made', @, Len(made'))]
    BY <1>2 DEF Make
  <2>8. lineage' = [q \in Sites |-> lineage'[q]] /\ \A q \in Sites : StoreShows(made', lineage'[q])
    BY <2>3, <2>5, <2>6, <2>7, SiteShows
  <2> QED BY <1>0, <2>5, <2>6, <2>8 DEF LineageInv
<1>3. ASSUME NEW s \in Sites, NEW now \in 0 .. MaxMillis, NEW d \in DOMAIN made, Deliver(s, d, now)
      PROVE  LineageInv'
  <2>1. made' = made /\ lineage' = [lineage EXCEPT ![s] = ApplyHead(made', @, d)]
    BY <1>3 DEF Deliver
  <2>2. UpdatesOK(made)'
    BY <2>1 DEF LineageInv, UpdatesOK
  <2>3. lineage' = [q \in Sites |-> lineage'[q]] /\ \A q \in Sites : StoreShows(made', lineage'[q])
    BY <2>1, <2>2, SiteShows
  <2> QED BY <1>0, <2>1, <2>2, <2>3 DEF LineageInv
<1> QED BY <1>1, <1>2, <1>3 DEF LineageNext

\* For any sites and any number of updates, in whatever order and however often
\* apply_head gets them: the heads a store shows are the updates that nothing
\* it knows descends from, and any two of them were surfaced as a fork.
THEOREM HeadsAlwaysLeaves == LineageSpec => []HeadsAreLeaves
<1>1. LineageInit => LineageInv
  <2> SUFFICES ASSUME LineageInit PROVE LineageInv
    OBVIOUS
  <2>1. ClockInv
    BY EmptySeq DEF LineageInit, ClockInv, LineageClocks, HlcCausal, Timestamps
  <2>2. made = <<>> /\ Len(made) = 0 /\ DOMAIN made = {}
    BY DEF LineageInit
  <2>3. UpdatesOK(made)
    BY <2>2 DEF UpdatesOK
  <2>4. \A s \in Sites : StoreShows(made, lineage[s])
    <3>1. \A s \in Sites : lineage[s] = [nodes |-> {}, heads |-> {}, forks |-> {}]
      BY DEF LineageInit
    <3>2. Leaves(made, {}) = {}
      BY DEF Leaves
    <3> QED BY <3>1, <3>2 DEF StoreShows
  <2> QED BY <2>1, <2>2, <2>3, <2>4, LineageAssumption DEF LineageInv, LineageInit
<1>2. LineageInv => HeadsAreLeaves
  BY DEF LineageInv, StoreShows, Leaves, HeadsAreLeaves
<1> QED BY <1>1, <1>2, LineageStep, PTL DEF LineageSpec
=============================================================================
