---------------------------- MODULE SnapshotSync -----------------------------
(***************************************************************************)
(* Snapshot replication between two nodes: the SyncNode state machine      *)
(* (advertise, want, snapshot, ack or nack), the authenticated frames that *)
(* carry its messages, and replicate_framed, which drives both ends until  *)
(* neither receives anything within the idle timeout.                      *)
(*                                                                         *)
(* A snapshot is named by what its digest covers.  The digest of the tail  *)
(* and of memory_checksum is one value here; SnapshotDigest gives          *)
(* Malformed for a snapshot whose checksum is not 32 hex bytes.  A frame   *)
(* is its session, its sequence number and its message; one with another   *)
(* key, version, length or MAC is a forged one.                            *)
(***************************************************************************)
EXTENDS Integers, Sequences, FiniteSets

CONSTANTS
  Snapshots,      \* snapshots a node may hold
  SnapshotDigest, \* snapshot -> digest_of, or Malformed
  Malformed,      \* not a digest
  MaxSteps,       \* max_steps
  MaxFaults       \* bound: what the network does to frames

ASSUME SyncAssumption == MaxSteps \in Nat /\ MaxFaults \in Nat /\ IsFiniteSet(Snapshots)

VARIABLES
  held,           \* node -> SyncNode.store: digest -> snapshot
  stream,         \* node -> the frames on their way to it
  tx_seq, expected_rx_seq,  \* of each end's FramedSyncTransport
  driver,         \* [at, progressed, steps, result]: replicate_framed
  faults,         \* faults left
  sent, got,      \* history: messages sent to a node, and given to its handler
  hasty           \* history: a receive gave up while a frame was on its way

syncVars == <<held, stream, tx_seq, expected_rx_seq, driver, faults, sent, got, hasty>>

Nodes == {"a", "b"}
Peer(n) == IF n = "a" THEN "b" ELSE "a"
Stocked(set) == [d \in {SnapshotDigest[s] : s \in set} \ {Malformed} |-> CHOOSE s \in set : SnapshotDigest[s] = d]

\* Insert d |-> s, or overwrite it.
With(store, d, s) == [e \in DOMAIN store \cup {d} |-> IF e = d THEN s ELSE store[e]]

-----------------------------------------------------------------------------
\* Mutant of Want: a node asks for what it already has.
WantHeld(n, digests) == {d \in digests : d \in DOMAIN held[n]}

\* SyncNode::handle: the messages a node answers with.
Want(n, digests) == {d \in digests : d \notin DOMAIN held[n]}

SnapshotOrGone(n, d) ==
  IF d \in DOMAIN held[n] THEN [kind |-> "snapshot", digest |-> d, snapshot |-> held[n][d]]
  ELSE [kind |-> "nack", digest |-> d]

\* The digests of a message, in some order.
Listed(digests) == CHOOSE f \in [1 .. Cardinality(digests) -> digests] : \A x, y \in DOMAIN f : x # y => f[x] # f[y]

Verified(msg) == SnapshotDigest[msg.snapshot] # Malformed /\ SnapshotDigest[msg.snapshot] = msg.digest

Answers(n, msg) ==
  CASE msg.kind = "advertise" -> IF Want(n, msg.digests) = {} THEN <<>>
                                 ELSE <<[kind |-> "want", digests |-> Want(n, msg.digests)]>>
    [] msg.kind = "want" -> [x \in 1 .. Cardinality(msg.digests) |-> SnapshotOrGone(n, Listed(msg.digests)[x])]
    [] msg.kind = "snapshot" -> <<[kind |-> IF Verified(msg) THEN "ack" ELSE "nack", digest |-> msg.digest]>>
    [] OTHER -> <<>>

\* ... and its store afterwards: a duplicate leaves it as it was.
StoreAfter(n, msg) ==
  IF msg.kind = "snapshot" /\ Verified(msg) /\ msg.digest \notin DOMAIN held[n]
  THEN With(held[n], msg.digest, msg.snapshot) ELSE held[n]

-----------------------------------------------------------------------------
\* FramedSyncTransport::send of a sequence of messages.
Frames(n, msgs) == [x \in DOMAIN msgs |-> [seq |-> tx_seq[n] + x - 1, msg |-> msgs[x], forged |-> FALSE]]

Send(n, msgs, received) ==
  /\ stream' = [stream EXCEPT ![Peer(n)] = @ \o Frames(n, msgs), ![n] = received]
  /\ tx_seq' = [tx_seq EXCEPT ![n] = @ + Len(msgs)]
  /\ sent' = [sent EXCEPT ![Peer(n)] = @ \o msgs]

\* connect_initiator and accept agree on a session; then a advertises.
SyncInit ==
  \E atA, atB \in SUBSET Snapshots :
    LET advertise == [kind |-> "advertise", digests |-> DOMAIN Stocked(atA)]
    IN  /\ held = [n \in Nodes |-> IF n = "a" THEN Stocked(atA) ELSE Stocked(atB)]
        /\ stream = [n \in Nodes |-> IF n = "b" THEN <<[seq |-> 0, msg |-> advertise, forged |-> FALSE]>> ELSE <<>>]
        /\ tx_seq = [n \in Nodes |-> IF n = "a" THEN 1 ELSE 0]
        /\ expected_rx_seq = [n \in Nodes |-> 0]
        /\ sent = [n \in Nodes |-> IF n = "b" THEN <<advertise>> ELSE <<>>]
        /\ got = [n \in Nodes |-> <<>>]
        /\ driver = [at |-> "b", progressed |-> FALSE, steps |-> 0, result |-> "running"]
        /\ faults = MaxFaults /\ hasty = FALSE

\* One round polls b and then a; a round in which nothing came ends it.
Polled(n, came) ==
  LET some == driver.progressed \/ came
      full == driver.steps + 1 = MaxSteps
  IN  IF n = "b" THEN [driver EXCEPT !.at = "a", !.progressed = came]
      ELSE [driver EXCEPT !.at = "b", !.progressed = FALSE, !.steps = @ + 1,
                          !.result = IF ~some THEN "ok" ELSE IF full THEN "err" ELSE "running"]

Polling(n) == driver.result = "running" /\ driver.at = n

\* Mutant of InOrder: gaps are accepted, only old frames are refused.
InOrderOld(n, frame) == frame.seq >= expected_rx_seq[n]

InOrder(n, frame) == frame.seq = expected_rx_seq[n]

\* recv, verify_frame and the handler, or the error that ends the call.
Receive(n) ==
  /\ Polling(n) /\ stream[n] # <<>>
  /\ LET frame == Head(stream[n])
     IN  IF ~frame.forged /\ InOrder(n, frame)
         THEN /\ held' = [held EXCEPT ![n] = StoreAfter(n, frame.msg)]
              /\ Send(n, Answers(n, frame.msg), Tail(stream[n]))
              /\ got' = [got EXCEPT ![n] = Append(@, frame.msg)]
              /\ expected_rx_seq' = [expected_rx_seq EXCEPT ![n] = frame.seq + 1]
              /\ driver' = Polled(n, TRUE)
         ELSE /\ driver' = [driver EXCEPT !.result = "err"]
              /\ UNCHANGED <<held, stream, tx_seq, expected_rx_seq, sent, got>>
  /\ UNCHANGED <<faults, hasty>>

\* recv_if_ready: nothing within the idle timeout.
NothingReady(n) ==
  /\ Polling(n)
  /\ driver' = Polled(n, FALSE)
  /\ hasty' = (hasty \/ stream[n] # <<>>)
  /\ UNCHANGED <<held, stream, tx_seq, expected_rx_seq, faults, sent, got>>

\* The idle timeout drops recv inside a frame: the bytes read so far are gone
\* and what is left of the frame is taken for the next one.
TornRead(n) ==
  /\ Polling(n) /\ stream[n] # <<>>
  /\ stream' = [stream EXCEPT ![n] = <<[Head(@) EXCEPT !.forged = TRUE]>> \o Tail(@)]
  /\ driver' = Polled(n, FALSE)
  /\ hasty' = TRUE
  /\ UNCHANGED <<held, tx_seq, expected_rx_seq, faults, sent, got>>

\* The network loses, repeats or swaps frames, or changes one.
Fault(n) ==
  /\ driver.result = "running" /\ faults > 0 /\ stream[n] # <<>>
  /\ faults' = faults - 1
  /\ LET s == stream[n]
     IN  \/ stream' = [stream EXCEPT ![n] = Tail(s)]
         \/ stream' = [stream EXCEPT ![n] = <<Head(s)>> \o s]
         \/ stream' = [stream EXCEPT ![n] = <<[Head(s) EXCEPT !.forged = TRUE]>> \o Tail(s)]
         \/ Len(s) > 1 /\ stream' = [stream EXCEPT ![n] = <<s[2], s[1]>> \o SubSeq(s, 3, Len(s))]
  /\ UNCHANGED <<held, tx_seq, expected_rx_seq, driver, sent, got, hasty>>

SyncNext == \E n \in Nodes : Receive(n) \/ NothingReady(n) \/ TornRead(n) \/ Fault(n)

SyncSpec == SyncInit /\ [][SyncNext]_syncVars

-----------------------------------------------------------------------------
\* Whatever happens to the frames, the messages a node handles are the first
\* ones its peer sent, in that order, each once.
DeliveredInOrder ==
  \A n \in Nodes : Len(got[n]) <= Len(sent[n]) /\ got[n] = SubSeq(sent[n], 1, Len(got[n]))

\* A run that ended well left b with every snapshot a has, unless a receive
\* gave up on a frame that was still on its way or the network lost one.
OkMeansReplicated ==
  driver.result = "ok" /\ ~hasty /\ faults = MaxFaults => DOMAIN held["a"] \subseteq DOMAIN held["b"]
=============================================================================
