--------------------------- MODULE ServiceProofs ----------------------------
(***************************************************************************)
(* What is proved of the services a call uses: the timeline, the deadlines *)
(* of the sandbox, and recovery after a failed run (the rate limit of the  *)
(* LLM advice, the race of speculative branches, and the feedback the      *)
(* retry loop gives to instincts).  They share no state.                   *)
(***************************************************************************)
EXTENDS AeonTimeline, SandboxRuns, LlmPolicy, Speculation, RetryLearning,
        FiniteSetTheorems, SequenceTheorems, TLAPS

(***************************************************************************)
(* Delivery to the timeline for any number of tasks, events, attempts and  *)
(* replays.                                                                *)
(*                                                                         *)
(* A chain verifies because the digest a sink carries is that of the last  *)
(* event acknowledged, which AckedChainVerifies does not mention.  That    *)
(* spooled events are accounted for needs what a replay knows of the file: *)
(* all it has read is still there until it rewrites it, and what it has    *)
(* read and not yet dealt with is in its hands.                            *)
(***************************************************************************)
Bodies == [n : Nat, prev : Seq(Nat)]

\* The digest the next event of a chain links to.
EndOf(acked) == IF acked = <<>> THEN <<>> ELSE Digest(acked[Len(acked)].n, acked[Len(acked)].prev)

\* A sink, a task's or a replay's.
SinkOK(s) ==
  /\ s.left \in Seq(Nat) /\ s.last \in Seq(Nat) /\ s.acked \in Seq(Bodies)
  /\ VerifyChain(s.acked) /\ s.last = EndOf(s.acked)

TaskOK(s) ==
  /\ DOMAIN s = {"at", "left", "seen", "handle", "late", "last", "try", "acked", "ok", "spooled"}
  /\ SinkOK(s)
  /\ s.at = "append" => s.handle # 0

ReplayOK(s) ==
  /\ DOMAIN s = {"at", "left", "seen", "retained", "last", "try", "acked", "read"}
  /\ SinkOK(s) /\ s.retained \in Seq(Nat)
  /\ s.at \in {"off", "post", "write"}
  /\ s.at # "post" => s.left = <<>>
  /\ s.at = "off" => s.retained = <<>>

SpoolOK(file) ==
  /\ DOMAIN file = {"inode", "lines"} /\ file.inode \in Nat /\ file.lines \in Seq(Nat)
  /\ file.inode = 0 => file.lines = <<>>

TimelineShape ==
  /\ events \in Seq(STRING) /\ timeline \in Seq(Bodies) /\ inodes \in Nat /\ SpoolOK(spool)
  /\ DOMAIN task = Tasks /\ \A t \in Tasks : TaskOK(task[t])
  /\ ReplayOK(replay) /\ (replay.at = "write" => spool.inode # 0)

InHand == ToSet(replay.retained) \cup ToSet(replay.left)
Settled(n) == Stored(n) # {} \/ n \in InHand \/ n \in DOMAIN excused
Accounted(n) == n \in ToSet(spool.lines) \/ Settled(n)

\* The file has all that a replay read, and the replay has dealt with it or
\* still holds it.
ReplayKnows ==
  replay.at = "post" =>
    /\ InHand \subseteq replay.read /\ replay.read \subseteq ToSet(spool.lines)
    /\ \A n \in replay.read : Settled(n)

AllAccounted ==
  /\ \A n \in promised : Accounted(n)
  /\ \A t \in Tasks : \A n \in task[t].spooled : Accounted(n)

TimelineInv == TimelineShape /\ ReplayKnows /\ AllAccounted

-----------------------------------------------------------------------------
\* Sets of elements of sequences.
LEMMA ToSetEmpty == ToSet(<<>>) = {}
BY DEF ToSet

LEMMA ToSetAppend ==
  ASSUME NEW s \in Seq(Nat), NEW n \in Nat
  PROVE  Append(s, n) \in Seq(Nat) /\ ToSet(Append(s, n)) = ToSet(s) \cup {n}
<1>1. /\ Append(s, n) \in Seq(Nat) /\ DOMAIN Append(s, n) = 1..Len(s) + 1 /\ DOMAIN s = 1..Len(s)
      /\ Len(s) \in Nat /\ Append(s, n)[Len(s) + 1] = n
      /\ \A i \in 1..Len(s) : Append(s, n)[i] = s[i]
  OBVIOUS
<1>2. ASSUME NEW x \in ToSet(Append(s, n)) PROVE x \in ToSet(s) \cup {n}
  <2>1. PICK i \in 1..Len(s) + 1 : x = Append(s, n)[i]
    BY <1>1, <1>2 DEF ToSet
  <2>2. CASE i = Len(s) + 1
    BY <1>1, <2>1, <2>2
  <2>3. CASE i \in 1..Len(s)
    BY <1>1, <2>1, <2>3 DEF ToSet
  <2> QED BY <1>1, <2>1, <2>2, <2>3
<1>3. ASSUME NEW x \in ToSet(s) PROVE x \in ToSet(Append(s, n))
  <2>1. PICK i \in 1..Len(s) : x = s[i]
    BY <1>1, <1>3 DEF ToSet
  <2>2. i \in 1..Len(s) + 1 /\ x = Append(s, n)[i]
    BY <1>1, <2>1
  <2> QED BY <1>1, <2>2 DEF ToSet
<1>4. n \in ToSet(Append(s, n))
  <2>1. Len(s) + 1 \in DOMAIN Append(s, n)
    BY <1>1
  <2> QED BY <1>1, <2>1 DEF ToSet
<1> QED BY <1>1, <1>2, <1>3, <1>4

LEMMA ToSetTail ==
  ASSUME NEW s \in Seq(Nat), s # <<>>
  PROVE  /\ Head(s) \in Nat /\ Tail(s) \in Seq(Nat)
         /\ ToSet(s) = {Head(s)} \cup ToSet(Tail(s))
<1>1. /\ Head(s) \in Nat /\ Tail(s) \in Seq(Nat) /\ Len(s) \in Nat /\ Len(s) >= 1
      /\ Len(Tail(s)) = Len(s) - 1 /\ DOMAIN s = 1..Len(s) /\ DOMAIN Tail(s) = 1..Len(s) - 1
      /\ s[1] = Head(s) /\ \A i \in 1..Len(s) - 1 : Tail(s)[i] = s[i + 1]
  OBVIOUS
<1>2. ASSUME NEW x \in ToSet(s) PROVE x \in {Head(s)} \cup ToSet(Tail(s))
  <2>1. PICK i \in 1..Len(s) : x = s[i]
    BY <1>1, <1>2 DEF ToSet
  <2>2. CASE i = 1
    BY <1>1, <2>1, <2>2
  <2>3. CASE i # 1
    <3>1. i - 1 \in 1..Len(s) - 1 /\ s[i] = Tail(s)[i - 1]
      BY <1>1, <2>3
    <3> QED BY <1>1, <2>1, <3>1 DEF ToSet
  <2> QED BY <2>2, <2>3
<1>3. ASSUME NEW x \in ToSet(Tail(s)) PROVE x \in ToSet(s)
  <2>1. PICK i \in 1..Len(s) - 1 : x = Tail(s)[i]
    BY <1>1, <1>3 DEF ToSet
  <2>2. i + 1 \in 1..Len(s) /\ x = s[i + 1]
    BY <1>1, <2>1
  <2> QED BY <1>1, <2>2 DEF ToSet
<1>4. Head(s) \in ToSet(s)
  <2>1. 1 \in DOMAIN s
    BY <1>1
  <2> QED BY <1>1, <2>1 DEF ToSet
<1> QED BY <1>1, <1>2, <1>3, <1>4

LEMMA ToSetConcat ==
  ASSUME NEW a \in Seq(Nat), NEW b \in Seq(Nat)
  PROVE  a \o b \in Seq(Nat) /\ ToSet(a \o b) = ToSet(a) \cup ToSet(b)
<1>1. /\ a \o b \in Seq(Nat) /\ Len(a) \in Nat /\ Len(b) \in Nat
      /\ DOMAIN a = 1..Len(a) /\ DOMAIN b = 1..Len(b)
  OBVIOUS
<1>2. /\ Len(a \o b) = Len(a) + Len(b)
      /\ \A i \in 1..Len(a) + Len(b) : (a \o b)[i] = IF i <= Len(a) THEN a[i] ELSE b[i - Len(a)]
  BY ConcatProperties
<1>3. DOMAIN (a \o b) = 1..Len(a) + Len(b)
  BY <1>1, <1>2
<1>4. ASSUME NEW x \in ToSet(a \o b) PROVE x \in ToSet(a) \cup ToSet(b)
  <2>1. PICK i \in 1..Len(a) + Len(b) : x = (a \o b)[i]
    BY <1>3, <1>4 DEF ToSet
  <2>2. CASE i <= Len(a)
    <3>1. i \in 1..Len(a) /\ x = a[i]
      BY <1>1, <1>2, <2>1, <2>2
    <3> QED BY <1>1, <3>1 DEF ToSet
  <2>3. CASE ~(i <= Len(a))
    <3>1. i - Len(a) \in 1..Len(b) /\ x = b[i - Len(a)]
      BY <1>1, <1>2, <2>1, <2>3
    <3> QED BY <1>1, <3>1 DEF ToSet
  <2> QED BY <2>2, <2>3
<1>5. ASSUME NEW x \in ToSet(a) PROVE x \in ToSet(a \o b)
  <2>1. PICK i \in 1..Len(a) : x = a[i]
    BY <1>1, <1>5 DEF ToSet
  <2>2. i \in 1..Len(a) + Len(b) /\ x = (a \o b)[i]
    BY <1>1, <1>2, <2>1
  <2> QED BY <1>3, <2>2 DEF ToSet
<1>6. ASSUME NEW x \in ToSet(b) PROVE x \in ToSet(a \o b)
  <2>1. PICK i \in 1..Len(b) : x = b[i]
    BY <1>1, <1>6 DEF ToSet
  <2>2. Len(a) + i \in 1..Len(a) + Len(b) /\ ~(Len(a) + i <= Len(a)) /\ (Len(a) + i) - Len(a) = i
    BY <1>1, <2>1
  <2>3. x = (a \o b)[Len(a) + i]
    BY <1>2, <2>1, <2>2
  <2> QED BY <1>3, <2>2, <2>3 DEF ToSet
<1> QED BY <1>1, <1>4, <1>5, <1>6

\* An event stored on the server stays there.
LEMMA StoreKeeps ==
  ASSUME timeline \in Seq(Bodies), NEW n \in Nat, NEW prev \in Seq(Nat), NEW post, StoreNode(n, prev, post)
  PROVE  /\ timeline' \in Seq(Bodies)
         /\ \A m : Stored(m) # {} => Stored(m)' # {}
         /\ post.stored => Stored(n)' # {}
<1>1. [n |-> n, prev |-> prev] \in Bodies
  BY DEF Bodies
<1>2. CASE ~post.stored
  BY <1>2 DEF StoreNode, Stored
<1>3. CASE post.stored
  <2> DEFINE b == [n |-> n, prev |-> prev]
  <2>1. timeline' = Append(timeline, b) /\ b \in Bodies /\ b.n = n
    BY <1>1, <1>3 DEF StoreNode
  <2> HIDE DEF b
  <2>2. /\ timeline' \in Seq(Bodies) /\ DOMAIN timeline' = 1..Len(timeline) + 1 /\ Len(timeline) \in Nat
        /\ DOMAIN timeline = 1..Len(timeline) /\ timeline'[Len(timeline) + 1] = b
        /\ \A i \in 1..Len(timeline) : timeline'[i] = timeline[i]
    BY <2>1
  <2>3. ASSUME NEW m, Stored(m) # {} PROVE Stored(m)' # {}
    <3>1. PICK i \in 1..Len(timeline) : timeline[i].n = m
      BY <2>2, <2>3 DEF Stored
    <3>2. i \in DOMAIN timeline' /\ timeline'[i].n = m
      BY <2>2, <3>1
    <3> QED BY <3>2 DEF Stored
  <2>4. Stored(n)' # {}
    <3>1. Len(timeline) + 1 \in DOMAIN timeline' /\ timeline'[Len(timeline) + 1].n = n
      BY <2>1, <2>2
    <3> QED BY <3>1 DEF Stored
  <2> QED BY <2>2, <2>3, <2>4
<1> QED BY <1>2, <1>3

LEMMA ExcuseKeeps ==
  ASSUME NEW ns, NEW why, Excuse(ns, why)
  PROVE  DOMAIN excused' = DOMAIN excused \cup ns
BY DEF Excuse

-----------------------------------------------------------------------------
\* record_timeline_event_digest keeps the chain.
LEMMA ChainGrows ==
  ASSUME NEW acked \in Seq(Bodies), VerifyChain(acked), NEW n \in Nat, EndOf(acked) \in Seq(Nat)
  PROVE  LET next == Append(acked, [n |-> n, prev |-> EndOf(acked)])
         IN  /\ next \in Seq(Bodies) /\ VerifyChain(next) /\ EndOf(next) = Digest(n, EndOf(acked))
             /\ Digest(n, EndOf(acked)) \in Seq(Nat)
<1> DEFINE b == [n |-> n, prev |-> EndOf(acked)]
           next == Append(acked, b)
<1>1. b \in Bodies /\ b.n = n /\ b.prev = EndOf(acked)
  BY DEF Bodies
<1> HIDE DEF b
<1>2. /\ next \in Seq(Bodies) /\ Len(acked) \in Nat /\ Len(next) = Len(acked) + 1
      /\ DOMAIN next = 1..Len(acked) + 1 /\ DOMAIN acked = 1..Len(acked)
      /\ next[Len(acked) + 1] = b /\ next # <<>>
      /\ \A i \in 1..Len(acked) : next[i] = acked[i]
  BY <1>1, SMTT(30)
<1> HIDE DEF next
<1>3. EndOf(next) = Digest(n, EndOf(acked))
  BY <1>1, <1>2 DEF EndOf
<1>4. VerifyChain(next)
  <2> SUFFICES ASSUME NEW i \in 1..Len(acked) + 1
               PROVE  next[i].prev = IF i = 1 THEN <<>> ELSE Digest(next[i - 1].n, next[i - 1].prev)
    BY <1>2 DEF VerifyChain
  <2>1. CASE i \in 1..Len(acked)
    <3>1. i # 1 => i - 1 \in 1..Len(acked)
      BY <1>2, <2>1
    <3>2. acked[i].prev = IF i = 1 THEN <<>> ELSE Digest(acked[i - 1].n, acked[i - 1].prev)
      BY <1>2, <2>1 DEF VerifyChain
    <3>3. next[i] = acked[i] /\ (i # 1 => next[i - 1] = acked[i - 1])
      BY <1>2, <2>1, <3>1
    <3> QED BY <3>2, <3>3
  <2>2. CASE i = Len(acked) + 1 /\ acked = <<>>
    <3>1. i = 1 /\ EndOf(acked) = <<>>
      BY <2>2 DEF EndOf
    <3> QED BY <1>1, <1>2, <2>2, <3>1
  <2>3. CASE i = Len(acked) + 1 /\ acked # <<>>
    <3>1. i # 1 /\ i - 1 = Len(acked) /\ Len(acked) \in 1..Len(acked)
      BY <1>2, <2>3
    <3>2. next[i].prev = Digest(acked[Len(acked)].n, acked[Len(acked)].prev)
      BY <1>1, <1>2, <2>3 DEF EndOf
    <3> QED BY <1>2, <3>1, <3>2
  <2> QED BY <1>2, <2>1, <2>2, <2>3
<1>5. Digest(n, EndOf(acked)) \in Seq(Nat)
  BY DEF Digest
<1> QED BY <1>2, <1>3, <1>4, <1>5 DEF next, b

LEMMA EmptySink == VerifyChain(<<>>) /\ EndOf(<<>>) = <<>> /\ <<>> \in Seq(Nat) /\ <<>> \in Seq(Bodies)
BY DEF VerifyChain, EndOf

\* A sink stays one after an attempt: whatever was answered.
LEMMA AfterPostOK ==
  ASSUME NEW s, NEW post, SinkOK(s), {"left", "last", "try", "acked"} \subseteq DOMAIN s, s.left # <<>>
  PROVE  /\ DOMAIN AfterPost(s, post) = DOMAIN s /\ SinkOK(AfterPost(s, post))
         /\ Retries(post, s.try) => AfterPost(s, post).left = s.left
         /\ ~Retries(post, s.try) => AfterPost(s, post).left = Tail(s.left)
         /\ \A f \in DOMAIN s \ {"left", "last", "try", "acked"} : AfterPost(s, post)[f] = s[f]
<1> DEFINE n == Head(s.left)
           r == AfterPost(s, post)
<1>1. n \in Nat /\ Tail(s.left) \in Seq(Nat)
  BY ToSetTail DEF SinkOK
<1>2. CASE Retries(post, s.try)
  <2>1. r = [s EXCEPT !.try = @ + 1]
    BY <1>2 DEF AfterPost
  <2>2. /\ DOMAIN r = DOMAIN s /\ r.left = s.left /\ r.last = s.last /\ r.acked = s.acked
        /\ \A f \in DOMAIN s \ {"left", "last", "try", "acked"} : r[f] = s[f]
    BY <2>1
  <2> HIDE DEF r
  <2>3. SinkOK(r)
    BY <2>2 DEF SinkOK
  <2> QED BY <1>2, <2>2, <2>3 DEF r
<1>3. CASE ~Retries(post, s.try) /\ post.answer = "success"
  <2> DEFINE next == Append(s.acked, [n |-> n, prev |-> s.last])
  <2>1. r = [s EXCEPT !.try = 0, !.left = Tail(@), !.last = Digest(n, s.last), !.acked = next]
    BY <1>3 DEF AfterPost
  <2>2. next \in Seq(Bodies) /\ VerifyChain(next) /\ EndOf(next) = Digest(n, s.last)
        /\ Digest(n, s.last) \in Seq(Nat)
    <3>1. s.acked \in Seq(Bodies) /\ VerifyChain(s.acked) /\ s.last = EndOf(s.acked) /\ s.last \in Seq(Nat)
      BY DEF SinkOK
    <3> QED BY <1>1, <3>1, ChainGrows
  <2> HIDE DEF next, n
  <2>3. /\ DOMAIN r = DOMAIN s /\ r.left = Tail(s.left) /\ r.last = Digest(n, s.last) /\ r.acked = next
        /\ \A f \in DOMAIN s \ {"left", "last", "try", "acked"} : r[f] = s[f]
    BY <2>1
  <2> HIDE DEF r
  <2>4. SinkOK(r)
    BY <1>1, <2>2, <2>3 DEF SinkOK
  <2> QED BY <1>3, <2>3, <2>4 DEF r
<1>4. CASE ~Retries(post, s.try) /\ post.answer # "success"
  <2>1. r = [s EXCEPT !.try = 0, !.left = Tail(@)]
    BY <1>4 DEF AfterPost
  <2>2. /\ DOMAIN r = DOMAIN s /\ r.left = Tail(s.left) /\ r.last = s.last /\ r.acked = s.acked
        /\ \A f \in DOMAIN s \ {"left", "last", "try", "acked"} : r[f] = s[f]
    BY <2>1
  <2> HIDE DEF r
  <2>3. SinkOK(r)
    BY <1>1, <2>2 DEF SinkOK
  <2> QED BY <1>4, <2>2, <2>3 DEF r
<1> QED BY <1>2, <1>3, <1>4

-----------------------------------------------------------------------------
LEMMA NoTaskOK ==
  /\ TaskOK(NoTask) /\ NoTask.spooled = {}
  /\ \A status : status # "append" => TaskOK(Finished(status)) /\ Finished(status).spooled = {}
<1>1. TaskOK(NoTask) /\ NoTask.spooled = {}
  BY EmptySink DEF NoTask, TaskOK, SinkOK
<1>2. ASSUME NEW status, status # "append" PROVE TaskOK(Finished(status)) /\ Finished(status).spooled = {}
  BY <1>2, EmptySink DEF NoTask, Finished, TaskOK, SinkOK
<1> QED BY <1>1, <1>2

LEMMA NoReplayOK ==
  ReplayOK(NoReplay) /\ NoReplay.at = "off" /\ NoReplay.left = <<>> /\ NoReplay.retained = <<>>
BY EmptySink DEF NoReplay, ReplayOK, SinkOK

LEMMA TimelineInitInv == TimelineInit => TimelineInv
<1> SUFFICES ASSUME TimelineInit PROVE TimelineInv
  OBVIOUS
<1>1. \A t \in Tasks : task[t] = NoTask
  BY DEF TimelineInit
<1>2. SpoolOK(spool) /\ <<>> \in Seq(STRING)
  BY DEF TimelineInit, NoFile, SpoolOK
<1>3. TimelineShape
  BY <1>1, <1>2, NoTaskOK, NoReplayOK, EmptySink DEF TimelineInit, TimelineShape
<1>4. ReplayKnows
  BY NoReplayOK DEF TimelineInit, ReplayKnows
<1>5. AllAccounted
  BY <1>1, NoTaskOK DEF TimelineInit, AllAccounted
<1> QED BY <1>3, <1>4, <1>5 DEF TimelineInv

\* A step of a task: it adds to the file, the timeline and the excuses, and
\* answers for what it says it spooled.
LEMMA TaskStep ==
  ASSUME TimelineInv, NEW t \in Tasks, NEW s, task' = [task EXCEPT ![t] = s], TaskOK(s),
         replay' = replay, events' \in Seq(STRING), timeline' \in Seq(Bodies), inodes' \in Nat,
         SpoolOK(spool'), spool.inode # 0 => spool'.inode # 0,
         ToSet(spool.lines) \subseteq ToSet(spool'.lines), DOMAIN excused \subseteq DOMAIN excused',
         \A m : Stored(m) # {} => Stored(m)' # {},
         \A n \in s.spooled : n \in task[t].spooled \/ Accounted(n)',
         promised' \subseteq promised \cup task[t].spooled
  PROVE  TimelineInv'
<1>1. \A u \in Tasks : task'[u] = IF u = t THEN s ELSE task[u]
  BY DEF TimelineInv, TimelineShape
<1>2. TimelineShape'
  BY <1>1 DEF TimelineInv, TimelineShape
<1>3. InHand' = InHand
  BY DEF InHand
<1>4. \A n : (Settled(n) => Settled(n)') /\ (Accounted(n) => Accounted(n)')
  BY <1>3 DEF Settled, Accounted
<1>5. ReplayKnows'
  BY <1>3, <1>4 DEF TimelineInv, ReplayKnows
<1>6. AllAccounted'
  BY <1>1, <1>4 DEF TimelineInv, AllAccounted
<1> QED BY <1>2, <1>5, <1>6 DEF TimelineInv

\* A step of the replaying process.
LEMMA ReplayStep ==
  ASSUME TimelineInv, UNCHANGED <<task, events, promised>>, timeline' \in Seq(Bodies), inodes' \in Nat,
         SpoolOK(spool'), ReplayOK(replay'), replay'.at = "write" => spool'.inode # 0,
         ReplayKnows', \A n : Accounted(n) => Accounted(n)'
  PROVE  TimelineInv'
<1>1. TimelineShape'
  BY DEF TimelineInv, TimelineShape
<1>2. AllAccounted'
  BY DEF TimelineInv, AllAccounted
<1> QED BY <1>1, <1>2 DEF TimelineInv

-----------------------------------------------------------------------------
LEMMA QueueStep ==
  ASSUME TimelineInv, NEW t \in Tasks, Queue(t)
  PROVE  TimelineInv'
<1> DEFINE d == task[t]
<1>1. PICK kinds \in Kinds, mode \in {"online", "offline"} :
        /\ events' = events \o kinds
        /\ task' = [task EXCEPT ![t].left = [i \in DOMAIN kinds |-> Len(events) + i],
                                ![t].at = IF mode = "online" THEN "post" ELSE "ids"]
  BY DEF Queue
<1> DEFINE left == [i \in DOMAIN kinds |-> Len(events) + i]
           at == IF mode = "online" THEN "post" ELSE "ids"
           s == [d EXCEPT !.left = left, !.at = at]
<1>2. TaskOK(d) /\ events \in Seq(STRING) /\ kinds \in Seq(STRING) /\ timeline \in Seq(Bodies)
      /\ inodes \in Nat /\ SpoolOK(spool) /\ DOMAIN task = Tasks
  BY TimelineBounds DEF TimelineInv, TimelineShape
<1>3. left \in Seq(Nat)
  <2>1. DOMAIN kinds = 1..Len(kinds) /\ Len(kinds) \in Nat /\ Len(events) \in Nat
    BY <1>2
  <2>2. left \in [1..Len(kinds) -> Nat]
    BY <2>1
  <2> QED BY <2>1, <2>2
<1>4. events' \in Seq(STRING)
  BY <1>1, <1>2
<1>5. task' = [task EXCEPT ![t] = s]
  BY <1>1
<1> HIDE DEF left
<1>6. /\ DOMAIN s = DOMAIN d /\ s.left = left /\ s.at = at /\ s.last = d.last /\ s.acked = d.acked
      /\ s.spooled = d.spooled /\ at # "append"
  BY <1>2 DEF TaskOK
<1> HIDE DEF s, at
<1>7. TaskOK(s)
  BY <1>2, <1>3, <1>6 DEF TaskOK, SinkOK
<1>8. UNCHANGED <<spool, inodes, replay, replays, timeline, promised, excused>>
  BY DEF Queue
<1>9. \A m : Stored(m)' = Stored(m)
  BY <1>8 DEF Stored
<1> QED BY <1>2, <1>4, <1>5, <1>6, <1>7, <1>8, <1>9, TaskStep

LEMMA PostStep ==
  ASSUME TimelineInv, NEW t \in Tasks, Post(t)
  PROVE  TimelineInv'
<1> DEFINE d == task[t]
           n == Head(d.left)
<1>1. TaskOK(d) /\ events \in Seq(STRING) /\ timeline \in Seq(Bodies)
      /\ inodes \in Nat /\ SpoolOK(spool) /\ DOMAIN task = Tasks
  BY DEF TimelineInv, TimelineShape
<1>2. SinkOK(d) /\ d.left # <<>> /\ {"left", "last", "try", "acked"} \subseteq DOMAIN d
  BY <1>1 DEF TaskOK, Post
<1>3. PICK post \in Posts :
        /\ StoreNode(n, d.last, post) /\ ExcuseLostAnswer(n, post)
        /\ task' = [task EXCEPT ![t] =
             [AfterPost(d, post) EXCEPT !.ok = @ /\ (post.answer = "success" \/ Retries(post, d.try))]]
  BY DEF Post
<1> DEFINE r == AfterPost(d, post)
           s == [r EXCEPT !.ok = @ /\ (post.answer = "success" \/ Retries(post, d.try))]
<1>4. /\ DOMAIN r = DOMAIN d /\ SinkOK(r)
      /\ \A f \in DOMAIN d \ {"left", "last", "try", "acked"} : r[f] = d[f]
  BY <1>2, AfterPostOK
<1>5. r.at = d.at /\ r.handle = d.handle /\ r.spooled = d.spooled
  BY <1>1, <1>4 DEF TaskOK
<1>6. task' = [task EXCEPT ![t] = s]
  BY <1>3
<1> HIDE DEF r
<1>7. /\ DOMAIN s = DOMAIN r /\ s.left = r.left /\ s.at = r.at /\ s.last = r.last /\ s.acked = r.acked
      /\ s.spooled = r.spooled /\ s.handle = r.handle
  BY <1>1, <1>4 DEF TaskOK
<1> HIDE DEF s
<1>8. TaskOK(s) /\ s.spooled = d.spooled
  BY <1>1, <1>4, <1>5, <1>7 DEF TaskOK, SinkOK
<1>9. n \in Nat /\ d.last \in Seq(Nat)
  BY <1>2, ToSetTail DEF SinkOK
<1> HIDE DEF n
<1>10. timeline' \in Seq(Bodies) /\ \A m : Stored(m) # {} => Stored(m)' # {}
  BY <1>1, <1>3, <1>9, StoreKeeps
<1>11. DOMAIN excused \subseteq DOMAIN excused'
  BY <1>3, ExcuseKeeps DEF ExcuseLostAnswer
<1>12. UNCHANGED <<events, spool, inodes, replay, replays, promised>>
  BY DEF Post
<1> QED BY <1>1, <1>6, <1>8, <1>10, <1>11, <1>12, TaskStep

\* The end of a delivery, and the steps before the first record.
LEMMA EndOrOpen ==
  ASSUME TimelineInv, NEW t \in Tasks, Delivered(t) \/ ReadIds(t) \/ OpenSpool(t) \/ Flush(t)
  PROVE  TimelineInv'
<1> DEFINE d == task[t]
<1>1. TaskOK(d) /\ events' \in Seq(STRING) /\ timeline' \in Seq(Bodies)
      /\ inodes \in Nat /\ SpoolOK(spool) /\ DOMAIN task = Tasks /\ replay' = replay
      /\ DOMAIN excused' = DOMAIN excused /\ timeline' = timeline
  BY DEF TimelineInv, TimelineShape, Delivered, ReadIds, OpenSpool, Flush
<1>2. \A m : Stored(m)' = Stored(m)
  BY <1>1 DEF Stored
<1>3. CASE Delivered(t)
  <2> DEFINE status == IF d.ok THEN "delivered" ELSE "failed"
  <2>1. task' = [task EXCEPT ![t] = Finished(status)] /\ status # "append"
        /\ UNCHANGED <<spool, inodes, promised>>
    BY <1>3 DEF Delivered
  <2> HIDE DEF status
  <2> QED BY <1>1, <1>2, <2>1, NoTaskOK, TaskStep
<1>4. CASE ReadIds(t)
  <2> DEFINE s == [d EXCEPT !.seen = IdsIn(spool.lines), !.at = "open"]
  <2>1. task' = [task EXCEPT ![t] = s] /\ UNCHANGED <<spool, inodes, promised>>
    BY <1>4 DEF ReadIds
  <2>2. DOMAIN s = DOMAIN d /\ s.left = d.left /\ s.at = "open" /\ s.last = d.last /\ s.acked = d.acked
        /\ s.spooled = d.spooled
    BY <1>1 DEF TaskOK
  <2> HIDE DEF s
  <2>3. TaskOK(s)
    BY <1>1, <2>2 DEF TaskOK, SinkOK
  <2> QED BY <1>1, <1>2, <2>1, <2>2, <2>3, TaskStep
<1>5. CASE OpenSpool(t) /\ task' = [task EXCEPT ![t] = Finished("failed")] /\ UNCHANGED <<spool, inodes>>
  <2>1. UNCHANGED promised
    BY <1>5 DEF OpenSpool
  <2> QED BY <1>1, <1>2, <1>5, <2>1, NoTaskOK, TaskStep
<1>6. CASE /\ OpenSpool(t)
           /\ spool' = IF spool.inode = 0 THEN [inode |-> inodes + 1, lines |-> <<>>] ELSE spool
           /\ inodes' = IF spool.inode = 0 THEN inodes + 1 ELSE inodes
           /\ task' = [task EXCEPT ![t].handle = spool'.inode, ![t].at = "append"]
  <2> DEFINE s == [d EXCEPT !.handle = spool'.inode, !.at = "append"]
  <2>1. task' = [task EXCEPT ![t] = s] /\ UNCHANGED promised
    BY <1>6 DEF OpenSpool
  <2>2. SpoolOK(spool') /\ spool'.inode # 0 /\ spool'.lines = spool.lines /\ inodes' \in Nat
    BY <1>1, <1>6, EmptySink DEF SpoolOK
  <2>3. DOMAIN s = DOMAIN d /\ s.left = d.left /\ s.handle = spool'.inode /\ s.last = d.last
        /\ s.acked = d.acked /\ s.spooled = d.spooled
    BY <1>1 DEF TaskOK
  <2> HIDE DEF s
  <2>4. TaskOK(s)
    BY <1>1, <2>2, <2>3 DEF TaskOK, SinkOK
  <2> QED BY <1>1, <1>2, <2>1, <2>2, <2>3, <2>4, TaskStep
<1>7. CASE Flush(t)
  <2>1. task' = [task EXCEPT ![t] = Finished("spooled")] /\ promised' = promised \cup d.spooled
        /\ UNCHANGED <<spool, inodes>>
    BY <1>7 DEF Flush
  <2> QED BY <1>1, <1>2, <2>1, NoTaskOK, TaskStep
<1> QED BY <1>3, <1>4, <1>5, <1>6, <1>7 DEF OpenSpool

LEMMA AppendStep ==
  ASSUME TimelineInv, NEW t \in Tasks, AppendRecord(t)
  PROVE  TimelineInv'
<1> DEFINE d == task[t]
<1>0. PICK n : n = Head(d.left)
  OBVIOUS
<1> DEFINE next == [d EXCEPT !.left = Tail(@), !.seen = @ \cup {EventId(n)}, !.spooled = @ \cup {n}]
           tardy == [next EXCEPT !.late = TRUE]
<1>1. TaskOK(d) /\ events' \in Seq(STRING) /\ timeline' \in Seq(Bodies)
      /\ inodes' \in Nat /\ SpoolOK(spool) /\ DOMAIN task = Tasks /\ replay' = replay
      /\ timeline' = timeline /\ promised' = promised /\ d.at = "append" /\ d.left # <<>>
  BY DEF TimelineInv, TimelineShape, AppendRecord
<1>2. \A m : Stored(m)' = Stored(m)
  BY <1>1 DEF Stored
<1>3. n \in Nat /\ Tail(d.left) \in Seq(Nat)
  BY <1>0, <1>1, ToSetTail DEF TaskOK, SinkOK
<1>4. \/ task' = [task EXCEPT ![t] = next] /\ Excuse({n}, "twin") /\ UNCHANGED spool
      \/ task' = [task EXCEPT ![t] = Finished("failed")] /\ UNCHANGED <<spool, excused>>
      \/ /\ task' = [task EXCEPT ![t] = next] /\ d.handle = spool.inode
         /\ spool' = [spool EXCEPT !.lines = Append(@, n)] /\ UNCHANGED excused
      \/ task' = [task EXCEPT ![t] = next] /\ Excuse({n}, "unlinked") /\ UNCHANGED spool
      \/ task' = [task EXCEPT ![t] = tardy] /\ Excuse({n}, "write_failed") /\ UNCHANGED spool
  BY <1>0, Zenon DEF AppendRecord
<1>5. ASSUME NEW s, s = next \/ s = tardy
      PROVE  TaskOK(s) /\ s.spooled = d.spooled \cup {n}
  <2>1. /\ DOMAIN next = DOMAIN d /\ next.left = Tail(d.left) /\ next.handle = d.handle /\ next.at = d.at
        /\ next.last = d.last /\ next.acked = d.acked /\ next.spooled = d.spooled \cup {n}
    BY <1>1 DEF TaskOK
  <2> HIDE DEF next
  <2>2. /\ DOMAIN tardy = DOMAIN next /\ tardy.left = next.left /\ tardy.handle = next.handle
        /\ tardy.at = next.at /\ tardy.last = next.last /\ tardy.acked = next.acked
        /\ tardy.spooled = next.spooled
    BY <1>1, <2>1 DEF TaskOK
  <2> HIDE DEF tardy
  <2> QED BY <1>1, <1>3, <1>5, <2>1, <2>2 DEF TaskOK, SinkOK
<1>6. CASE \/ task' = [task EXCEPT ![t] = next] /\ Excuse({n}, "twin") /\ UNCHANGED spool
           \/ task' = [task EXCEPT ![t] = next] /\ Excuse({n}, "unlinked") /\ UNCHANGED spool
           \/ task' = [task EXCEPT ![t] = tardy] /\ Excuse({n}, "write_failed") /\ UNCHANGED spool
  <2>1. PICK s : (s = next \/ s = tardy) /\ task' = [task EXCEPT ![t] = s]
    BY <1>6
  <2>2. TaskOK(s) /\ s.spooled = d.spooled \cup {n}
    BY <1>5, <2>1
  <2>3. UNCHANGED spool /\ DOMAIN excused' = DOMAIN excused \cup {n}
    BY <1>6, ExcuseKeeps
  <2>4. Accounted(n)'
    BY <2>3 DEF Accounted, Settled
  <2> HIDE DEF next, tardy
  <2> QED BY <1>1, <1>2, <2>1, <2>2, <2>3, <2>4, TaskStep
<1>7. CASE task' = [task EXCEPT ![t] = Finished("failed")] /\ UNCHANGED <<spool, excused>>
  BY <1>1, <1>2, <1>7, NoTaskOK, TaskStep
<1>8. CASE /\ task' = [task EXCEPT ![t] = next] /\ d.handle = spool.inode
           /\ spool' = [spool EXCEPT !.lines = Append(@, n)] /\ UNCHANGED excused
  <2>1. TaskOK(next) /\ next.spooled = d.spooled \cup {n}
    BY <1>5
  <2>2. spool.inode # 0 /\ spool.lines \in Seq(Nat)
    BY <1>1, <1>8 DEF TaskOK, SpoolOK
  <2>3. Append(spool.lines, n) \in Seq(Nat) /\ ToSet(Append(spool.lines, n)) = ToSet(spool.lines) \cup {n}
    BY <1>3, <2>2, ToSetAppend
  <2>4. /\ DOMAIN spool' = DOMAIN spool /\ spool'.inode = spool.inode
        /\ spool'.lines = Append(spool.lines, n)
    BY <1>1, <1>8 DEF SpoolOK
  <2>5. SpoolOK(spool')
    BY <1>1, <2>2, <2>3, <2>4 DEF SpoolOK
  <2>6. Accounted(n)'
    BY <2>3, <2>4 DEF Accounted
  <2> HIDE DEF next
  <2> QED BY <1>1, <1>2, <1>8, <2>1, <2>2, <2>3, <2>4, <2>5, <2>6, TaskStep
<1> QED BY <1>4, <1>6, <1>7, <1>8

-----------------------------------------------------------------------------
\* The replay's own steps before the rewrite: one record is dealt with.
LEMMA ReplayReads ==
  ASSUME TimelineInv, ReplayRead
  PROVE  TimelineInv'
<1>1. /\ timeline' \in Seq(Bodies) /\ inodes' \in Nat /\ SpoolOK(spool) /\ ReplayOK(replay)
      /\ UNCHANGED <<task, events, promised, spool, timeline, excused>> /\ replay.at = "off"
      /\ replay' = [NoReplay EXCEPT !.at = "post", !.left = spool.lines, !.read = ToSet(spool.lines)]
  BY DEF TimelineInv, TimelineShape, ReplayRead
<1>2. /\ DOMAIN replay' = DOMAIN NoReplay /\ replay'.at = "post" /\ replay'.left = spool.lines
      /\ replay'.read = ToSet(spool.lines) /\ replay'.retained = <<>> /\ replay'.last = NoReplay.last
      /\ replay'.acked = NoReplay.acked
  BY <1>1 DEF NoReplay
<1>3. ReplayOK(replay')
  BY <1>1, <1>2, NoReplayOK, EmptySink DEF ReplayOK, SinkOK, SpoolOK
<1>4. InHand' = ToSet(spool.lines) /\ InHand = {}
  BY <1>1, <1>2, ToSetEmpty DEF InHand, ReplayOK
<1>5. ReplayKnows'
  BY <1>1, <1>2, <1>4 DEF ReplayKnows, Settled
<1>6. \A m : Stored(m)' = Stored(m)
  BY <1>1 DEF Stored
<1>7. \A n : Accounted(n) => Accounted(n)'
  BY <1>1, <1>4, <1>6 DEF Accounted, Settled
<1> QED BY <1>1, <1>2, <1>3, <1>5, <1>7, ReplayStep

\* The replay works on with the file as it is: a record that leaves its hands
\* is on the server or excused.
LEMMA ReplayWorks ==
  ASSUME TimelineInv, UNCHANGED <<task, events, promised, spool, inodes>>, timeline' \in Seq(Bodies),
         replay.at = "post", replay'.at = "post", replay'.read = replay.read, ReplayOK(replay'),
         DOMAIN excused \subseteq DOMAIN excused', \A m : Stored(m) # {} => Stored(m)' # {},
         InHand' \subseteq InHand,
         \A n \in InHand \ InHand' : Stored(n)' # {} \/ n \in DOMAIN excused'
  PROVE  TimelineInv'
<1>1. \A n : (Settled(n) => Settled(n)') /\ (Accounted(n) => Accounted(n)')
  BY DEF Settled, Accounted
<1>2. ReplayKnows'
  BY <1>1 DEF TimelineInv, ReplayKnows
<1>3. inodes' \in Nat /\ SpoolOK(spool')
  BY DEF TimelineInv, TimelineShape
<1> QED BY <1>1, <1>2, <1>3, ReplayStep

LEMMA ReplaySkips ==
  ASSUME TimelineInv, ReplaySkip
  PROVE  TimelineInv'
<1> DEFINE n == Head(replay.left)
<1>1. /\ timeline' \in Seq(Bodies) /\ ReplayOK(replay) /\ replay.left # <<>> /\ replay.at = "post"
      /\ UNCHANGED <<task, events, promised, spool, inodes, timeline, excused>>
      /\ replay' = [replay EXCEPT !.left = Tail(@), !.retained = Append(@, n)]
  BY DEF TimelineInv, TimelineShape, ReplaySkip
<1>2. n \in Nat /\ Tail(replay.left) \in Seq(Nat) /\ ToSet(replay.left) = {n} \cup ToSet(Tail(replay.left))
  BY <1>1, ToSetTail DEF ReplayOK, SinkOK
<1> HIDE DEF n
<1>3. Append(replay.retained, n) \in Seq(Nat)
      /\ ToSet(Append(replay.retained, n)) = ToSet(replay.retained) \cup {n}
  BY <1>1, <1>2, ToSetAppend DEF ReplayOK
<1>4. /\ DOMAIN replay' = DOMAIN replay /\ replay'.at = replay.at /\ replay'.left = Tail(replay.left)
      /\ replay'.read = replay.read /\ replay'.retained = Append(replay.retained, n)
      /\ replay'.last = replay.last /\ replay'.acked = replay.acked
  BY <1>1 DEF ReplayOK
<1>5. ReplayOK(replay')
  BY <1>1, <1>2, <1>3, <1>4 DEF ReplayOK, SinkOK
<1>6. InHand' = InHand
  BY <1>2, <1>3, <1>4 DEF InHand
<1>7. \A m : Stored(m)' = Stored(m)
  BY <1>1 DEF Stored
<1> QED BY <1>1, <1>4, <1>5, <1>6, <1>7, ReplayWorks

LEMMA ReplayDrops ==
  ASSUME TimelineInv, ReplayDrop
  PROVE  TimelineInv'
<1> DEFINE n == Head(replay.left)
<1>1. /\ timeline' \in Seq(Bodies) /\ ReplayOK(replay) /\ replay.left # <<>> /\ replay.at = "post"
      /\ UNCHANGED <<task, events, promised, spool, inodes, timeline>> /\ Excuse({n}, "twin")
      /\ replay' = [replay EXCEPT !.left = Tail(@)]
  BY DEF TimelineInv, TimelineShape, ReplayDrop
<1>2. n \in Nat /\ Tail(replay.left) \in Seq(Nat) /\ ToSet(replay.left) = {n} \cup ToSet(Tail(replay.left))
  BY <1>1, ToSetTail DEF ReplayOK, SinkOK
<1> HIDE DEF n
<1>3. DOMAIN excused' = DOMAIN excused \cup {n}
  BY <1>1, ExcuseKeeps
<1>4. /\ DOMAIN replay' = DOMAIN replay /\ replay'.at = replay.at /\ replay'.left = Tail(replay.left)
      /\ replay'.read = replay.read /\ replay'.retained = replay.retained
      /\ replay'.last = replay.last /\ replay'.acked = replay.acked
  BY <1>1 DEF ReplayOK
<1>5. ReplayOK(replay')
  BY <1>1, <1>2, <1>4 DEF ReplayOK, SinkOK
<1>6. InHand' \subseteq InHand /\ InHand \ InHand' \subseteq {n}
  BY <1>2, <1>4 DEF InHand
<1>7. \A m : Stored(m)' = Stored(m)
  BY <1>1 DEF Stored
<1> QED BY <1>1, <1>3, <1>4, <1>5, <1>6, <1>7, ReplayWorks

LEMMA ReplayPosts ==
  ASSUME TimelineInv, ReplayPost
  PROVE  TimelineInv'
<1>0. PICK n : n = Head(replay.left)
  OBVIOUS
<1>1. /\ timeline \in Seq(Bodies) /\ ReplayOK(replay) /\ replay.left # <<>> /\ replay.at = "post"
      /\ UNCHANGED <<task, events, promised, spool, inodes>>
  BY DEF TimelineInv, TimelineShape, ReplayPost
<1>2. PICK post \in Posts :
        /\ StoreNode(n, replay.last, post) /\ ExcuseLostAnswer(n, post)
        /\ replay' = [AfterPost(replay, post) EXCEPT
             !.seen = @ \cup {EventId(n)},
             !.retained = IF post.answer = "success" \/ Retries(post, replay.try) THEN @
                          ELSE Retain(n, @)]
  BY <1>0 DEF ReplayPost
<1>3. n \in Nat /\ Tail(replay.left) \in Seq(Nat) /\ ToSet(replay.left) = {n} \cup ToSet(Tail(replay.left))
  BY <1>0, <1>1, ToSetTail DEF ReplayOK, SinkOK
<1> DEFINE r == AfterPost(replay, post)
<1>4. /\ DOMAIN r = DOMAIN replay /\ SinkOK(r)
      /\ Retries(post, replay.try) => r.left = replay.left
      /\ ~Retries(post, replay.try) => r.left = Tail(replay.left)
      /\ \A f \in DOMAIN replay \ {"left", "last", "try", "acked"} : r[f] = replay[f]
  <2>1. SinkOK(replay) /\ {"left", "last", "try", "acked"} \subseteq DOMAIN replay
    BY <1>1 DEF ReplayOK
  <2> QED BY <1>1, <2>1, AfterPostOK
<1>5. r.at = "post" /\ r.read = replay.read /\ r.retained = replay.retained
  BY <1>1, <1>4 DEF ReplayOK
<1> DEFINE kept == IF post.answer = "success" \/ Retries(post, replay.try) THEN r.retained
                   ELSE Retain(n, r.retained)
<1>6. replay' = [r EXCEPT !.seen = @ \cup {EventId(n)}, !.retained = kept]
  BY <1>2
<1> HIDE DEF r
<1>7. /\ DOMAIN replay' = DOMAIN r /\ replay'.at = r.at /\ replay'.left = r.left
      /\ replay'.read = r.read /\ replay'.retained = kept
      /\ replay'.last = r.last /\ replay'.acked = r.acked
  BY <1>1, <1>4, <1>6 DEF ReplayOK
<1>8. Append(replay.retained, n) \in Seq(Nat)
      /\ ToSet(Append(replay.retained, n)) = ToSet(replay.retained) \cup {n}
  BY <1>1, <1>3, ToSetAppend DEF ReplayOK
<1>9. replay.retained \in Seq(Nat) /\ replay.last \in Seq(Nat)
  BY <1>1 DEF ReplayOK, SinkOK
<1>10. \/ kept = replay.retained /\ Retries(post, replay.try)
       \/ kept = replay.retained /\ ~Retries(post, replay.try) /\ post.answer = "success"
       \/ kept = Append(replay.retained, n) /\ ~Retries(post, replay.try)
  BY <1>5 DEF Retain
<1> HIDE DEF kept
<1>11. ReplayOK(replay')
  <2>1. kept \in Seq(Nat)
    BY <1>8, <1>9, <1>10
  <2> QED BY <1>1, <1>4, <1>5, <1>7, <2>1 DEF ReplayOK, SinkOK
<1>12. /\ timeline' \in Seq(Bodies) /\ \A m : Stored(m) # {} => Stored(m)' # {}
       /\ post.stored => Stored(n)' # {}
  BY <1>1, <1>2, <1>3, <1>9, StoreKeeps
<1>13. DOMAIN excused \subseteq DOMAIN excused'
  BY <1>2, ExcuseKeeps DEF ExcuseLostAnswer
<1>14. post.answer = "success" => post.stored
  BY DEF Posts
<1>15. InHand' \subseteq InHand /\ (InHand \ InHand' = {} \/ (InHand \ InHand' \subseteq {n} /\ Stored(n)' # {}))
  <2>1. InHand = ToSet(replay.retained) \cup ToSet(replay.left) /\ InHand' = ToSet(kept) \cup ToSet(r.left)
    BY <1>7 DEF InHand
  <2>2. CASE kept = replay.retained /\ Retries(post, replay.try)
    BY <1>4, <2>1, <2>2
  <2>3. CASE kept = replay.retained /\ ~Retries(post, replay.try) /\ post.answer = "success"
    BY <1>3, <1>4, <1>12, <1>14, <2>1, <2>3
  <2>4. CASE kept = Append(replay.retained, n) /\ ~Retries(post, replay.try)
    BY <1>3, <1>4, <1>8, <2>1, <2>4
  <2> QED BY <1>10, <2>2, <2>3, <2>4
<1> QED BY <1>1, <1>5, <1>7, <1>11, <1>12, <1>13, <1>15, ReplayWorks

-----------------------------------------------------------------------------
\* rewrite_spool, removing or truncating: what the file loses was read and
\* settled, or is excused.
LEMMA RewriteBegins ==
  ASSUME TimelineInv, RewriteRemoves \/ RewriteTruncates
  PROVE  TimelineInv'
<1>1. /\ timeline' \in Seq(Bodies) /\ inodes \in Nat /\ SpoolOK(spool) /\ ReplayOK(replay)
      /\ UNCHANGED <<task, events, promised, timeline>> /\ Excuse(Clobbered, "clobbered")
      /\ replay.at = "post" /\ replay.left = <<>> /\ ReplayKnows
  BY DEF TimelineInv, TimelineShape, RewriteRemoves, RewriteTruncates
<1>2. DOMAIN excused' = DOMAIN excused \cup (ToSet(spool.lines) \ replay.read)
  BY <1>1, ExcuseKeeps DEF Clobbered
<1>3. \A m : Stored(m)' = Stored(m)
  BY <1>1 DEF Stored
<1>4. \A n : Accounted(n) => Stored(n)' # {} \/ n \in InHand \/ n \in DOMAIN excused'
  BY <1>1, <1>2, <1>3 DEF Accounted, Settled, ReplayKnows
<1>5. CASE RewriteRemoves
  <2>1. replay' = NoReplay /\ spool' = NoFile /\ inodes' = inodes /\ replay.retained = <<>>
    BY <1>5 DEF RewriteRemoves
  <2>2. InHand = {}
    BY <1>1, <2>1, ToSetEmpty DEF InHand
  <2>3. SpoolOK(spool')
    BY <2>1, EmptySink DEF NoFile, SpoolOK
  <2>4. ReplayKnows' /\ \A n : Accounted(n) => Accounted(n)'
    BY <1>4, <2>1, <2>2, NoReplayOK DEF ReplayKnows, Accounted, Settled
  <2> QED BY <1>1, <2>1, <2>3, <2>4, NoReplayOK, ReplayStep
<1>6. CASE RewriteTruncates
  <2>1. /\ spool' = IF spool.inode = 0 THEN [inode |-> inodes + 1, lines |-> <<>>]
                    ELSE [spool EXCEPT !.lines = <<>>]
        /\ inodes' = IF spool.inode = 0 THEN inodes + 1 ELSE inodes
        /\ replay' = [replay EXCEPT !.at = "write"]
    BY <1>6 DEF RewriteTruncates
  <2>2. SpoolOK(spool') /\ spool'.inode # 0 /\ inodes' \in Nat
    BY <1>1, <2>1, EmptySink DEF SpoolOK
  <2>3. /\ DOMAIN replay' = DOMAIN replay /\ replay'.at = "write" /\ replay'.left = replay.left
        /\ replay'.read = replay.read /\ replay'.retained = replay.retained
        /\ replay'.last = replay.last /\ replay'.acked = replay.acked
    BY <1>1, <2>1 DEF ReplayOK
  <2>4. ReplayOK(replay')
    BY <1>1, <2>3 DEF ReplayOK, SinkOK
  <2>5. InHand' = InHand
    BY <2>3 DEF InHand
  <2>6. ReplayKnows' /\ \A n : Accounted(n) => Accounted(n)'
    BY <1>4, <2>3, <2>5 DEF ReplayKnows, Accounted, Settled
  <2> QED BY <1>1, <2>2, <2>4, <2>6, ReplayStep
<1> QED BY <1>5, <1>6

\* The retained records are written, over as many as were appended meanwhile.
LEMMA RewriteEnds ==
  ASSUME TimelineInv, RewriteWrites
  PROVE  TimelineInv'
<1> DEFINE beyond == SubSeq(spool.lines, Len(replay.retained) + 1, Len(spool.lines))
<1>1. /\ timeline' \in Seq(Bodies) /\ inodes' \in Nat /\ SpoolOK(spool) /\ ReplayOK(replay)
      /\ UNCHANGED <<task, events, promised, timeline>> /\ replay.at = "write" /\ spool.inode # 0
      /\ replay' = NoReplay /\ Excuse(ToSet(spool.lines) \ ToSet(beyond), "clobbered")
      /\ spool' = [spool EXCEPT !.lines = replay.retained \o beyond]
  BY DEF TimelineInv, TimelineShape, RewriteWrites
<1>2. replay.retained \in Seq(Nat) /\ spool.lines \in Seq(Nat) /\ replay.left = <<>>
  BY <1>1 DEF ReplayOK, SpoolOK
<1>3. beyond \in Seq(Nat)
  <2>1. Len(replay.retained) \in Nat /\ Len(spool.lines) \in Nat
    BY <1>2
  <2>2. \A i \in (Len(replay.retained) + 1)..Len(spool.lines) : i \in 1..Len(spool.lines)
    BY <2>1
  <2> QED BY <1>2, <2>1, <2>2, SubSeqProperties
<1> HIDE DEF beyond
<1>4. replay.retained \o beyond \in Seq(Nat)
      /\ ToSet(replay.retained \o beyond) = ToSet(replay.retained) \cup ToSet(beyond)
  BY <1>2, <1>3, ToSetConcat
<1>5. /\ DOMAIN spool' = DOMAIN spool /\ spool'.inode = spool.inode
      /\ spool'.lines = replay.retained \o beyond
  BY <1>1 DEF SpoolOK
<1>6. SpoolOK(spool')
  BY <1>1, <1>4, <1>5 DEF SpoolOK
<1>7. DOMAIN excused' = DOMAIN excused \cup (ToSet(spool.lines) \ ToSet(beyond))
  BY <1>1, ExcuseKeeps
<1>8. \A m : Stored(m)' = Stored(m)
  BY <1>1 DEF Stored
<1>9. InHand = ToSet(replay.retained)
  BY <1>2, ToSetEmpty DEF InHand
<1>10. \A n : Accounted(n) => Accounted(n)'
  BY <1>4, <1>5, <1>7, <1>8, <1>9 DEF Accounted, Settled
<1>11. ReplayKnows'
  BY <1>1, NoReplayOK DEF ReplayKnows
<1> QED BY <1>1, <1>6, <1>10, <1>11, NoReplayOK, ReplayStep

LEMMA ReplayKilled ==
  ASSUME TimelineInv, ReplayStops
  PROVE  TimelineInv'
<1>1. /\ timeline' \in Seq(Bodies) /\ inodes' \in Nat /\ SpoolOK(spool) /\ ReplayOK(replay)
      /\ UNCHANGED <<task, events, promised, spool, timeline>> /\ replay.at \in {"post", "write"}
      /\ replay' = NoReplay /\ ReplayKnows
  BY DEF TimelineInv, TimelineShape, ReplayStops, ReplayOK
<1>2. \A m : Stored(m)' = Stored(m)
  BY <1>1 DEF Stored
<1>3. DOMAIN excused \subseteq DOMAIN excused'
      /\ (replay.at = "write" => ToSet(replay.retained) \subseteq DOMAIN excused')
  BY ExcuseKeeps DEF ReplayStops
<1>4. replay.at = "write" => InHand = ToSet(replay.retained)
  BY <1>1, ToSetEmpty DEF InHand, ReplayOK
<1>5. \A n \in InHand : n \in ToSet(spool.lines) \/ n \in DOMAIN excused'
  BY <1>1, <1>3, <1>4 DEF ReplayKnows
<1>6. \A n : Accounted(n) => Accounted(n)'
  BY <1>1, <1>2, <1>3, <1>5 DEF Accounted, Settled
<1>7. ReplayKnows'
  BY <1>1, NoReplayOK DEF ReplayKnows
<1> QED BY <1>1, <1>6, <1>7, NoReplayOK, ReplayStep

LEMMA TimelineNextInv == TimelineInv /\ [TimelineNext]_timelineVars => TimelineInv'
<1> SUFFICES ASSUME TimelineInv, [TimelineNext]_timelineVars PROVE TimelineInv'
  OBVIOUS
<1>1. CASE \E t \in Tasks : \/ Queue(t) \/ Post(t) \/ Delivered(t) \/ ReadIds(t)
                            \/ OpenSpool(t) \/ AppendRecord(t) \/ Flush(t)
  BY <1>1, QueueStep, PostStep, EndOrOpen, AppendStep
<1>2. CASE ReplayRead \/ ReplaySkip \/ ReplayDrop \/ ReplayPost
  BY <1>2, ReplayReads, ReplaySkips, ReplayDrops, ReplayPosts
<1>3. CASE RewriteRemoves \/ RewriteTruncates \/ RewriteWrites \/ ReplayStops
  BY <1>3, RewriteBegins, RewriteEnds, ReplayKilled
<1>4. CASE UNCHANGED timelineVars
  <2>1. \A n : (Settled(n) <=> Settled(n)') /\ (Accounted(n) <=> Accounted(n)')
    BY <1>4 DEF timelineVars, Settled, Accounted, InHand, Stored
  <2> QED BY <1>4, <2>1 DEF timelineVars, TimelineInv, TimelineShape, ReplayKnows, AllAccounted, InHand
<1> QED BY <1>1, <1>2, <1>3, <1>4 DEF TimelineNext

\* Whatever was lost, retried or given up on, the events one sink got
\* acknowledged verify as a chain: the digest moves on with an acknowledgement
\* and with nothing else.
THEOREM ChainsAlwaysVerify == TimelineSpec => []AckedChainVerifies
<1>1. TimelineInv => AckedChainVerifies
  BY DEF TimelineInv, TimelineShape, TaskOK, ReplayOK, SinkOK, AckedChainVerifies
<1> QED BY TimelineInitInv, TimelineNextInv, <1>1, PTL DEF TimelineSpec

\* No event reported as spooled disappears without one of the named causes,
\* with any number of tasks appending while replays read, rewrite and die.
THEOREM SpooledAlwaysAccounted == TimelineSpec => []SpooledIsAccounted
<1>1. TimelineInv => SpooledIsAccounted
  BY DEF TimelineInv, AllAccounted, Accounted, Settled, InHand, SpooledIsAccounted
<1> QED BY TimelineInitInv, TimelineNextInv, <1>1, PTL DEF TimelineSpec

-----------------------------------------------------------------------------
(***************************************************************************)
(* Epoch deadlines of a sandbox for any number of calls and any time limit *)
(* in ticks.  Both properties compare a store's trap with the deadline of  *)
(* its call, and neither is inductive alone.  What ties them together:     *)
(*   - the engine's epoch lags behind SandboxEpoch.current by exactly the  *)
(*     bumps that callers still owe;                                       *)
(*   - current never passes the largest deadline of a call that timed out; *)
(*   - a store armed while no bump was owed traps at its call's deadline,  *)
(*     or, if that had passed, at the next tick.                           *)
(***************************************************************************)
Bumping == {q \in Runs : run[q].caller = "bump"}
Alive == {"born", "loaded", "armed", "inside"}

\* What is known of a call and its worker, with SandboxEpoch.current at cur.
GoodRun(s, cur) ==
  /\ DOMAIN s = {"caller", "deadline", "seen", "cancel", "result", "worker", "rel", "trap", "reply",
                 "base", "late", "raced"}
  /\ s.caller \in {"idle", "check", "adjust", "wait", "advance", "bump", "done"}
  /\ s.worker \in Alive \cup {"none", "out"}
  /\ s.deadline \in Nat /\ s.seen \in Nat /\ s.rel \in Nat /\ s.trap \in Nat /\ s.base \in Nat
  /\ s.caller \in {"idle", "check", "adjust"} => s.worker = "none" /\ s.reply = Nothing
  /\ s.result = "timeout" => s.caller = "done" /\ cur >= s.deadline
  /\ s.caller = "check" => s.deadline >= 1
  /\ s.caller = "adjust" => s.seen >= 1
  /\ s.worker \in Alive => s.deadline >= 1 /\ s.reply = Nothing
  /\ s.worker = "loaded" /\ ~s.raced => IF s.base >= s.deadline THEN s.late /\ s.rel = 1
                                        ELSE ~s.late /\ s.rel = s.deadline - s.base
  /\ s.worker \in {"armed", "inside"} /\ ~s.raced =>
       s.trap >= s.deadline /\ (~s.late => s.trap = s.deadline)

SandboxShape ==
  /\ current \in Nat /\ engineEpoch \in Nat /\ next_deadline \in Nat /\ next_deadline >= 1
  /\ DOMAIN run = Runs

RunsOK == \A r \in Runs : GoodRun(run[r], current)

\* The engine's epoch follows the sandbox's, but for the bumps that are owed.
EpochsAgree == engineEpoch + Cardinality(Bumping) = current

\* Only a timeout moves the epoch, and never past its own deadline.
AdvancedByTimeout == current = 0 \/ \E q \in TimedOut : current <= run[q].deadline

SandboxInv ==
  SandboxShape /\ RunsOK /\ EpochsAgree /\ AdvancedByTimeout /\ TimeoutsAreIsolated

-----------------------------------------------------------------------------
LEMMA FreshIsGood == \A cur \in Nat : GoodRun(Fresh, cur) /\ Fresh.caller = "idle"
BY SandboxAssumption DEF Fresh, GoodRun, Alive

LEMMA AnsweredIsGood ==
  /\ \A cur \in Nat : GoodRun(Answered, cur)
  /\ Answered.caller = "done" /\ Answered.reply = Nothing
<1> DEFINE s == Answered
<1>1. /\ DOMAIN s = {"caller", "deadline", "seen", "cancel", "result", "worker", "rel", "trap", "reply",
                     "base", "late", "raced"}
      /\ s.caller = "done" /\ s.result = "answered" /\ s.worker = "out"
      /\ s.deadline = 0 /\ s.seen = 0 /\ s.rel = 0 /\ s.trap = 0 /\ s.base = 0
      /\ s.reply = Nothing
  BY DEF Answered, Fresh
<1> HIDE DEF s
<1>2. \A cur \in Nat : GoodRun(s, cur)
  BY <1>1 DEF GoodRun, Alive
<1> QED BY <1>1, <1>2 DEF s

LEMMA SandboxInitInv == SandboxInit => SandboxInv
<1> SUFFICES ASSUME SandboxInit PROVE SandboxInv
  OBVIOUS
<1>1. \A r \in Runs : run[r] = Fresh /\ run[r].caller = "idle" /\ GoodRun(run[r], current)
  BY FreshIsGood DEF SandboxInit
<1>2. SandboxShape /\ RunsOK
  BY <1>1 DEF SandboxInit, SandboxShape, RunsOK
<1>3. EpochsAgree
  <2>1. Bumping = {}
    BY <1>1 DEF Bumping
  <2> QED BY <2>1, FS_EmptySet DEF SandboxInit, EpochsAgree
<1>4. AdvancedByTimeout
  BY DEF SandboxInit, AdvancedByTimeout
<1>5. TimeoutsAreIsolated
  BY <1>1, SandboxAssumption DEF TimeoutsAreIsolated, GoodRun
<1> QED BY <1>2, <1>3, <1>4, <1>5 DEF SandboxInv

\* A call whose deadline the epoch has reached is covered by a timeout.
LEMMA Covered ==
  ASSUME SandboxInv, NEW d \in Nat, 1 <= d, d <= current
  PROVE  \E q \in TimedOut : run[q].deadline >= d
BY DEF SandboxInv, SandboxShape, AdvancedByTimeout, RunsOK, GoodRun, TimedOut

\* A step of one call that moves no epoch.
LEMMA RunStep ==
  ASSUME SandboxInv, NEW r \in Runs, NEW s, run' = [run EXCEPT ![r] = s], GoodRun(s, current),
         UNCHANGED <<current, engineEpoch>>, next_deadline' \in Nat, next_deadline' >= 1,
         run[r].caller = "bump" <=> s.caller = "bump",
         r \in TimedOut => /\ s.caller \in {"advance", "bump"} \/ s.result = "timeout"
                           /\ s.deadline = run[r].deadline,
         s.reply = "interrupted" =>
           \/ s.raced
           \/ 1 <= s.deadline /\ s.deadline <= current
           \/ run[r].reply = "interrupted" /\ s.raced = run[r].raced /\ s.deadline = run[r].deadline
  PROVE  SandboxInv'
<1>1. \A q \in Runs : run'[q] = IF q = r THEN s ELSE run[q]
  BY DEF SandboxInv, SandboxShape
<1>2. SandboxShape' /\ RunsOK'
  BY <1>1 DEF SandboxInv, SandboxShape, RunsOK
<1>3. EpochsAgree'
  <2>1. Bumping' = Bumping
    BY <1>1 DEF Bumping
  <2> QED BY <2>1 DEF SandboxInv, EpochsAgree
<1>4. \A q \in TimedOut : q \in TimedOut' /\ run'[q].deadline = run[q].deadline
  BY <1>1 DEF TimedOut
<1>5. AdvancedByTimeout'
  BY <1>4 DEF SandboxInv, AdvancedByTimeout
<1>6. TimeoutsAreIsolated'
  <2> SUFFICES ASSUME NEW p \in Runs, run'[p].reply = "interrupted", ~run'[p].raced
               PROVE  \E q \in TimedOut' : run'[q].deadline >= run'[p].deadline
    BY DEF TimeoutsAreIsolated
  <2>1. CASE run[p].reply = "interrupted" /\ run'[p].raced = run[p].raced
             /\ run'[p].deadline = run[p].deadline
    BY <1>4, <2>1 DEF SandboxInv, TimeoutsAreIsolated
  <2>2. CASE p = r /\ 1 <= s.deadline /\ s.deadline <= current
    <3>1. s.deadline \in Nat
      BY DEF GoodRun
    <3>2. \E q \in TimedOut : run[q].deadline >= s.deadline
      BY <2>2, <3>1, Covered
    <3> QED BY <1>1, <1>4, <2>2, <3>2
  <2> QED BY <1>1, <2>1, <2>2
<1> QED BY <1>2, <1>3, <1>5, <1>6 DEF SandboxInv

\* How reserve_deadline leaves a call t that has no worker yet.
Reserved(s, t) ==
  /\ DOMAIN s = DOMAIN t /\ s.rel = t.rel /\ s.trap = t.trap /\ s.base = t.base
  /\ s.reply = t.reply /\ s.result = t.result
  /\ s.deadline \in Nat /\ s.seen \in Nat
  /\ \/ s.caller = "check" /\ s.worker = "none" /\ s.deadline >= 1
     \/ s.caller = "adjust" /\ s.worker = "none" /\ s.seen >= 1
     \/ s.caller = "wait" /\ s.worker = "born" /\ s.deadline >= 1

LEMMA ReservedStep ==
  ASSUME SandboxInv, NEW r \in Runs, NEW s, run' = [run EXCEPT ![r] = s], Reserved(s, run[r]),
         run[r].caller \in {"idle", "check", "adjust"},
         UNCHANGED <<current, engineEpoch>>, next_deadline' \in Nat, next_deadline' >= 1
  PROVE  SandboxInv'
<1>1. GoodRun(run[r], current) /\ current \in Nat
  BY DEF SandboxInv, SandboxShape, RunsOK
<1>2. /\ run[r].worker = "none" /\ run[r].reply = Nothing /\ run[r].result # "timeout"
      /\ r \notin TimedOut
  BY <1>1 DEF GoodRun, TimedOut
<1>3. GoodRun(s, current)
  BY <1>1, <1>2 DEF GoodRun, Reserved, Alive
<1>4. s.reply # "interrupted" /\ s.caller # "bump"
  BY <1>2, SandboxAssumption DEF Reserved
<1> QED BY <1>2, <1>3, <1>4, RunStep

\* reserve_deadline and the spawning of the worker.
LEMMA ReserveStep ==
  ASSUME SandboxInv, NEW r \in Runs, AcquireSlot(r) \/ CheckDeadline(r) \/ AdjustDeadline(r)
  PROVE  SandboxInv'
<1> DEFINE t == run[r]
<1>1. /\ current \in Nat /\ next_deadline \in Nat /\ next_deadline >= 1 /\ Ticks \in Nat \ {0}
      /\ DOMAIN run = Runs /\ GoodRun(t, current)
  BY SandboxAssumption DEF SandboxInv, SandboxShape, RunsOK
<1>2. t.caller \in {"idle", "check", "adjust"} /\ UNCHANGED <<current, engineEpoch>>
  BY DEF AcquireSlot, CheckDeadline, AdjustDeadline
<1>3. t.worker = "none" /\ t.reply = Nothing /\ t.result # "timeout" /\ r \notin TimedOut
  BY <1>1, <1>2 DEF GoodRun, TimedOut
<1>4. CASE AcquireSlot(r) /\ run' = [run EXCEPT ![r] = Answered] /\ UNCHANGED <<permits, next_deadline>>
  BY <1>1, <1>2, <1>3, <1>4, AnsweredIsGood, SandboxAssumption, RunStep
<1>5. CASE AcquireSlot(r) /\ next_deadline' = next_deadline + Ticks
           /\ run' = [run EXCEPT ![r].caller = "check", ![r].deadline = next_deadline]
  <2> DEFINE s == [t EXCEPT !.caller = "check", !.deadline = next_deadline]
  <2>1. run' = [run EXCEPT ![r] = s]
    BY <1>5
  <2>2. Reserved(s, t)
    BY <1>1, <1>3 DEF GoodRun, Reserved
  <2>3. next_deadline' \in Nat /\ next_deadline' >= 1
    BY <1>1, <1>5
  <2> HIDE DEF s
  <2> QED BY <1>2, <2>1, <2>2, <2>3, ReservedStep
<1>6. CASE CheckDeadline(r) /\ t.deadline > current
  <2> DEFINE s == [t EXCEPT !.caller = "wait", !.worker = "born"]
  <2>1. run' = [run EXCEPT ![r] = s] /\ next_deadline' = next_deadline
    BY <1>6 DEF CheckDeadline
  <2>2. Reserved(s, t)
    BY <1>1, <1>6 DEF GoodRun, Reserved
  <2> HIDE DEF s
  <2> QED BY <1>1, <1>2, <2>1, <2>2, ReservedStep
<1>7. CASE CheckDeadline(r) /\ ~(t.deadline > current)
  <2> DEFINE s == [t EXCEPT !.caller = "adjust", !.seen = current + Ticks]
  <2>1. run' = [run EXCEPT ![r] = s] /\ next_deadline' = next_deadline
    BY <1>7 DEF CheckDeadline
  <2>2. Reserved(s, t)
    BY <1>1, <1>3 DEF GoodRun, Reserved
  <2> HIDE DEF s
  <2> QED BY <1>1, <1>2, <2>1, <2>2, ReservedStep
<1>8. CASE AdjustDeadline(r) /\ next_deadline = t.deadline + Ticks
  <2> DEFINE s == [t EXCEPT !.caller = "wait", !.worker = "born", !.deadline = t.seen, !.seen = 0]
  <2>1. run' = [run EXCEPT ![r] = s] /\ next_deadline' = t.seen + 1 /\ t.caller = "adjust"
    BY <1>8 DEF AdjustDeadline
  <2>2. t.seen \in Nat /\ t.seen >= 1
    BY <1>1, <2>1 DEF GoodRun
  <2>3. Reserved(s, t)
    BY <1>1, <2>2 DEF GoodRun, Reserved
  <2>4. next_deadline' \in Nat /\ next_deadline' >= 1
    BY <2>1, <2>2
  <2> HIDE DEF s
  <2> QED BY <1>2, <2>1, <2>3, <2>4, ReservedStep
<1>9. CASE AdjustDeadline(r) /\ next_deadline # t.deadline + Ticks
  <2> DEFINE s == [t EXCEPT !.caller = "check", !.deadline = next_deadline, !.seen = 0]
  <2>1. run' = [run EXCEPT ![r] = s] /\ next_deadline' = next_deadline
    BY <1>9 DEF AdjustDeadline
  <2>2. Reserved(s, t)
    BY <1>1, <1>3 DEF GoodRun, Reserved
  <2> HIDE DEF s
  <2> QED BY <1>1, <1>2, <2>1, <2>2, ReservedStep
<1>10. AcquireSlot(r) =>
         \/ run' = [run EXCEPT ![r] = Answered] /\ UNCHANGED <<permits, next_deadline>>
         \/ /\ next_deadline' = next_deadline + Ticks
            /\ run' = [run EXCEPT ![r].caller = "check", ![r].deadline = next_deadline]
  BY DEF AcquireSlot
<1> QED BY <1>4, <1>5, <1>6, <1>7, <1>8, <1>9, <1>10

-----------------------------------------------------------------------------
\* A worker that ends, whatever its reply.
LEMMA OutStep ==
  ASSUME SandboxInv, NEW r \in Runs, NEW reply, run' = Out(r, reply), run[r].worker \in Alive,
         UNCHANGED <<current, engineEpoch, next_deadline>>,
         reply = "interrupted" => run[r].raced \/ run[r].deadline <= current
  PROVE  SandboxInv'
<1> DEFINE t == run[r]
           s == [t EXCEPT !.worker = "out", !.rel = 0, !.trap = 0, !.base = 0,
                          !.reply = IF Listening(r) THEN reply ELSE Nothing,
                          !.late = Listening(r) /\ @, !.raced = Listening(r) /\ @]
<1>1. /\ current \in Nat /\ next_deadline \in Nat /\ next_deadline >= 1
      /\ DOMAIN run = Runs /\ GoodRun(t, current)
  BY DEF SandboxInv, SandboxShape, RunsOK
<1>2. run' = [run EXCEPT ![r] = s]
  BY DEF Out
<1>3. /\ DOMAIN s = DOMAIN t /\ s.caller = t.caller /\ s.deadline = t.deadline /\ s.seen = t.seen
      /\ s.result = t.result /\ s.worker = "out" /\ s.rel = 0 /\ s.trap = 0 /\ s.base = 0
  BY <1>1 DEF GoodRun
<1>4. s.reply = (IF Listening(r) THEN reply ELSE Nothing) /\ s.raced = (Listening(r) /\ t.raced)
  BY <1>1 DEF GoodRun
<1> HIDE DEF s
<1>5. t.deadline >= 1 /\ t.caller \notin {"idle", "check", "adjust"}
  BY <1>1 DEF GoodRun, Alive
<1>6. GoodRun(s, current)
  BY <1>1, <1>3, <1>5 DEF GoodRun, Alive
<1>7. r \in TimedOut => s.caller \in {"advance", "bump"} \/ s.result = "timeout"
  BY <1>3 DEF TimedOut
<1>8. s.reply = "interrupted" => Listening(r) /\ reply = "interrupted"
  BY <1>4, SandboxAssumption
<1>9. s.reply = "interrupted" => s.raced \/ (1 <= s.deadline /\ s.deadline <= current)
  <2> SUFFICES ASSUME s.reply = "interrupted" PROVE s.raced \/ (1 <= s.deadline /\ s.deadline <= current)
    OBVIOUS
  <2>1. CASE t.raced
    <3>1. s.raced
      BY <1>4, <1>8, <2>1
    <3> QED BY <3>1
  <2>2. CASE t.deadline <= current
    BY <1>3, <1>5, <2>2
  <2> QED BY <1>8, <2>1, <2>2
<1> QED BY <1>1, <1>2, <1>3, <1>6, <1>7, <1>9, RunStep

\* The worker of an alive run moves on; its caller and its reply do not.
LEMMA WorkStep ==
  ASSUME SandboxInv, NEW r \in Runs, NEW s, run' = [run EXCEPT ![r] = s], GoodRun(s, current),
         run[r].worker \in Alive, UNCHANGED <<current, engineEpoch, next_deadline>>,
         s.caller = run[r].caller, s.result = run[r].result, s.deadline = run[r].deadline,
         s.reply = run[r].reply
  PROVE  SandboxInv'
<1>1. next_deadline' \in Nat /\ next_deadline' >= 1 /\ GoodRun(run[r], current)
  BY DEF SandboxInv, SandboxShape, RunsOK
<1>2. s.reply # "interrupted"
  BY <1>1, SandboxAssumption DEF GoodRun
<1>3. r \in TimedOut => s.caller \in {"advance", "bump"} \/ s.result = "timeout"
  BY DEF TimedOut
<1> QED BY <1>1, <1>2, <1>3, RunStep

\* No bump is owed: the two epochs are one.
LEMMA NothingOwed ==
  ASSUME SandboxInv
  PROVE  Owed \in Nat /\ engineEpoch <= current /\ (~(Owed > 0) => engineEpoch = current)
<1>1. IsFiniteSet(Bumping)
  BY SandboxAssumption, FS_Subset DEF Bumping
<1>2. Cardinality(Bumping) \in Nat /\ Owed = Cardinality(Bumping)
  BY <1>1, FS_CardinalityType DEF Bumping, Owed
<1> QED BY <1>2 DEF SandboxInv, SandboxShape, EpochsAgree

LEMMA LoadEpochStep ==
  ASSUME SandboxInv, NEW r \in Runs, LoadEpoch(r)
  PROVE  SandboxInv'
<1> DEFINE t == run[r]
           s == [t EXCEPT !.worker = "loaded", !.rel = RelativeTicksUntil(t.deadline),
                          !.late = current >= t.deadline, !.base = engineEpoch, !.raced = Owed > 0]
<1>1. current \in Nat /\ engineEpoch \in Nat /\ DOMAIN run = Runs /\ GoodRun(t, current) /\ t.worker = "born"
  BY DEF SandboxInv, SandboxShape, RunsOK, LoadEpoch
<1>2. run' = [run EXCEPT ![r] = s]
  BY DEF LoadEpoch
<1>3. /\ DOMAIN s = DOMAIN t /\ s.caller = t.caller /\ s.deadline = t.deadline /\ s.seen = t.seen
      /\ s.result = t.result /\ s.reply = t.reply /\ s.trap = t.trap
      /\ s.worker = "loaded" /\ s.rel = RelativeTicksUntil(t.deadline) /\ s.base = engineEpoch
  BY <1>1 DEF GoodRun
<1>4. (s.late <=> current >= t.deadline) /\ (s.raced <=> Owed > 0)
  BY <1>1 DEF GoodRun
<1> HIDE DEF s
<1>5. t.deadline \in Nat /\ t.deadline >= 1
  BY <1>1 DEF GoodRun, Alive
<1>6. s.rel \in Nat /\ (current >= t.deadline => s.rel = 1)
      /\ (current < t.deadline => s.rel = t.deadline - current)
  BY <1>1, <1>3, <1>5 DEF RelativeTicksUntil, AtLeast
<1>7. ~s.raced => engineEpoch = current
  BY <1>4, NothingOwed
<1>8. ~s.raced => IF s.base >= s.deadline THEN s.late /\ s.rel = 1
                  ELSE ~s.late /\ s.rel = s.deadline - s.base
  BY <1>1, <1>3, <1>4, <1>5, <1>6, <1>7
<1>9. GoodRun(s, current)
  BY <1>1, <1>3, <1>5, <1>6, <1>8 DEF GoodRun, Alive
<1>10. UNCHANGED <<current, engineEpoch, next_deadline>> /\ t.worker \in Alive
  BY <1>1 DEF LoadEpoch, Alive
<1> QED BY <1>2, <1>3, <1>9, <1>10, WorkStep

LEMMA ArmStoreStep ==
  ASSUME SandboxInv, NEW r \in Runs, ArmStore(r)
  PROVE  SandboxInv'
<1> DEFINE t == run[r]
           s == [t EXCEPT !.worker = "armed", !.trap = engineEpoch + t.rel,
                          !.raced = @ \/ engineEpoch # t.base, !.rel = 0, !.base = 0]
<1>1. current \in Nat /\ engineEpoch \in Nat /\ DOMAIN run = Runs /\ GoodRun(t, current) /\ t.worker = "loaded"
  BY DEF SandboxInv, SandboxShape, RunsOK, ArmStore
<1>2. run' = [run EXCEPT ![r] = s]
  BY DEF ArmStore
<1>3. /\ DOMAIN s = DOMAIN t /\ s.caller = t.caller /\ s.deadline = t.deadline /\ s.seen = t.seen
      /\ s.result = t.result /\ s.reply = t.reply /\ s.trap = engineEpoch + t.rel
      /\ s.worker = "armed" /\ s.rel = 0 /\ s.base = 0
  BY <1>1 DEF GoodRun
<1>4. (s.late <=> t.late) /\ (s.raced <=> t.raced \/ engineEpoch # t.base)
  BY <1>1 DEF GoodRun
<1> HIDE DEF s
<1>5. t.deadline \in Nat /\ t.deadline >= 1 /\ t.rel \in Nat /\ t.base \in Nat
  BY <1>1 DEF GoodRun, Alive
<1>6. ~s.raced => IF t.base >= t.deadline THEN t.late /\ t.rel = 1
                  ELSE ~t.late /\ t.rel = t.deadline - t.base
  BY <1>1, <1>4 DEF GoodRun
<1>7. ~s.raced => s.trap >= s.deadline /\ (~s.late => s.trap = s.deadline)
  BY <1>1, <1>3, <1>4, <1>5, <1>6
<1>8. s.trap \in Nat
  BY <1>1, <1>3, <1>5
<1>9. GoodRun(s, current)
  BY <1>1, <1>3, <1>5, <1>7, <1>8 DEF GoodRun, Alive
<1>10. UNCHANGED <<current, engineEpoch, next_deadline>> /\ t.worker \in Alive
  BY <1>1 DEF ArmStore, Alive
<1> QED BY <1>2, <1>3, <1>9, <1>10, WorkStep

LEMMA InstantiateStep ==
  ASSUME SandboxInv, NEW r \in Runs, Instantiate(r)
  PROVE  SandboxInv'
<1> DEFINE t == run[r]
           s == [t EXCEPT !.worker = "inside"]
<1>1. DOMAIN run = Runs /\ GoodRun(t, current) /\ t.worker = "armed" /\ t.worker \in Alive
      /\ UNCHANGED <<current, engineEpoch, next_deadline>>
  BY DEF SandboxInv, SandboxShape, RunsOK, Instantiate, Alive
<1>2. CASE run' = Out(r, "ended")
  BY <1>1, <1>2, OutStep
<1>3. CASE run' = Out(r, "no_instance")
  BY <1>1, <1>3, OutStep
<1>4. CASE run' = [run EXCEPT ![r].worker = "inside"]
  <2>1. run' = [run EXCEPT ![r] = s]
    BY <1>4
  <2>2. /\ DOMAIN s = DOMAIN t /\ s.caller = t.caller /\ s.deadline = t.deadline /\ s.seen = t.seen
        /\ s.result = t.result /\ s.reply = t.reply /\ s.trap = t.trap
        /\ s.worker = "inside" /\ s.rel = t.rel /\ s.base = t.base /\ s.late = t.late /\ s.raced = t.raced
    BY <1>1 DEF GoodRun
  <2> HIDE DEF s
  <2>3. GoodRun(s, current)
    BY <1>1, <2>2 DEF GoodRun, Alive
  <2> QED BY <1>1, <2>1, <2>2, <2>3, WorkStep
<1> QED BY <1>2, <1>3, <1>4 DEF Instantiate

LEMMA WorkerEnds ==
  ASSUME SandboxInv, NEW r \in Runs, GuestEnds(r) \/ Interrupt(r) \/ WorkerStops(r)
  PROVE  SandboxInv'
<1>1. GoodRun(run[r], current) /\ current \in Nat /\ engineEpoch \in Nat
      /\ UNCHANGED <<current, engineEpoch, next_deadline>> /\ run[r].worker \in Alive
  BY DEF SandboxInv, SandboxShape, RunsOK, GuestEnds, Interrupt, WorkerStops, Alive
<1>2. CASE GuestEnds(r)
  BY <1>1, <1>2, OutStep DEF GuestEnds
<1>3. CASE WorkerStops(r)
  BY <1>1, <1>3, OutStep, SandboxAssumption DEF WorkerStops
<1>4. CASE Interrupt(r)
  <2>1. run[r].worker = "inside" /\ engineEpoch >= run[r].trap /\ run' = Out(r, "interrupted")
    BY <1>4 DEF Interrupt
  <2>2. ~run[r].raced => run[r].trap >= run[r].deadline
    BY <1>1, <2>1 DEF GoodRun
  <2>3. run[r].trap \in Nat /\ run[r].deadline \in Nat
    BY <1>1 DEF GoodRun
  <2>4. ~run[r].raced => run[r].deadline <= current
    BY <1>1, <2>1, <2>2, <2>3, NothingOwed
  <2> QED BY <1>1, <2>1, <2>4, OutStep
<1> QED BY <1>2, <1>3, <1>4

-----------------------------------------------------------------------------
\* The caller takes the reply, gives up, or reports the timeout.
LEMMA CallerStep ==
  ASSUME SandboxInv, NEW r \in Runs, ReceiveReply(r) \/ LimitReached(r) \/ JoinWorker(r)
  PROVE  SandboxInv'
<1> DEFINE t == run[r]
<1>1. /\ current \in Nat /\ next_deadline' \in Nat /\ next_deadline' >= 1
      /\ DOMAIN run = Runs /\ GoodRun(t, current) /\ UNCHANGED <<current, engineEpoch>>
  BY DEF SandboxInv, SandboxShape, RunsOK, ReceiveReply, LimitReached, JoinWorker, Returns
<1>2. CASE ReceiveReply(r)
  <2>1. t.caller = "wait" /\ run' = [run EXCEPT ![r] = Answered]
    BY <1>2 DEF ReceiveReply
  <2>2. r \notin TimedOut
    BY <1>1, <2>1 DEF TimedOut, GoodRun
  <2> QED BY <1>1, <2>1, <2>2, AnsweredIsGood, SandboxAssumption, RunStep
<1>3. CASE LimitReached(r)
  <2> DEFINE s == [t EXCEPT !.caller = "advance", !.cancel = TRUE, !.reply = Nothing]
  <2>1. t.caller = "wait" /\ run' = [run EXCEPT ![r] = s]
    BY <1>3 DEF LimitReached
  <2>2. /\ DOMAIN s = DOMAIN t /\ s.caller = "advance" /\ s.deadline = t.deadline /\ s.seen = t.seen
        /\ s.result = t.result /\ s.reply = Nothing /\ s.trap = t.trap
        /\ s.worker = t.worker /\ s.rel = t.rel /\ s.base = t.base /\ s.late = t.late /\ s.raced = t.raced
    BY <1>1 DEF GoodRun
  <2> HIDE DEF s
  <2>3. GoodRun(s, current)
    BY <1>1, <2>1, <2>2 DEF GoodRun, Alive
  <2> QED BY <1>1, <2>1, <2>2, <2>3, SandboxAssumption, RunStep
<1>4. CASE JoinWorker(r)
  <2> DEFINE s == [t EXCEPT !.caller = "done", !.result = "timeout"]
  <2>1. t.caller = "advance" /\ current >= t.deadline /\ run' = [run EXCEPT ![r] = s]
    BY <1>4 DEF JoinWorker, AdvanceDone
  <2>2. /\ DOMAIN s = DOMAIN t /\ s.caller = "done" /\ s.deadline = t.deadline /\ s.seen = t.seen
        /\ s.result = "timeout" /\ s.reply = t.reply /\ s.trap = t.trap
        /\ s.worker = t.worker /\ s.rel = t.rel /\ s.base = t.base /\ s.late = t.late /\ s.raced = t.raced
    BY <1>1 DEF GoodRun
  <2> HIDE DEF s
  <2>3. GoodRun(s, current)
    BY <1>1, <2>1, <2>2 DEF GoodRun, Alive
  <2> QED BY <1>1, <2>1, <2>2, <2>3, RunStep
<1> QED BY <1>2, <1>3, <1>4

\* A call that only changes its caller's place between "advance" and "bump".
AdvanceFields(s, t) ==
  /\ DOMAIN s = DOMAIN t /\ s.deadline = t.deadline /\ s.seen = t.seen
  /\ s.result = t.result /\ s.reply = t.reply /\ s.trap = t.trap
  /\ s.worker = t.worker /\ s.rel = t.rel /\ s.base = t.base /\ s.late = t.late /\ s.raced = t.raced

\* One turn of advance_to, either half of it.
LEMMA AdvanceStep ==
  ASSUME SandboxInv, NEW r \in Runs, NEW s, run' = [run EXCEPT ![r] = s], AdvanceFields(s, run[r]),
         run[r].caller \in {"advance", "bump"}, s.caller \in {"advance", "bump"},
         current' \in Nat, current' >= current, engineEpoch' \in Nat, UNCHANGED next_deadline,
         current' = current \/ current' <= run[r].deadline, EpochsAgree'
  PROVE  SandboxInv'
<1>1. \A q \in Runs : run'[q] = IF q = r THEN s ELSE run[q]
  BY DEF SandboxInv, SandboxShape
<1>2. current \in Nat /\ \A q \in Runs : GoodRun(run[q], current)
  BY DEF SandboxInv, SandboxShape, RunsOK
<1>3. SandboxShape'
  BY DEF SandboxInv, SandboxShape
<1>4. RunsOK'
  <2>1. GoodRun(s, current')
    BY <1>2 DEF GoodRun, AdvanceFields, Alive
  <2>2. \A q \in Runs : GoodRun(run[q], current')
    BY <1>2 DEF GoodRun, Alive
  <2> QED BY <1>1, <2>1, <2>2 DEF RunsOK
<1>5. r \in TimedOut /\ r \in TimedOut' /\ run'[r].deadline = run[r].deadline
  BY <1>1 DEF TimedOut, AdvanceFields
<1>6. \A q \in TimedOut : q \in TimedOut' /\ run'[q].deadline = run[q].deadline
  BY <1>1, <1>5 DEF TimedOut
<1>7. AdvancedByTimeout'
  BY <1>5, <1>6 DEF SandboxInv, AdvancedByTimeout
<1>8. TimeoutsAreIsolated'
  <2> SUFFICES ASSUME NEW p \in Runs, run'[p].reply = "interrupted", ~run'[p].raced
               PROVE  \E q \in TimedOut' : run'[q].deadline >= run'[p].deadline
    BY DEF TimeoutsAreIsolated
  <2>1. run[p].reply = "interrupted" /\ run'[p].raced = run[p].raced /\ run'[p].deadline = run[p].deadline
    BY <1>1 DEF AdvanceFields
  <2> QED BY <1>6, <2>1 DEF SandboxInv, TimeoutsAreIsolated
<1> QED BY <1>3, <1>4, <1>7, <1>8 DEF SandboxInv

LEMMA AdvanceEpochStep ==
  ASSUME SandboxInv, NEW r \in Runs, AdvanceEpoch(r)
  PROVE  SandboxInv'
<1> DEFINE t == run[r]
           s == [t EXCEPT !.caller = "bump"]
<1>1. /\ current \in Nat /\ engineEpoch \in Nat /\ DOMAIN run = Runs /\ GoodRun(t, current)
      /\ t.caller = "advance" /\ ~(current >= t.deadline) /\ current' = current + 1
      /\ UNCHANGED <<engineEpoch, next_deadline>> /\ run' = [run EXCEPT ![r] = s]
  BY DEF SandboxInv, SandboxShape, RunsOK, AdvanceEpoch, AdvanceDone
<1>2. AdvanceFields(s, t) /\ s.caller = "bump" /\ t.deadline \in Nat
  BY <1>1 DEF GoodRun, AdvanceFields
<1> HIDE DEF s
<1>3. EpochsAgree'
  <2>1. IsFiniteSet(Bumping) /\ r \notin Bumping
    BY <1>1, SandboxAssumption, FS_Subset DEF Bumping
  <2>2. Bumping' = Bumping \cup {r}
    BY <1>1, <1>2 DEF Bumping
  <2>3. Cardinality(Bumping') = Cardinality(Bumping) + 1 /\ Cardinality(Bumping) \in Nat
    BY <2>1, <2>2, FS_AddElement, FS_CardinalityType
  <2> QED BY <1>1, <2>3 DEF SandboxInv, EpochsAgree
<1>4. current' \in Nat /\ current' >= current /\ current' <= t.deadline /\ engineEpoch' \in Nat
  BY <1>1, <1>2
<1> QED BY <1>1, <1>2, <1>3, <1>4, AdvanceStep

LEMMA IncrementEngineStep ==
  ASSUME SandboxInv, NEW r \in Runs, IncrementEngine(r)
  PROVE  SandboxInv'
<1> DEFINE t == run[r]
           s == [t EXCEPT !.caller = "advance"]
<1>1. /\ current \in Nat /\ engineEpoch \in Nat /\ DOMAIN run = Runs /\ GoodRun(t, current)
      /\ t.caller = "bump" /\ engineEpoch' = engineEpoch + 1
      /\ UNCHANGED <<current, next_deadline>> /\ run' = [run EXCEPT ![r] = s]
  BY DEF SandboxInv, SandboxShape, RunsOK, IncrementEngine
<1>2. AdvanceFields(s, t) /\ s.caller = "advance"
  BY <1>1 DEF GoodRun, AdvanceFields
<1> HIDE DEF s
<1>3. EpochsAgree'
  <2>1. IsFiniteSet(Bumping) /\ r \in Bumping
    BY <1>1, SandboxAssumption, FS_Subset DEF Bumping
  <2>2. Bumping' = Bumping \ {r}
    BY <1>1, <1>2 DEF Bumping
  <2>3. Cardinality(Bumping') = Cardinality(Bumping) - 1 /\ Cardinality(Bumping) \in Nat
    BY <2>1, <2>2, FS_RemoveElement, FS_CardinalityType
  <2> QED BY <1>1, <2>3 DEF SandboxInv, EpochsAgree
<1>4. current' \in Nat /\ current' >= current /\ engineEpoch' \in Nat
  BY <1>1
<1> QED BY <1>1, <1>2, <1>3, <1>4, AdvanceStep

LEMMA SandboxNextInv == SandboxInv /\ [SandboxNext]_sandboxVars => SandboxInv'
<1> SUFFICES ASSUME SandboxInv, [SandboxNext]_sandboxVars PROVE SandboxInv'
  OBVIOUS
<1>1. CASE SandboxNext
  <2>1. PICK r \in Runs :
          \/ AcquireSlot(r) \/ CheckDeadline(r) \/ AdjustDeadline(r)
          \/ LoadEpoch(r) \/ ArmStore(r) \/ Instantiate(r) \/ GuestEnds(r) \/ Interrupt(r) \/ WorkerStops(r)
          \/ ReceiveReply(r) \/ LimitReached(r) \/ AdvanceEpoch(r)
          \/ IncrementEngine(r) \/ JoinWorker(r)
    BY <1>1 DEF SandboxNext
  <2> QED BY <2>1, ReserveStep, LoadEpochStep, ArmStoreStep, InstantiateStep, WorkerEnds, CallerStep,
             AdvanceEpochStep, IncrementEngineStep
<1>2. CASE UNCHANGED sandboxVars
  BY <1>2 DEF sandboxVars, SandboxInv, SandboxShape, RunsOK, EpochsAgree, Bumping, AdvancedByTimeout,
              TimedOut, TimeoutsAreIsolated
<1> QED BY <1>1, <1>2

LEMMA InvStopsWorkers == SandboxInv => TimedOutWorkerStops
<1> SUFFICES ASSUME SandboxInv, NEW r \in Runs, run[r].caller = "done", r \in TimedOut, Owed = 0,
                    run[r].worker \in {"armed", "inside"}, ~run[r].raced, ~run[r].late
             PROVE  engineEpoch >= run[r].trap
  BY DEF TimedOutWorkerStops
<1>1. GoodRun(run[r], current) /\ run[r].result = "timeout"
  BY DEF SandboxInv, RunsOK, TimedOut
<1>2. current >= run[r].deadline /\ run[r].trap = run[r].deadline
  BY <1>1 DEF GoodRun
<1> QED BY <1>2, NothingOwed

\* Wherever the time limits fall and however the callers and the workers
\* interleave, a worker armed while the epochs agreed is interrupted only by
\* its own call's timeout or that of a call with a later deadline.
THEOREM TimeoutsAlwaysIsolated == SandboxSpec => []TimeoutsAreIsolated
<1>1. SandboxInv => TimeoutsAreIsolated
  BY DEF SandboxInv
<1> QED BY SandboxInitInv, SandboxNextInv, <1>1, PTL DEF SandboxSpec

\* advance_to loses no wake-up: when a timed-out call has returned and every
\* bump has been made, its armed store is past its trap.
THEOREM TimedOutWorkersStop == SandboxSpec => []TimedOutWorkerStops
BY SandboxInitInv, SandboxNextInv, InvStopsWorkers, PTL DEF SandboxSpec

-----------------------------------------------------------------------------
(***************************************************************************)
(* rate_limit_check.  What the current minute let through is covered by    *)
(* its resets, a budget each, and by what the count still shows; a minute  *)
(* that is over is covered by one budget more than its resets; one that is *)
(* to come has neither.                                                    *)
(***************************************************************************)
LlmTypeOK ==
  /\ minute \in 0 .. MaxMinutes
  /\ rl_count \in Nat
  /\ granted \in [0 .. MaxMinutes -> Nat]
  /\ resets \in [0 .. MaxMinutes -> Nat]

Spent == IF rl_count <= LlmBudget THEN rl_count ELSE LlmBudget

GrantsCovered ==
  /\ granted[minute] <= LlmBudget * resets[minute] + Spent
  /\ \A m \in 0 .. MaxMinutes : m < minute => granted[m] <= LlmBudget * resets[m] + LlmBudget
  /\ \A m \in 0 .. MaxMinutes : minute < m => granted[m] = 0 /\ resets[m] = 0

LlmInv == LlmTypeOK /\ GrantsCovered

\* One more reset is worth one more budget.
LEMMA OneMore ==
  ASSUME NEW b \in Nat, NEW r \in Nat
  PROVE  b * (r + 1) = b * r + b /\ b * r \in Nat
OBVIOUS

\* The budget starts whole.
LEMMA LlmInitInv == LlmInit => LlmInv
<1> SUFFICES ASSUME LlmInit PROVE LlmInv
  OBVIOUS
<1>1. LlmBudget * 0 = 0
  BY LlmAssumption
<1> QED BY <1>1, LlmAssumption DEF LlmInit, LlmInv, LlmTypeOK, GrantsCovered, Spent

\* Every atomic operation of every caller, and the clock, keep the types.
LEMMA LlmNextType == LlmTypeOK /\ [LlmNext]_llmVars => LlmTypeOK'
<1> SUFFICES ASSUME LlmTypeOK, [LlmNext]_llmVars PROVE LlmTypeOK'
  OBVIOUS
<1> USE LlmAssumption DEF LlmTypeOK
<1>1. CASE UNCHANGED llmVars
  BY <1>1 DEF llmVars
<1>2. CASE MinutePasses
  BY <1>2 DEF MinutePasses
<1>3. ASSUME NEW a \in Advisors, Consult(a) \/ LoadWindow(a) \/ StoreWindow(a)
      PROVE  LlmTypeOK'
  BY <1>3 DEF Consult, LoadWindow, StoreWindow
<1>4. ASSUME NEW a \in Advisors, StoreCount(a)
      PROVE  LlmTypeOK'
  BY <1>4, SMTT(30) DEF StoreCount
<1>5. ASSUME NEW a \in Advisors, FetchAdd(a)
      PROVE  LlmTypeOK'
  <2>1. /\ minute' = minute /\ rl_count' = rl_count + 1 /\ resets' = resets
        /\ granted' = IF WithinBudget(rl_count) THEN [granted EXCEPT ![minute] = @ + 1] ELSE granted
    BY <1>5 DEF FetchAdd
  <2>2. granted' \in [0 .. MaxMinutes -> Nat]
    BY <2>1
  <2> QED BY <2>1, <2>2
<1> QED BY <1>1, <1>2, <1>3, <1>4, <1>5 DEF LlmNext

\* ... and what was let through stays covered.
LEMMA LlmNextCovered == LlmInv /\ [LlmNext]_llmVars => GrantsCovered'
<1> SUFFICES ASSUME LlmInv, [LlmNext]_llmVars PROVE GrantsCovered'
  OBVIOUS
<1> USE LlmAssumption DEF LlmInv
<1>1. \A m \in 0 .. MaxMinutes :
        granted[m] \in Nat /\ resets[m] \in Nat /\ LlmBudget * resets[m] \in Nat
  BY OneMore DEF LlmTypeOK
<1>2. ASSUME UNCHANGED <<minute, rl_count, granted, resets>>
      PROVE  GrantsCovered'
  BY <1>2 DEF GrantsCovered, Spent
<1>3. CASE MinutePasses
  <2>1. /\ minute \in 0 .. MaxMinutes /\ minute + 1 \in 0 .. MaxMinutes /\ minute' = minute + 1
        /\ granted' = granted /\ resets' = resets /\ Spent' = Spent /\ Spent \in 0 .. LlmBudget
    BY <1>3 DEF MinutePasses, LlmTypeOK, Spent
  <2>2. granted[minute] <= LlmBudget * resets[minute] + LlmBudget
    BY <1>1, <2>1 DEF GrantsCovered
  <2>3. \A m \in 0 .. MaxMinutes : m < minute' => granted'[m] <= LlmBudget * resets'[m] + LlmBudget
    BY <2>1, <2>2 DEF GrantsCovered
  <2>4. granted'[minute'] = 0 /\ resets'[minute'] = 0
        /\ \A m \in 0 .. MaxMinutes : minute' < m => granted'[m] = 0 /\ resets'[m] = 0
    BY <2>1 DEF GrantsCovered
  <2>5. LlmBudget * resets'[minute'] + Spent' >= 0
    BY <1>1, <2>1
  <2> QED BY <2>3, <2>4, <2>5 DEF GrantsCovered
<1>4. ASSUME NEW a \in Advisors, StoreCount(a)
      PROVE  GrantsCovered'
  <2>1. /\ minute' = minute /\ granted' = granted /\ Spent' = 0 /\ Spent <= LlmBudget
        /\ resets' = [resets EXCEPT ![minute] = resets[minute] + 1]
    BY <1>4 DEF StoreCount, LlmTypeOK, Spent
  <2>2. minute \in 0 .. MaxMinutes /\ resets'[minute] = resets[minute] + 1
        /\ \A m \in 0 .. MaxMinutes : m # minute => resets'[m] = resets[m]
    BY <2>1 DEF LlmTypeOK
  <2>3. LlmBudget * resets'[minute] = LlmBudget * resets[minute] + LlmBudget
    BY <1>1, <2>2, OneMore
  <2>4. Spent \in Nat
    BY DEF LlmTypeOK, Spent
  <2>5. granted[minute] <= LlmBudget * resets'[minute] + Spent'
    BY <1>1, <2>1, <2>2, <2>3, <2>4 DEF GrantsCovered
  <2> QED BY <2>1, <2>2, <2>5 DEF GrantsCovered
<1>5. ASSUME NEW a \in Advisors, FetchAdd(a)
      PROVE  GrantsCovered'
  <2>1. /\ minute' = minute /\ resets' = resets /\ minute \in 0 .. MaxMinutes
        /\ \A m \in 0 .. MaxMinutes : m # minute => granted'[m] = granted[m]
        /\ granted'[minute] + Spent <= granted[minute] + Spent'
        /\ Spent \in Nat /\ Spent' \in Nat /\ granted'[minute] \in Nat
    BY <1>5 DEF FetchAdd, LlmTypeOK, WithinBudget, Spent
  <2> QED BY <1>1, <2>1 DEF GrantsCovered
<1> QED BY <1>2, <1>3, <1>4, <1>5 DEF LlmNext, llmVars, Consult, LoadWindow, StoreWindow

\* For any number of threads and any budget: a minute lets through at most one
\* budget, and one more for each time its count was set to zero.
THEOREM OverrunsNeedResets == LlmSpec => []OverrunNeedsReset
<1>1. LlmInv => OverrunNeedsReset
  <2> SUFFICES ASSUME LlmInv, NEW m \in 0 .. MaxMinutes
               PROVE  granted[m] <= LlmBudget * (resets[m] + 1)
    BY DEF OverrunNeedsReset
  <2>1. LlmBudget * (resets[m] + 1) = LlmBudget * resets[m] + LlmBudget
    BY OneMore, LlmAssumption DEF LlmInv, LlmTypeOK
  <2>2. LlmBudget * resets[m] \in Nat /\ granted[m] \in Nat
    BY OneMore, LlmAssumption DEF LlmInv, LlmTypeOK
  <2>3. Spent \in 0 .. LlmBudget /\ minute \in Nat
    BY LlmAssumption DEF LlmInv, LlmTypeOK, Spent
  <2> QED BY <2>1, <2>2, <2>3, LlmAssumption DEF LlmInv, GrantsCovered
<1>2. LlmInv /\ [LlmNext]_llmVars => LlmInv'
  BY LlmNextType, LlmNextCovered DEF LlmInv
<1> QED BY <1>1, <1>2, LlmInitInv, PTL DEF LlmSpec

(***************************************************************************)
(* fork_and_race.  Under FirstSuccess the race is over with the first      *)
(* success, so as long as it runs no branch has succeeded, and the step    *)
(* that ends it writes the slot last.                                      *)
(***************************************************************************)
RaceTypeOK ==
  /\ exporting \subseteq Bs
  /\ completed \in Seq(Bs \X BOOLEAN)

NoSuccessYet == winner = 0 => \A n \in DOMAIN completed : ~completed[n][2]

RaceInv == RaceTypeOK /\ (~waitAll => NoSuccessYet) /\ WinnerHoldsSlot

\* What an outcome of branch b leaves: it is the winner only if it succeeded.
LEMMA YieldStep ==
  ASSUME RaceInv, winner = 0, UNCHANGED raceConfig, NEW b \in Bs, NEW success \in BOOLEAN,
         Yield(b, success), success /\ b \in exporting => slot' = b
  PROVE  RaceInv'
<1> USE DEF RaceInv, RaceTypeOK, raceConfig, Yield, Wins
<1>1. completed' \in Seq(Bs \X BOOLEAN)
  BY AppendProperties
<1>2. ASSUME ~success
      PROVE  ~waitAll => NoSuccessYet'
  <2>1. ASSUME NEW n \in DOMAIN completed' PROVE ~waitAll => ~completed'[n][2]
    BY <1>2, <2>1 DEF NoSuccessYet
  <2> QED BY <2>1 DEF NoSuccessYet
<1> QED BY <1>1, <1>2 DEF NoSuccessYet, WinnerHoldsSlot, Bs

\* For any number of branches and permits, whatever times out: the snapshot
\* left by a race under FirstSuccess is its winner's.
THEOREM WinnerAlwaysHoldsSlot == RaceSpec => []WinnerHoldsSlot
<1>1. RaceInit => RaceInv
  BY DEF RaceInit, RaceInv, RaceTypeOK, NoSuccessYet, WinnerHoldsSlot, Bs
<1>2. RaceInv /\ [RaceNext]_raceVars => RaceInv'
  <2> SUFFICES ASSUME RaceInv, [RaceNext]_raceVars PROVE RaceInv'
    OBVIOUS
  <2>1. CASE UNCHANGED <<raceConfig, completed, winner, slot>>
    BY <2>1 DEF RaceInv, RaceTypeOK, NoSuccessYet, WinnerHoldsSlot, raceConfig
  <2>2. ASSUME NEW b \in Bs, Finish(b), winner = 0, UNCHANGED raceConfig
        PROVE  RaceInv'
    BY <2>2, YieldStep DEF Finish
  <2>3. ASSUME NEW b \in Bs, Poll(b)
        PROVE  RaceInv'
    BY <2>1, <2>2, <2>3, YieldStep DEF Poll
  <2>4. ASSUME NEW b \in Bs, TimeOut(b)
        PROVE  RaceInv'
    BY <2>4, YieldStep DEF TimeOut
  <2>5. CASE Conclude
    <3>1. ~waitAll => winner' = -1
      BY <2>5 DEF Conclude, RaceInv, NoSuccessYet
    <3> QED BY <2>5, <3>1 DEF Conclude, RaceInv, RaceTypeOK, NoSuccessYet, WinnerHoldsSlot,
                              raceConfig, Bs
  <2> QED BY <2>1, <2>2, <2>3, <2>4, <2>5 DEF RaceNext, raceVars, Spawn, TaskEnds, Resume
<1>3. RaceInv => WinnerHoldsSlot
  BY DEF RaceInv
<1> QED BY <1>1, <1>2, <1>3, PTL DEF RaceSpec

(***************************************************************************)
(* execute_with_retry.  What is pending was proposed by attempt `from`,    *)
(* which failed, and nothing after it produced an output; while feedback   *)
(* is given, the one attempt after it that did is the last.                *)
(***************************************************************************)
\* `outs` from attempt `from`, a failed one, to `last`: refusals only between.
EarnedBy(outs, from, last) ==
  /\ 0 < from /\ from < last /\ outs[from] = "fail"
  /\ \A n \in from + 1 .. last - 1 : outs[n] = "err"

\* A record with the fields of a call.
CallShape(r) == DOMAIN r = {"pc", "outs", "pending", "from", "feed", "fresh", "dirty"}

GoodCall(r) ==
  /\ CallShape(r)
  /\ r.pc \in {"idle", "feedback"} /\ r.outs \in Seq({"ok", "err", "fail"}) /\ r.from \in Nat
  /\ r.pc = "idle" /\ r.pending # <<>> => EarnedBy(r.outs, r.from, Len(r.outs) + 1)
  /\ r.pc = "feedback" => Len(r.outs) > 0 /\ r.outs[Len(r.outs)] \in {"ok", "fail"}
  /\ r.pc = "feedback" /\ r.feed # <<>> => EarnedBy(r.outs, r.from, Len(r.outs))

LearningShape ==
  /\ DOMAIN call = Callers
  /\ learned = [k \in Categories |-> learned[k]]
  /\ files = [k \in Categories |-> files[k]]

CallsOK == \A c \in Callers : GoodCall(call[c])

LearningInv == LearningShape /\ CallsOK /\ CreditsAreEarned /\ FilesLagInFlight

\* A caller with no call under way.
LEMMA NoCallIsGood == GoodCall(NoCall) /\ NoCall.dirty = {}
BY EmptySeq DEF NoCall, GoodCall, CallShape, EarnedBy

\* The entries of `credits` are those of calls as they were credited.
LEMMA EarnedCredits ==
  CreditsAreEarned <=> \A cr \in credits : EarnedBy(cr.outs, cr.from, cr.decided)
BY DEF CreditsAreEarned, EarnedBy

\* Nothing is known, and nothing is owed, at the start.
LEMMA LearningInitInv == LearningInit => LearningInv
<1> SUFFICES ASSUME LearningInit PROVE LearningInv
  OBVIOUS
<1>1. LearningShape /\ CreditsAreEarned /\ FilesLagInFlight
  BY DEF LearningInit, LearningShape, CreditsAreEarned, FilesLagInFlight
<1>2. CallsOK
  BY NoCallIsGood DEF LearningInit, CallsOK
<1> QED BY <1>1, <1>2 DEF LearningInv

\* Which buckets a call has yet to save does not matter to what it may credit.
LEMMA DirtyOnly ==
  ASSUME NEW r, GoodCall(r), NEW ks
  PROVE  GoodCall([r EXCEPT !.dirty = ks]) /\ [r EXCEPT !.dirty = ks].dirty = ks
<1> DEFINE s == [r EXCEPT !.dirty = ks]
<1>1. /\ CallShape(s) /\ s.dirty = ks /\ s.pc = r.pc /\ s.outs = r.outs /\ s.from = r.from
      /\ s.pending = r.pending /\ s.feed = r.feed
  BY DEF GoodCall, CallShape
<1> HIDE DEF s
<1>2. GoodCall(s) /\ s.dirty = ks
  BY <1>1 DEF GoodCall
<1> QED BY <1>2 DEF s

\* A step that changes only the call of c leaves the others as good as they were.
LEMMA OneCall ==
  ASSUME LearningInv, NEW c \in Callers, NEW r, call' = [call EXCEPT ![c] = r], GoodCall(r)
  PROVE  CallsOK' /\ DOMAIN call' = Callers /\ call'[c] = r
         /\ \A d \in Callers \ {c} : call'[d] = call[d]
BY DEF LearningInv, LearningShape, CallsOK

\* A call that owed no save changes buckets and owes their saves from now on.
LEMMA ChangeBuckets ==
  ASSUME LearningInv, NEW c \in Callers, NEW r, call' = [call EXCEPT ![c] = r], GoodCall(r),
         call[c].dirty = {}, learned' = [k \in Categories |-> learned'[k]],
         \A k \in Categories : learned'[k] # learned[k] => k \in r.dirty,
         UNCHANGED <<policy, files, torn, unsaved>>, CreditsAreEarned'
  PROVE  LearningInv'
<1>1. /\ CallsOK' /\ DOMAIN call' = Callers /\ call'[c] = r
      /\ \A d \in Callers \ {c} : call'[d] = call[d]
  BY OneCall
<1>2. LearningShape'
  BY <1>1 DEF LearningInv, LearningShape
<1>3. FilesLagInFlight'
  BY <1>1 DEF LearningInv, FilesLagInFlight, Opened
<1> QED BY <1>1, <1>2, <1>3 DEF LearningInv

\* The same when nothing but the set of dirty buckets changes in the call.
LEMMA MarkDirty ==
  ASSUME LearningInv, NEW c \in Callers, NEW ks, call[c].dirty = {},
         call' = [call EXCEPT ![c].dirty = ks], learned' = [k \in Categories |-> learned'[k]],
         \A k \in Categories : learned'[k] # learned[k] => k \in ks,
         UNCHANGED <<policy, files, torn, credits, unsaved>>
  PROVE  LearningInv'
<1>1. GoodCall([call[c] EXCEPT !.dirty = ks]) /\ [call[c] EXCEPT !.dirty = ks].dirty = ks
  <2>1. GoodCall(call[c])
    BY DEF LearningInv, CallsOK
  <2> QED BY <2>1, DirtyOnly
<1>2. CreditsAreEarned'
  BY DEF LearningInv, CreditsAreEarned
<1>3. call' = [call EXCEPT ![c] = [call[c] EXCEPT !.dirty = ks]]
  OBVIOUS
<1> QED BY <1>1, <1>2, <1>3, ChangeBuckets

\* The MCP tools: register, import and judge.
LEMMA ToolsStep ==
  ASSUME LearningInv, NEW c \in Callers,
         \/ \E i \in Instincts : Register(c, i) \/ \E success \in BOOLEAN : RecordOutcome(c, i, success)
         \/ \E given \in SUBSET Instincts : ImportAll(c, given)
  PROVE  LearningInv'
<1>0. learned = [k \in Categories |-> learned[k]]
  BY DEF LearningInv, LearningShape
<1>1. ASSUME NEW i \in Instincts, Register(c, i)
      PROVE  LearningInv'
  BY <1>0, <1>1, MarkDirty, NoCallIsGood DEF Register
<1>2. ASSUME NEW i \in Instincts, NEW success \in BOOLEAN, RecordOutcome(c, i, success)
      PROVE  LearningInv'
  BY <1>0, <1>2, MarkDirty, NoCallIsGood DEF RecordOutcome
<1>3. ASSUME NEW given \in SUBSET Instincts, ImportAll(c, given)
      PROVE  LearningInv'
  <2>1. learned' = [k \in Categories |-> learned'[k]]
    BY <1>3 DEF ImportAll
  <2> QED BY <1>3, <2>1, MarkDirty, NoCallIsGood, ZenonT(30) DEF ImportAll
<1> QED BY <1>1, <1>2, <1>3

\* An attempt: what was pending is now to be credited with its outcome.
LEMMA AttemptStep ==
  ASSUME LearningInv, NEW c \in Callers, Attempt(c)
  PROVE  LearningInv'
<1> DEFINE r == call[c]
<1>1. GoodCall(r) /\ r.pc = "idle" /\ r.dirty = {}
  BY DEF LearningInv, CallsOK, Attempt
<1>2. ASSUME NEW word \in {"ok", "err", "fail"}
      PROVE  /\ Append(r.outs, word) \in Seq({"ok", "err", "fail"})
             /\ Len(Append(r.outs, word)) = Len(r.outs) + 1
             /\ Append(r.outs, word)[Len(r.outs) + 1] = word
             /\ \A n \in 1 .. Len(r.outs) : Append(r.outs, word)[n] = r.outs[n]
             /\ Len(r.outs) \in Nat
  BY <1>1, AppendProperties DEF GoodCall
<1>3. GoodCall([r EXCEPT !.outs = Append(@, "err")])
      /\ [r EXCEPT !.outs = Append(@, "err")].dirty = {}
  <2> DEFINE s == [r EXCEPT !.outs = Append(@, "err")]
  <2>1. /\ CallShape(s) /\ s.outs = Append(r.outs, "err") /\ s.pc = r.pc /\ s.from = r.from
        /\ s.pending = r.pending /\ s.dirty = r.dirty
    BY <1>1 DEF GoodCall, CallShape
  <2> HIDE DEF s
  <2>2. r.pending # <<>> => EarnedBy(Append(r.outs, "err"), r.from, Len(r.outs) + 1 + 1)
    BY <1>1, <1>2, SMTT(30) DEF GoodCall, EarnedBy
  <2>3. GoodCall(s) /\ s.dirty = {}
    BY <1>1, <1>2, <2>1, <2>2 DEF GoodCall
  <2> QED BY <2>3 DEF s
<1>4. ASSUME NEW word \in {"ok", "fail"}, NEW proposed
      PROVE  LET next == [[r EXCEPT !.outs = Append(@, word)] EXCEPT
                             !.pc = "feedback", !.feed = r.pending, !.pending = <<>>, !.fresh = proposed]
             IN  GoodCall(next) /\ next.dirty = {}
  <2> DEFINE next == [[r EXCEPT !.outs = Append(@, word)] EXCEPT
                         !.pc = "feedback", !.feed = r.pending, !.pending = <<>>, !.fresh = proposed]
  <2>1. /\ CallShape(next) /\ next.outs = Append(r.outs, word) /\ next.pc = "feedback"
        /\ next.from = r.from /\ next.feed = r.pending /\ next.dirty = r.dirty
    BY <1>1 DEF GoodCall, CallShape
  <2>2. r.pending # <<>> => EarnedBy(Append(r.outs, word), r.from, Len(r.outs) + 1)
    BY <1>1, <1>2 DEF GoodCall, EarnedBy
  <2> HIDE DEF next
  <2>3. GoodCall(next) /\ next.dirty = {}
    BY <1>1, <1>2, <2>1, <2>2 DEF GoodCall
  <2> QED BY <2>3 DEF next
<1>5. PICK s : GoodCall(s) /\ s.dirty = {} /\ call' = [call EXCEPT ![c] = s]
  <2>1. PICK out \in {"ok", "err"} \cup Failures :
          LET fails == out \in Failures
              n == Len(r.outs) + 1
              step == [r EXCEPT !.outs = Append(@, IF fails THEN "fail" ELSE out)]
          IN  call' = [call EXCEPT ![c] =
                IF out = "err"
                THEN IF n = MaxRetries + 1 THEN NoCall ELSE step
                ELSE [step EXCEPT !.pc = "feedback", !.feed = r.pending,
                                  !.pending = <<>>, !.fresh = IF fails THEN Proposed(out) ELSE <<>>]]
    BY DEF Attempt
  <2>2. "err" \notin Failures /\ "ok" \notin Failures
    BY LearningAssumption DEF FailureModes
  <2> HIDE DEF r
  <2>3. CASE out = "err" /\ Len(r.outs) + 1 = MaxRetries + 1
    BY <2>1, <2>3, NoCallIsGood
  <2>4. CASE out = "err" /\ Len(r.outs) + 1 # MaxRetries + 1
    BY <1>3, <2>1, <2>2, <2>4
  <2>5. CASE out = "ok"
    BY <1>4, <2>1, <2>2, <2>5
  <2>6. CASE out \in Failures
    BY <1>4, <2>1, <2>2, <2>6
  <2> QED BY <2>1, <2>3, <2>4, <2>5, <2>6
<1>6. CreditsAreEarned' /\ learned' = [k \in Categories |-> learned'[k]]
  BY DEF Attempt, LearningInv, CreditsAreEarned, LearningShape
<1> QED BY <1>1, <1>5, <1>6, ChangeBuckets DEF Attempt

\* Feedback: the outcome goes to an instinct an earlier failure proposed.
LEMMA CreditStep ==
  ASSUME LearningInv, NEW c \in Callers, Credit(c)
  PROVE  LearningInv'
<1> DEFINE r == call[c]
           id == Head(r.feed)
           s == [r EXCEPT !.dirty = {Category[id]}, !.feed = IF @ = <<>> THEN @ ELSE Tail(@),
                          !.fresh = IF r.feed = <<>> THEN Tail(@) ELSE @]
<1>1. GoodCall(r) /\ r.pc = "feedback" /\ r.dirty = {} /\ r.feed # <<>>
  BY DEF LearningInv, CallsOK, Credit, Credited
<1>2. call' = [call EXCEPT ![c] = s]
  BY DEF Credit, Credited
<1>3. GoodCall(s) /\ s.dirty = {Category[id]}
  <2>1. /\ CallShape(s) /\ s.dirty = {Category[id]} /\ s.pc = r.pc /\ s.outs = r.outs
        /\ s.from = r.from
    BY <1>1 DEF GoodCall, CallShape
  <2> HIDE DEF s
  <2> QED BY <1>1, <2>1 DEF GoodCall
<1>4. CreditsAreEarned'
  <2>1. EarnedBy(r.outs, r.from, Len(r.outs))
    BY <1>1 DEF GoodCall
  <2>2. credits' = credits \cup {[by |-> c, outs |-> r.outs, id |-> id, from |-> r.from,
                                  decided |-> Len(r.outs)]}
    BY DEF Credit, Credited
  <2> QED BY <2>1, <2>2 DEF LearningInv, CreditsAreEarned, EarnedBy
<1>5. learned' = [k \in Categories |-> learned'[k]]
      /\ \A k \in Categories : learned'[k] # learned[k] => k \in s.dirty
  BY <1>3 DEF Credit, Credited, LearningInv, LearningShape
<1> QED BY <1>1, <1>2, <1>3, <1>4, <1>5, ChangeBuckets DEF Credit

\* The call ends, or what its failed attempt proposed is pending.
LEMMA DecideStep ==
  ASSUME LearningInv, NEW c \in Callers, Decide(c)
  PROVE  LearningInv'
<1> DEFINE r == call[c]
           s == [r EXCEPT !.pc = "idle", !.pending = r.fresh, !.fresh = <<>>, !.from = Len(r.outs)]
<1>1. GoodCall(r) /\ r.pc = "feedback" /\ r.dirty = {}
  BY DEF LearningInv, CallsOK, Decide
<1>2. CallShape(s) /\ s.pc = "idle" /\ s.outs = r.outs /\ s.from = Len(r.outs)
  BY <1>1 DEF GoodCall, CallShape
<1>3. r.outs[Len(r.outs)] # "ok" => GoodCall(s)
  <2> HIDE DEF s
  <2> QED BY <1>1, <1>2 DEF GoodCall, EarnedBy
<1>4. PICK next : GoodCall(next) /\ call' = [call EXCEPT ![c] = next]
  BY <1>3, NoCallIsGood DEF Decide
<1>5. CreditsAreEarned' /\ learned' = [k \in Categories |-> learned'[k]]
  BY DEF Decide, LearningInv, CreditsAreEarned, LearningShape
<1> QED BY <1>1, <1>4, <1>5, ChangeBuckets DEF Decide

\* A save of a bucket, whoever changed it, and a save that fails.
LEMMA PersistingStep ==
  ASSUME LearningInv, NEW c \in Callers, PersistCategory(c) \/ PersistCategoryFails(c)
  PROVE  LearningInv'
<1>1. PICK ks : call' = [call EXCEPT ![c].dirty = ks] /\ (PersistCategoryFails(c) => ks = {})
                /\ (~PersistCategoryFails(c) => \E k \in call[c].dirty :
                      /\ ks = call[c].dirty \ {k} /\ files' = [files EXCEPT ![k] = learned[k]]
                      /\ unsaved' = unsaved \ {k})
  BY DEF PersistCategory, PersistCategoryFails, Saved
<1> DEFINE s == [call[c] EXCEPT !.dirty = ks]
<1>2. GoodCall(s) /\ s.dirty = ks
  BY DirtyOnly DEF LearningInv, CallsOK
<1>3. call' = [call EXCEPT ![c] = s]
  BY <1>1
<1> HIDE DEF s
<1>4. /\ CallsOK' /\ DOMAIN call' = Callers /\ call'[c].dirty = ks
      /\ \A d \in Callers \ {c} : call'[d] = call[d]
  BY <1>2, <1>3, OneCall
<1>5. UNCHANGED <<policy, learned, torn, credits>>
  BY DEF PersistCategory, PersistCategoryFails
<1>6. LearningShape' /\ CreditsAreEarned'
  BY <1>4, <1>5 DEF LearningInv, LearningShape, CreditsAreEarned, PersistCategory, PersistCategoryFails
<1>7. CASE PersistCategoryFails(c)
  <2>1. FilesLagInFlight'
    BY <1>4, <1>5, <1>7 DEF LearningInv, FilesLagInFlight, Opened, PersistCategoryFails
  <2> QED BY <1>4, <1>6, <2>1 DEF LearningInv
<1>8. CASE ~PersistCategoryFails(c)
  <2>1. PICK k \in call[c].dirty : /\ ks = call[c].dirty \ {k} /\ unsaved' = unsaved \ {k}
                                   /\ files' = [files EXCEPT ![k] = learned[k]]
    BY <1>1, <1>8
  <2>2. \A j \in Categories : files'[j] = IF j = k THEN learned[j] ELSE files[j]
    BY <2>1 DEF LearningInv, LearningShape
  <2>3. FilesLagInFlight'
    BY <1>4, <1>5, <2>1, <2>2 DEF LearningInv, FilesLagInFlight, Opened
  <2> QED BY <1>4, <1>6, <2>3 DEF LearningInv
<1> QED BY <1>7, <1>8

\* A crash and a repair: what is read back is what the files hold.
LEMMA CrashRepairStep ==
  ASSUME LearningInv, Crash \/ Repair
  PROVE  LearningInv'
<1>1. CASE Crash
  <2>1. CallsOK' /\ CreditsAreEarned'
    BY <1>1, NoCallIsGood DEF Crash, CallsOK, CreditsAreEarned
  <2>2. LearningShape' /\ FilesLagInFlight'
    BY <1>1 DEF Crash, LearningInv, LearningShape, FilesLagInFlight, Opened
  <2> QED BY <2>1, <2>2 DEF LearningInv
<1>2. CASE Repair
  <2>1. CallsOK' /\ CreditsAreEarned'
    BY <1>2 DEF Repair, LearningInv, CallsOK, CreditsAreEarned
  <2>2. LearningShape' /\ FilesLagInFlight'
    BY <1>2 DEF Repair, LearningInv, LearningShape, FilesLagInFlight
  <2> QED BY <2>1, <2>2 DEF LearningInv
<1> QED BY <1>1, <1>2

\* Every step keeps the invariant.
LEMMA LearningNextInv == LearningInv /\ [LearningNext]_learningVars => LearningInv'
<1> SUFFICES ASSUME LearningInv, [LearningNext]_learningVars PROVE LearningInv'
  OBVIOUS
<1>1. CASE UNCHANGED learningVars
  BY <1>1 DEF learningVars, LearningInv, LearningShape, CallsOK, CreditsAreEarned,
              FilesLagInFlight, Opened
<1>2. CASE LearningNext
  BY <1>2, ToolsStep, AttemptStep, CreditStep, DecideStep, PersistingStep, CrashRepairStep
     DEF LearningNext
<1> QED BY <1>1, <1>2

\* For any callers, instincts and number of retries, and whatever crashes: an
\* instinct is judged only by the first outcome after the failure that
\* proposed it.
THEOREM CreditsAlwaysEarned == LearningSpec => []CreditsAreEarned
<1>1. LearningInv => CreditsAreEarned
  BY DEF LearningInv
<1> QED BY <1>1, LearningInitInv, LearningNextInv, PTL DEF LearningSpec

\* For any callers and instincts: the files lag behind the store only by saves
\* that some call still owes or that failed.
THEOREM FilesLagOnlyInFlight == LearningSpec => []FilesLagInFlight
<1>1. LearningInv => FilesLagInFlight
  BY DEF LearningInv
<1> QED BY <1>1, LearningInitInv, LearningNextInv, PTL DEF LearningSpec
=============================================================================
