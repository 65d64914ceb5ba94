---------------------------- MODULE AeonTimeline -----------------------------
(***************************************************************************)
(* Delivery of execution events to AEON-IQ's timeline.  Every delivery is  *)
(* a detached task with a sink of its own: online it posts its events one  *)
(* by one, each with retries and linked to the last one acknowledged;      *)
(* offline it appends them to a spool file that all tasks and the          *)
(* replaying process share without a lock.                                 *)
(*                                                                         *)
(* The server is external: a post may be lost on its way, answered with an *)
(* error, or stored with the answer lost.  A digest is the path of event   *)
(* numbers it commits to, so that digests of different chains differ.  All *)
(* events are those of one agent and one session, which share a chain.     *)
(***************************************************************************)
EXTENDS Integers, Sequences, FiniteSets, SequencesExt

CONSTANTS
  Tasks,          \* delivery tasks; each delivers once
  Kinds,          \* sequences of event types an execution reports
  TimelineAttempts, \* TIMELINE_MAX_ATTEMPTS
  MaxEvents,      \* bound: events reported
  MaxReplays      \* bound: replays that are started

ASSUME TimelineBounds ==
  /\ TimelineAttempts \in Nat \ {0} /\ MaxEvents \in Nat /\ MaxReplays \in Nat
  /\ Kinds \subseteq Seq(STRING)

VARIABLES
  task,       \* task -> its delivery
  events,     \* every event reported, in order; its index is its number
  spool,      \* [inode, lines] of the spool file; inode 0: there is none
  inodes,     \* inodes ever used
  replay,     \* the replaying process
  replays,    \* replays started
  timeline,   \* the server's timeline: events stored, in order
  promised,   \* history: events whose spooling was reported as done
  excused     \* history: event -> why it may be missing or stored twice

timelineVars == <<task, events, spool, inodes, replay, replays, timeline, promised, excused>>

-----------------------------------------------------------------------------
\* from_event and timeline_event_id: a snapshot or a capsule is identified by
\* its UUID; a denial has nothing of its own.
EventId(n) == IF events[n] = "capability_denied" THEN <<events[n]>> ELSE <<events[n], n>>

\* timeline_event_body_digest over the body and its prev_event_digest.
Digest(n, prev) == Append(prev, n)

\* verify_timeline_chain.
VerifyChain(bodies) ==
  \A i \in DOMAIN bodies :
    bodies[i].prev = IF i = 1 THEN <<>> ELSE Digest(bodies[i - 1].n, bodies[i - 1].prev)

NoFile == [inode |-> 0, lines |-> <<>>]
IdsIn(lines) == {EventId(n) : n \in ToSet(lines)}
Excuse(ns, why) == excused' = [n \in DOMAIN excused \cup ns |->
                                 IF n \in ns THEN why ELSE excused[n]]

NoTask == [at |-> "new", left |-> <<>>, seen |-> {}, handle |-> 0, late |-> FALSE, last |-> <<>>,
           try |-> 0, acked |-> <<>>, ok |-> TRUE, spooled |-> {}]
Finished(status) == [NoTask EXCEPT !.at = status]
NoReplay == [at |-> "off", left |-> <<>>, seen |-> {}, retained |-> <<>>, last |-> <<>>, try |-> 0,
             acked |-> <<>>, read |-> {}]

TimelineInit ==
  /\ task = [t \in Tasks |-> NoTask]
  /\ events = <<>> /\ spool = NoFile /\ inodes = 0
  /\ replay = NoReplay /\ replays = 0
  /\ timeline = <<>> /\ promised = {} /\ excused = <<>>

-----------------------------------------------------------------------------
\* An execution reports its events (daemon_proof_events, proof_events) and a
\* task is spawned for them, in the mode of the request.
Queue(t) ==
  /\ task[t].at = "new"
  /\ \E kinds \in Kinds, mode \in {"online", "offline"} :
       /\ Len(events) + Len(kinds) <= MaxEvents
       /\ events' = events \o kinds
       /\ task' = [task EXCEPT ![t].left = [i \in DOMAIN kinds |-> Len(events) + i],
                               ![t].at = IF mode = "online" THEN "post" ELSE "ids"]
  /\ UNCHANGED <<spool, inodes, replay, replays, timeline, promised, excused>>

\* post_json as the sink sees it, and what the server stored.
Posts == {[answer |-> "success", stored |-> TRUE], [answer |-> "none", stored |-> TRUE],
          [answer |-> "none", stored |-> FALSE], [answer |-> "server_error", stored |-> FALSE],
          [answer |-> "refused", stored |-> FALSE]}

\* post_event_with_retry, after an attempt: a success is recorded, no answer
\* and a 5xx are tried again, and the event is given up on otherwise.
Retries(post, try) == post.answer \in {"none", "server_error"} /\ try + 1 < TimelineAttempts

StoreNode(n, prev, post) ==
  timeline' = IF post.stored THEN Append(timeline, [n |-> n, prev |-> prev]) ELSE timeline

\* An answer that was lost is why an event may be stored more than once.
ExcuseLostAnswer(n, post) ==
  IF post.answer = "none" /\ post.stored THEN Excuse({n}, "answer_lost") ELSE UNCHANGED excused

\* Mutant of AfterPost: the chain goes on from an event that was not stored.
AfterPostAlways(s, post) ==
  LET n == Head(s.left) IN
  IF Retries(post, s.try) THEN [s EXCEPT !.try = @ + 1]
  ELSE [s EXCEPT !.try = 0, !.left = Tail(@), !.last = Digest(n, s.last),
                 !.acked = IF post.answer = "success" THEN Append(@, [n |-> n, prev |-> s.last]) ELSE @]

\* The sink after an attempt; record_timeline_event_digest moves the chain on.
AfterPost(s, post) ==
  LET n == Head(s.left) IN
  IF Retries(post, s.try) THEN [s EXCEPT !.try = @ + 1]
  ELSE IF post.answer = "success"
  THEN [s EXCEPT !.try = 0, !.left = Tail(@), !.last = Digest(n, s.last),
                 !.acked = Append(@, [n |-> n, prev |-> s.last])]
  ELSE [s EXCEPT !.try = 0, !.left = Tail(@)]

\* deliver, online: link_timeline_event and one attempt.
Post(t) ==
  /\ task[t].at = "post" /\ task[t].left # <<>>
  /\ \E post \in Posts :
       /\ StoreNode(Head(task[t].left), task[t].last, post)
       /\ ExcuseLostAnswer(Head(task[t].left), post)
       /\ task' = [task EXCEPT ![t] =
            [AfterPost(task[t], post) EXCEPT
               !.ok = @ /\ (post.answer = "success" \/ Retries(post, task[t].try))]]
  /\ UNCHANGED <<events, spool, inodes, replay, replays, promised>>

Delivered(t) ==
  /\ task[t].at = "post" /\ task[t].left = <<>>
  /\ task' = [task EXCEPT ![t] = Finished(IF task[t].ok THEN "delivered" ELSE "failed")]
  /\ UNCHANGED <<events, spool, inodes, replay, replays, timeline, promised, excused>>

-----------------------------------------------------------------------------
\* spool_events: the ids already in the file are read before it is opened.
ReadIds(t) ==
  /\ task[t].at = "ids"
  /\ task' = [task EXCEPT ![t].seen = IdsIn(spool.lines), ![t].at = "open"]
  /\ UNCHANGED <<events, spool, inodes, replay, replays, timeline, promised, excused>>

OpenSpool(t) ==
  /\ task[t].at = "open"
  /\ \/ /\ task' = [task EXCEPT ![t] = Finished("failed")] /\ UNCHANGED <<spool, inodes>>
     \/ /\ spool' = IF spool.inode = 0 THEN [inode |-> inodes + 1, lines |-> <<>>] ELSE spool
        /\ inodes' = IF spool.inode = 0 THEN inodes + 1 ELSE inodes
        /\ task' = [task EXCEPT ![t].handle = spool'.inode, ![t].at = "append"]
  /\ UNCHANGED <<events, replay, replays, timeline, promised, excused>>

\* One record: skipped when its id was seen, otherwise handed to the file.  A
\* handle of a file that was removed meanwhile swallows it, and a write that
\* fails shows at the next one: write_all only queues it.
AppendRecord(t) ==
  LET n == Head(task[t].left)
      twin == EventId(n) \in task[t].seen
      next == [task[t] EXCEPT !.left = Tail(@), !.seen = @ \cup {EventId(n)},
                              !.spooled = @ \cup {n}]
  IN /\ task[t].at = "append" /\ task[t].left # <<>>
     /\ CASE twin ->
               /\ task' = [task EXCEPT ![t] = next]
               /\ Excuse({n}, "twin") /\ UNCHANGED spool
          [] ~twin /\ task[t].late ->
               /\ task' = [task EXCEPT ![t] = Finished("failed")] /\ UNCHANGED <<spool, excused>>
          [] OTHER ->
               \/ /\ task' = [task EXCEPT ![t] = next]
                  /\ IF task[t].handle = spool.inode
                     THEN spool' = [spool EXCEPT !.lines = Append(@, n)] /\ UNCHANGED excused
                     ELSE Excuse({n}, "unlinked") /\ UNCHANGED spool
               \/ /\ task' = [task EXCEPT ![t] = [next EXCEPT !.late = TRUE]]
                  /\ Excuse({n}, "write_failed") /\ UNCHANGED spool
     /\ UNCHANGED <<events, inodes, replay, replays, timeline, promised>>

\* flush is best effort: its error is not reported.
Flush(t) ==
  /\ task[t].at = "append" /\ task[t].left = <<>>
  /\ task' = [task EXCEPT ![t] = Finished("spooled")]
  /\ promised' = promised \cup task[t].spooled
  /\ UNCHANGED <<events, spool, inodes, replay, replays, timeline, excused>>

-----------------------------------------------------------------------------
\* replay_spooled_events, with a sink of its own, in another process: the file
\* is read once, at the start; no file is an empty report.
ReplayRead ==
  /\ replay.at = "off" /\ replays < MaxReplays /\ spool.inode # 0
  /\ replay' = [NoReplay EXCEPT !.at = "post", !.left = spool.lines, !.read = ToSet(spool.lines)]
  /\ replays' = replays + 1
  /\ UNCHANGED <<task, events, spool, inodes, timeline, promised, excused>>

\* A record that is not for this agent, too old or unreadable is retained.
ReplaySkip ==
  /\ replay.at = "post" /\ replay.left # <<>> /\ replay.try = 0
  /\ replay' = [replay EXCEPT !.left = Tail(@), !.retained = Append(@, Head(replay.left))]
  /\ UNCHANGED <<task, events, spool, inodes, replays, timeline, promised, excused>>

\* A second record of an id is dropped.
ReplayDrop ==
  LET n == Head(replay.left) IN
  /\ replay.at = "post" /\ replay.left # <<>> /\ replay.try = 0
  /\ EventId(n) \in replay.seen
  /\ replay' = [replay EXCEPT !.left = Tail(@)]
  /\ Excuse({n}, "twin")
  /\ UNCHANGED <<task, events, spool, inodes, replays, timeline, promised>>

\* Mutant of Retain: a record that could not be delivered is forgotten.
RetainNone(n, retained) == retained

\* Records that failed stay for the next replay.
Retain(n, retained) == Append(retained, n)

ReplayPost ==
  LET n == Head(replay.left) IN
  /\ replay.at = "post" /\ replay.left # <<>>
  /\ replay.try > 0 \/ EventId(n) \notin replay.seen
  /\ \E post \in Posts :
       /\ StoreNode(n, replay.last, post)
       /\ ExcuseLostAnswer(n, post)
       /\ replay' = [AfterPost(replay, post) EXCEPT
            !.seen = @ \cup {EventId(n)},
            !.retained = IF post.answer = "success" \/ Retries(post, replay.try) THEN @
                         ELSE Retain(n, @)]
  /\ UNCHANGED <<task, events, spool, inodes, replays, promised>>

\* rewrite_spool: nothing retained removes the file; otherwise it is truncated
\* and written, and what other tasks appended since the read is lost.
Clobbered == ToSet(spool.lines) \ replay.read

RewriteRemoves ==
  /\ replay.at = "post" /\ replay.left = <<>> /\ replay.retained = <<>>
  /\ Excuse(Clobbered, "clobbered")
  /\ spool' = NoFile /\ replay' = NoReplay
  /\ UNCHANGED <<task, events, inodes, replays, timeline, promised>>

RewriteTruncates ==
  /\ replay.at = "post" /\ replay.left = <<>> /\ replay.retained # <<>>
  /\ Excuse(Clobbered, "clobbered")
  /\ spool' = IF spool.inode = 0 THEN [inode |-> inodes + 1, lines |-> <<>>]
              ELSE [spool EXCEPT !.lines = <<>>]
  /\ inodes' = IF spool.inode = 0 THEN inodes + 1 ELSE inodes
  /\ replay' = [replay EXCEPT !.at = "write"]
  /\ UNCHANGED <<task, events, replays, timeline, promised>>

\* The retained records overwrite as many records as were appended meanwhile.
RewriteWrites ==
  /\ replay.at = "write"
  /\ LET beyond == SubSeq(spool.lines, Len(replay.retained) + 1, Len(spool.lines))
     IN /\ Excuse(ToSet(spool.lines) \ ToSet(beyond), "clobbered")
        /\ spool' = [spool EXCEPT !.lines = replay.retained \o beyond]
  /\ replay' = NoReplay
  /\ UNCHANGED <<task, events, inodes, replays, timeline, promised>>

\* The process is killed, or the rewrite fails: what was delivered is still in
\* the file, and a truncated file has lost what was retained.
ReplayStops ==
  /\ replay.at # "off"
  /\ IF replay.at = "write" THEN Excuse(ToSet(replay.retained), "truncated")
     ELSE Excuse({replay.acked[i].n : i \in DOMAIN replay.acked}, "redelivered")
  /\ replay' = NoReplay
  /\ UNCHANGED <<task, events, spool, inodes, replays, timeline, promised>>

TimelineNext ==
  \/ \E t \in Tasks : \/ Queue(t) \/ Post(t) \/ Delivered(t) \/ ReadIds(t)
                      \/ OpenSpool(t) \/ AppendRecord(t) \/ Flush(t)
  \/ ReplayRead \/ ReplaySkip \/ ReplayDrop \/ ReplayPost
  \/ RewriteRemoves \/ RewriteTruncates \/ RewriteWrites \/ ReplayStops

TimelineSpec == TimelineInit /\ [][TimelineNext]_timelineVars

-----------------------------------------------------------------------------
Stored(n) == {i \in DOMAIN timeline : timeline[i].n = n}

\* The events a sink got acknowledged, a task's or a replay's, form a chain
\* that verify_timeline_chain accepts, whatever was lost, retried and given up
\* in between.
AckedChainVerifies ==
  VerifyChain(replay.acked) /\ \A t \in Tasks : VerifyChain(task[t].acked)

\* Once a task reported its events as spooled, every one of them is in the
\* file, on the server, in the hands of a replay, or lost to one of the causes
\* the design leaves open (a twin of its id, a concurrent rewrite, a removed
\* file, a late write error, a torn rewrite).
SpooledIsAccounted ==
  \A n \in promised : \/ n \in ToSet(spool.lines) \/ Stored(n) # {}
                      \/ n \in ToSet(replay.retained) \cup ToSet(replay.left)
                      \/ n \in DOMAIN excused

\* The comment of timeline_event_id: distinct events cannot collide, so an
\* event that was reported as spooled is never dropped as another's twin.
DistinctEventsKept == \A n \in promised : n \in DOMAIN excused => excused[n] # "twin"
=============================================================================
