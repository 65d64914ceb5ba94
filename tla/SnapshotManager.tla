--------------------------- MODULE SnapshotManager ---------------------------
(***************************************************************************)
(* The snapshot store of Nexus: a bounded ring of full snapshots with an   *)
(* id -> position index, an append-only list of differential snapshots     *)
(* chained to them, and optional one-file-per-snapshot persistence.        *)
(*                                                                         *)
(* Every method takes &self and is called from several threads at once;    *)
(* the state sits behind three RwLocks (buffer, diff_buffer, stats).  One  *)
(* action below is one critical section, with the thread-local work that   *)
(* precedes it, so the model has exactly the interleavings the locks       *)
(* leave: a base can be evicted between the check that found it and the    *)
(* read that uses it, and between the read and the push of the diff.       *)
(***************************************************************************)
EXTENDS Integers, Sequences, FiniteSets, Functions

CONSTANTS
  Threads,       \* callers of the manager
  Pages,         \* possible contents of one page of 4096 bytes
  Memories,      \* possible linear memories: sequences of pages
  Capacity,      \* capacity of the ring
  MaxDiffDepth,  \* max_diff_depth
  Persist,       \* persist_enabled
  MaxIds,        \* bound: snapshots (full and differential) ever created
  MaxRollbacks   \* bound: rollbacks counted by the statistics

ASSUME CapacityAssumption == Capacity \in Nat
ASSUME DepthAssumption    == MaxDiffDepth \in Nat
ASSUME PersistAssumption  == Persist \in BOOLEAN
ASSUME ThreadsAssumption  == IsFiniteSet(Threads)
ASSUME BoundAssumption    == MaxIds \in Nat /\ MaxRollbacks \in Nat

VARIABLES
  snapshots,       \* SnapshotRingBuffer.snapshots, oldest first
  index,           \* SnapshotRingBuffer.index: id -> position (1-based)
  diffs,           \* diff_buffer
  totalSnapshots,  \* stats.total_snapshots
  totalRollbacks,  \* stats.total_rollbacks
  disk,            \* persist_dir: id -> file contents
  nextId,          \* Uuid::new_v4: every id is handed out once
  captured,        \* history: the memory each id was created from
  pc,              \* where each thread is
  loc              \* the local variables of each thread's call

ring   == <<snapshots, index>>
stats  == <<totalSnapshots, totalRollbacks>>
vars   == <<snapshots, index, diffs, stats, disk, nextId, captured, pc, loc>>

Ids    == 1 .. MaxIds
NoMem  == << >>        \* "no memory": every member of Memories has pages

ASSUME MemoriesAssumption == Memories \subseteq Seq(Pages) \ {NoMem}

\* <id>.snap: no file, a file bincode cannot decode, a complete one
Absent        == [file |-> "absent", zstd |-> NoMem]
Torn          == [file |-> "torn",   zstd |-> NoMem]
Whole(memory) == [file |-> "whole",  zstd |-> memory]

(***************************************************************************)
(* Page-wise differences.  The pages are compressed one by one; zstd is    *)
(* lossless, so a dirty page stands for what its bytes decode to.          *)
(***************************************************************************)
SameSize(base, current) == Len(base) = Len(current)

\* compute_dirty_pages for memories of equal size
DirtyPages(base, current) ==
  [p \in {q \in DOMAIN current : base[q] # current[q]} |-> current[p]]

\* apply_diff, for a memory of the size the diff was taken at
ApplyDiff(memory, diff) ==
  [p \in DOMAIN memory |->
     IF p \in DOMAIN diff.dirty THEN diff.dirty[p] ELSE memory[p]]

(***************************************************************************)
(* The ring buffer.                                                        *)
(***************************************************************************)
\* Positions of a rebuilt index
IndexOf(seq) ==
  [id \in {seq[i].id : i \in DOMAIN seq} |->
     CHOOSE i \in DOMAIN seq : seq[i].id = id]

\* Mutants of Push: the positions are not rebuilt; the newest is evicted
PushStaleIndex(snapshot) ==
  LET full == Len(snapshots) >= Capacity
      kept == IF full /\ snapshots # << >> THEN Tail(snapshots) ELSE snapshots
      idx  == IF full /\ snapshots # << >>
              THEN [id \in DOMAIN index \ {snapshots[1].id} |-> index[id]] ELSE index
  IN  /\ snapshots' = Append(kept, snapshot)
      /\ index' = [id \in DOMAIN idx \cup {snapshot.id} |->
                     IF id = snapshot.id THEN Len(kept) + 1 ELSE idx[id]]

PushEvictsNewest(snapshot) ==
  LET full == Len(snapshots) >= Capacity
      kept == IF full /\ snapshots # << >>
              THEN SubSeq(snapshots, 1, Len(snapshots) - 1) ELSE snapshots
      idx  == IF full THEN IndexOf(kept) ELSE index
  IN  /\ snapshots' = Append(kept, snapshot)
      /\ index' = [id \in DOMAIN idx \cup {snapshot.id} |->
                     IF id = snapshot.id THEN Len(kept) + 1 ELSE idx[id]]

\* SnapshotRingBuffer::push: evict the oldest at capacity and rebuild the
\* positions, then append
Push(snapshot) ==
  LET full == Len(snapshots) >= Capacity
      kept == IF full /\ snapshots # << >> THEN Tail(snapshots) ELSE snapshots
      idx  == IF full THEN IndexOf(kept) ELSE index
  IN  /\ snapshots' = Append(kept, snapshot)
      /\ index' = [id \in DOMAIN idx \cup {snapshot.id} |->
                     IF id = snapshot.id THEN Len(kept) + 1 ELSE idx[id]]

\* SnapshotRingBuffer::get
Has(id) == id \in DOMAIN index /\ index[id] \in DOMAIN snapshots
Get(id) == snapshots[index[id]]

\* Snapshot::decompress_memory: a stored snapshot keeps its zstd stream
DecompressMemory(snapshot) == snapshot.memory.zstd
Compressed(memory)         == [zstd |-> memory]

\* The first diff with this id; ids are unique
FindDiff(id) == {d \in Range(diffs) : d.id = id}

(***************************************************************************)
(* Threads.                                                                *)
(***************************************************************************)
Idle    == [op |-> "none", id |-> 0, base |-> 0, gen |-> 0,
            mem |-> NoMem, out |-> NoMem, chain |-> << >>]
Working == {"push", "persist", "promote", "full", "target", "walk", "base",
            "apply", "diff", "count"}
Ended   == {"ok", "none", "err"}

\* rollback_to_diff keeps the read guard of diff_buffer until it has read the
\* base; reconstruct_memory_for drops it right after the walk
HoldsDiffs(t) == pc[t] = "walk" \/ (pc[t] = "base" /\ loc[t].op = "rollback")

Goto(t, label)     == pc' = [pc EXCEPT ![t] = label]
Set(t, record)     == loc' = [loc EXCEPT ![t] = record]
Fail(t)            == Goto(t, "err") /\ UNCHANGED loc

Init ==
  /\ snapshots = << >>
  /\ index = [id \in {} |-> 0]
  /\ diffs = << >>
  /\ totalSnapshots = 0
  /\ totalRollbacks = 0
  /\ disk = [id \in Ids |-> Absent]
  /\ nextId = 1
  /\ captured = [id \in Ids |-> NoMem]
  /\ pc = [t \in Threads |-> "idle"]
  /\ loc = [t \in Threads |-> Idle]

(***************************************************************************)
(* create_snapshot: build the snapshot and count it, then push it, then    *)
(* write it out.                                                           *)
(***************************************************************************)
NewSnapshot(t, op, memory) ==
  /\ nextId <= MaxIds
  /\ nextId' = nextId + 1
  /\ captured' = [captured EXCEPT ![nextId] = memory]
  /\ totalSnapshots' = totalSnapshots + 1
  /\ Set(t, [Idle EXCEPT !.op = op, !.id = nextId, !.mem = memory])
  /\ Goto(t, "push")
  /\ UNCHANGED <<ring, diffs, totalRollbacks, disk>>

\* Bound: a call that may create a snapshot starts only when an id is left
\* for it
Creating(t) == loc[t].op = "diff" /\ pc[t] \in Working
IdLeft == nextId + Cardinality({t \in Threads : Creating(t)}) <= MaxIds

CreateSnapshot(t, memory) ==
  /\ pc[t] = "idle"
  /\ IdLeft
  /\ NewSnapshot(t, "create", memory)

CreatePush(t) ==
  /\ pc[t] = "push"
  /\ Push([id |-> loc[t].id, memory |-> Compressed(loc[t].mem)])
  /\ Goto(t, IF Persist THEN "persist" ELSE "ok")
  /\ UNCHANGED <<diffs, stats, disk, nextId, captured, loc>>

PersistSnapshot(t) ==
  /\ pc[t] = "persist"
  /\ disk' = [disk EXCEPT ![loc[t].id] = Whole(loc[t].mem)]
  /\ Goto(t, "ok")
  /\ UNCHANGED <<ring, diffs, stats, nextId, captured, loc>>

\* fs::write fails before or after it created the file
PersistFails(t) ==
  /\ pc[t] = "persist"
  /\ \E contents \in {Absent, Torn} :
       disk' = [disk EXCEPT ![loc[t].id] = contents]
  /\ Fail(t)
  /\ UNCHANGED <<ring, diffs, stats, nextId, captured>>

(***************************************************************************)
(* rollback_to: find and decompress under one read guard, then count.      *)
(***************************************************************************)
RollbackTo(t, id) ==
  /\ pc[t] = "idle"
  /\ totalRollbacks < MaxRollbacks
  /\ IF Has(id)
     THEN /\ Set(t, [Idle EXCEPT !.op = "rollback", !.id = id,
                                 !.out = DecompressMemory(Get(id))])
          /\ Goto(t, "count")
     ELSE Fail(t)
  /\ UNCHANGED <<ring, diffs, stats, disk, nextId, captured>>

CountRollback(t) ==
  /\ pc[t] = "count"
  /\ totalRollbacks' = totalRollbacks + 1
  /\ Goto(t, "ok")
  /\ UNCHANGED <<ring, diffs, totalSnapshots, disk, nextId, captured, loc>>

(***************************************************************************)
(* create_diff_snapshot: the generation is read under its own guard; past  *)
(* the depth limit a full snapshot is taken instead.                       *)
(***************************************************************************)
\* Mutant of Generation: the base's own generation is forgotten
GenerationFlat(base) == 1

Generation(base) ==
  IF FindDiff(base) = {} THEN 1
  ELSE (CHOOSE d \in FindDiff(base) : TRUE).gen + 1

CreateDiffSnapshot(t, memory, base) ==
  /\ pc[t] = "idle"
  /\ IdLeft
  /\ Set(t, [Idle EXCEPT !.op = "diff", !.id = base, !.base = base,
                         !.gen = Generation(base), !.mem = memory])
  /\ Goto(t, IF Generation(base) > MaxDiffDepth THEN "promote" ELSE "full")
  /\ UNCHANGED <<ring, diffs, stats, disk, nextId, captured>>

Promote(t) ==
  /\ pc[t] = "promote"
  /\ NewSnapshot(t, "promoted", loc[t].mem)

\* reconstruct_memory_for, first guard: is the base a full snapshot?
ReconstructFull(t) ==
  /\ pc[t] = "full"
  /\ IF Has(loc[t].base)
     THEN /\ Set(t, [loc[t] EXCEPT !.out = DecompressMemory(Get(loc[t].base))])
          /\ Goto(t, "diff")
     ELSE Goto(t, "target") /\ UNCHANGED loc
  /\ UNCHANGED <<ring, diffs, stats, disk, nextId, captured>>

\* Start of the walk: the target diff is found, or the call fails
StartWalk(t, op, id) ==
  /\ IF FindDiff(id) = {} THEN Fail(t)
     ELSE \E d \in FindDiff(id) :
            /\ Set(t, [loc[t] EXCEPT !.op = op, !.id = id, !.base = d.base,
                                     !.chain = <<d>>])
            /\ Goto(t, "walk")
  /\ UNCHANGED <<ring, diffs, stats, disk, nextId, captured>>

ReconstructTarget(t) ==
  /\ pc[t] = "target"
  /\ StartWalk(t, "diff", loc[t].base)

\* rollback_to_diff
RollbackToDiff(t, id) ==
  /\ pc[t] = "idle"
  /\ totalRollbacks < MaxRollbacks
  /\ StartWalk(t, "rollback", id)

\* Mutant of Walk: a broken chain is retried
WalkRetries(t) ==
  /\ pc[t] = "walk"
  /\ LET parents == FindDiff(loc[t].base) IN
     IF Has(loc[t].base) THEN Goto(t, "base") /\ UNCHANGED loc
     ELSE IF parents = {} THEN UNCHANGED <<pc, loc>>
     ELSE \E d \in parents :
            /\ Set(t, [loc[t] EXCEPT !.base = d.base, !.chain = <<d>> \o @])
            /\ UNCHANGED pc
  /\ UNCHANGED <<ring, diffs, stats, disk, nextId, captured>>

\* One turn of the loop shared by both walks: stop at a full snapshot, else
\* step to the parent diff, else "Diff chain broken".  Pushing onto `chain`
\* and reversing it at the end is prepending.
Walk(t) ==
  /\ pc[t] = "walk"
  /\ LET parents == FindDiff(loc[t].base) IN
     IF Has(loc[t].base) THEN Goto(t, "base") /\ UNCHANGED loc
     ELSE IF parents = {} THEN Fail(t)
     ELSE \E d \in parents :
            /\ Set(t, [loc[t] EXCEPT !.base = d.base,
                                     !.chain = <<d>> \o @])
            /\ UNCHANGED pc
  /\ UNCHANGED <<ring, diffs, stats, disk, nextId, captured>>

\* The base is looked up again, now to be read
ReadBase(t) ==
  /\ pc[t] = "base"
  /\ IF Has(loc[t].base)
     THEN /\ Set(t, [loc[t] EXCEPT !.out = DecompressMemory(Get(loc[t].base))])
          /\ Goto(t, "apply")
     ELSE Fail(t)
  /\ UNCHANGED <<ring, diffs, stats, disk, nextId, captured>>

\* Mutant of ApplyNext: a rebuilt memory goes back into the ring as a full
\* snapshot of its id
ApplyNextCaches(t) ==
  /\ pc[t] = "apply"
  /\ IF loc[t].chain = << >>
     THEN /\ Goto(t, IF loc[t].op = "diff" THEN "diff" ELSE "count")
          /\ Push([id |-> loc[t].id, memory |-> Compressed(loc[t].out)])
          /\ UNCHANGED loc
     ELSE IF Len(loc[t].out) = Head(loc[t].chain).size
     THEN /\ Set(t, [loc[t] EXCEPT !.out = ApplyDiff(@, Head(loc[t].chain)),
                                   !.chain = Tail(@)])
          /\ UNCHANGED <<ring, pc>>
     ELSE Fail(t) /\ UNCHANGED ring
  /\ UNCHANGED <<diffs, stats, disk, nextId, captured>>

\* apply_diff_chain: the oldest diff first, and a memory of another size than
\* the diff's ends the call
ApplyNext(t) ==
  /\ pc[t] = "apply"
  /\ IF loc[t].chain = << >>
     THEN Goto(t, IF loc[t].op = "diff" THEN "diff" ELSE "count") /\ UNCHANGED loc
     ELSE IF Len(loc[t].out) = Head(loc[t].chain).size
     THEN /\ Set(t, [loc[t] EXCEPT !.out = ApplyDiff(@, Head(loc[t].chain)),
                                   !.chain = Tail(@)])
          /\ UNCHANGED pc
     ELSE Fail(t)
  /\ UNCHANGED <<ring, diffs, stats, disk, nextId, captured>>

\* DiffSnapshot::new against the memory read above, then the push, which
\* waits for the readers of diff_buffer.  loc.id is still the base the caller
\* named, whatever has become of it meanwhile.
PushDiff(t) ==
  /\ pc[t] = "diff"
  /\ nextId <= MaxIds
  /\ \A u \in Threads : ~HoldsDiffs(u)
  /\ SameSize(loc[t].out, loc[t].mem)
  /\ diffs' = Append(diffs,
                [id    |-> nextId,
                 base  |-> loc[t].id,
                 dirty |-> DirtyPages(loc[t].out, loc[t].mem),
                 size  |-> Len(loc[t].mem),
                 gen   |-> loc[t].gen])
  /\ nextId' = nextId + 1
  /\ captured' = [captured EXCEPT ![nextId] = loc[t].mem]
  /\ Set(t, [Idle EXCEPT !.op = "diff", !.id = nextId])
  /\ Goto(t, "ok")
  /\ UNCHANGED <<ring, stats, disk>>

DiffSizeMismatch(t) ==
  /\ pc[t] = "diff"
  /\ ~SameSize(loc[t].out, loc[t].mem)
  /\ Fail(t)
  /\ UNCHANGED <<ring, diffs, stats, disk, nextId, captured>>

(***************************************************************************)
(* load_snapshot reads the file back; it does not re-enter the ring.       *)
(***************************************************************************)
\* Mutant of LoadSnapshot: a file that exists is taken for a complete one
LoadSnapshotUnchecked(t, id) ==
  /\ pc[t] = "idle"
  /\ Persist
  /\ LET contents == IF id \in Ids THEN disk[id] ELSE Absent IN
     \/ contents = Absent /\ Goto(t, "none") /\ UNCHANGED loc
     \/ /\ contents # Absent
        /\ Set(t, [Idle EXCEPT !.op = "load", !.id = id, !.out = contents.zstd])
        /\ Goto(t, "ok")
  /\ UNCHANGED <<ring, diffs, stats, disk, nextId, captured>>

\* A torn file does not deserialize; any file may be unreadable, or larger than
\* MAX_SNAPSHOT_BYTES, which is refused.
LoadSnapshot(t, id) ==
  /\ pc[t] = "idle"
  /\ Persist
  /\ LET contents == IF id \in Ids THEN disk[id] ELSE Absent IN
     \/ contents = Absent /\ Goto(t, "none") /\ UNCHANGED loc
     \/ contents # Absent /\ Fail(t)
     \/ /\ contents \notin {Absent, Torn}
        /\ Set(t, [Idle EXCEPT !.op = "load", !.id = id, !.out = contents.zstd])
        /\ Goto(t, "ok")
  /\ UNCHANGED <<ring, diffs, stats, disk, nextId, captured>>

\* The call returns to its caller
Return(t) ==
  /\ pc[t] \in Ended
  /\ Goto(t, "idle")
  /\ Set(t, Idle)
  /\ UNCHANGED <<ring, diffs, stats, disk, nextId, captured>>

\* The process dies and a new manager opens the same directory: memory is
\* lost, a file being written may be left torn
Restart ==
  /\ Persist
  /\ snapshots' = << >>
  /\ index' = [id \in {} |-> 0]
  /\ diffs' = << >>
  /\ totalSnapshots' = 0
  /\ totalRollbacks' = 0
  /\ pc' = [t \in Threads |-> "idle"]
  /\ loc' = [t \in Threads |-> Idle]
  /\ \E torn \in SUBSET {loc[t].id : t \in {u \in Threads : pc[u] = "persist"}} :
       disk' = [id \in Ids |-> IF id \in torn THEN Torn ELSE disk[id]]
  /\ UNCHANGED <<nextId, captured>>

\* The steps of a call that is under way
Step(t) ==
  \/ CreatePush(t) \/ PersistSnapshot(t) \/ PersistFails(t)
  \/ CountRollback(t)
  \/ Promote(t) \/ ReconstructFull(t) \/ ReconstructTarget(t)
  \/ Walk(t) \/ ReadBase(t) \/ ApplyNext(t) \/ PushDiff(t) \/ DiffSizeMismatch(t)
  \/ Return(t)

\* Ids a caller can name: a random UUID is known only once the snapshot that
\* carries it is in the store; 0 stands for an id no snapshot ever had
Unknown == 0
KnownIds == {Unknown} \cup
            {id \in 1 .. (nextId - 1) :
               \A u \in Threads : ~(pc[u] = "push" /\ loc[u].id = id)}

Call(t) ==
  \/ \E memory \in Memories : CreateSnapshot(t, memory)
  \/ \E memory \in Memories, base \in KnownIds : CreateDiffSnapshot(t, memory, base)
  \/ \E id \in KnownIds : \/ RollbackTo(t, id)
                          \/ RollbackToDiff(t, id)
                          \/ LoadSnapshot(t, id)

Next == (\E t \in Threads : Call(t) \/ Step(t)) \/ Restart

Spec == Init /\ [][Next]_vars

\* A thread inside the manager keeps running, and a writer waiting for
\* diff_buffer is not starved by readers (std's RwLock lets no new reader in
\* while a writer waits)
Fairness == \A t \in Threads : WF_vars(Step(t)) /\ SF_vars(PushDiff(t))
FairSpec == Spec /\ Fairness

(***************************************************************************)
(* Properties.                                                             *)
(***************************************************************************)
FileContents == {Absent, Torn} \cup {Whole(m) : m \in Memories}
PageMaps == UNION {{DirtyPages(a, b) : a \in {m \in Memories : SameSize(m, b)}}
                     : b \in Memories}
DiffRecord == [id : Ids, base : Ids, dirty : PageMaps,
               size : Nat, gen : 1 .. MaxDiffDepth]
Operations == {"none", "create", "promoted", "rollback", "diff", "load"}
Locals == [op : Operations, id : 0 .. MaxIds, base : 0 .. MaxIds, gen : Nat,
           mem : Memories \cup {NoMem}, out : Memories \cup {NoMem},
           chain : Seq(DiffRecord)]

\* The variables have the types of the fields they model; in particular a
\* memory that is read or rebuilt from a chain is one that some execution had.
TypeOK ==
  /\ snapshots \in Seq([id : Ids, memory : {Compressed(m) : m \in Memories}])
  /\ DOMAIN index \subseteq Ids /\ \A id \in DOMAIN index : index[id] \in Nat
  /\ diffs \in Seq(DiffRecord)
  /\ totalSnapshots \in Nat /\ totalRollbacks \in Nat
  /\ disk \in [Ids -> FileContents]
  /\ nextId \in 1 .. (MaxIds + 1)
  /\ captured \in [Ids -> Memories \cup {NoMem}]
  /\ pc \in [Threads -> {"idle"} \cup Working \cup Ended]
  /\ loc \in [Threads -> Locals]

\* Whatever the order of captures, evictions and restarts, the index names
\* exactly the retained snapshots and each at its position: rollback_to and
\* snapshot_content_digest find a snapshot iff the ring holds it.
IndexConsistent ==
  /\ DOMAIN index = {snapshots[i].id : i \in DOMAIN snapshots}
  /\ \A i \in DOMAIN snapshots : index[snapshots[i].id] = i

\* A memory handed back by rollback_to, rollback_to_diff or load_snapshot is
\* the memory that was captured under that id, and a base reconstructed for a
\* new diff is the memory of that base: a race with eviction, a chain of
\* diffs or a restart can make the call fail, never return another state.
RestoreFaithful ==
  \A t \in Threads :
    /\ pc[t] \in {"count", "ok"} /\ loc[t].op \in {"rollback", "load"} =>
         loc[t].out = captured[loc[t].id]
    /\ pc[t] = "diff" => loc[t].out = captured[loc[t].id]

\* Every diff is one generation above the diff it is based on (the first
\* generation sits on a full snapshot), no chain is deeper than
\* max_diff_depth, and bases are older than their diffs, so every walk ends.
GenerationIsDepth ==
  \A i \in DOMAIN diffs :
    LET d == diffs[i]
        below == FindDiff(d.base)
    IN  /\ d.gen <= MaxDiffDepth
        /\ d.base < d.id
        /\ IF below = {} THEN d.gen = 1 ELSE \E b \in below : d.gen = b.gen + 1

\* The store as its callers see it: ids count as given out once the snapshot
\* is in the ring or the diff list
Store == INSTANCE SnapshotStore WITH
  retained <- [i \in DOMAIN snapshots |-> snapshots[i].id],
  parent   <- [id \in {d.id : d \in Range(diffs)} |->
                 (CHOOSE d \in FindDiff(id) : TRUE).base],
  known    <- KnownIds \ {Unknown}

\* The threads together implement the abstract store: every push moves its
\* window by one, every diff is based on a snapshot that exists, and no walk,
\* failure or rollback changes it.
StoreSpec == Store!Spec

\* Once a snapshot cannot be restored, because the ring has evicted the full
\* snapshot below it, no later push, load or diff revives it.
OrphansStayLost ==
  [][\A id \in KnownIds : ~Store!Restorable(id, MaxDiffDepth)
                            => ~Store!Restorable(id, MaxDiffDepth)']_vars

\* Every call returns: walks end and no guard is held for ever.
CallsReturn == \A t \in Threads : pc[t] # "idle" ~> pc[t] = "idle"
====
