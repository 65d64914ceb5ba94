----------------------- MODULE SnapshotManagerProofs -----------------------
(***************************************************************************)
(* The snapshot manager gives back what was captured, for any number of    *)
(* threads, any memories, any capacity and any diff depth.                 *)
(*                                                                         *)
(* The inductive invariant says what each stored thing means in terms of   *)
(* `captured`: a retained snapshot holds the memory of its id, a diff is   *)
(* the difference of the memories of its id and its base, a chain under    *)
(* way links its ends without a gap, and the memory being patched is the   *)
(* one at the lower end of what is left of the chain.                      *)
(***************************************************************************)
EXTENDS SnapshotManager, ChainLemmas, SequenceTheorems, TLAPS

(***************************************************************************)
(* The invariant, as predicates of the captured memories and the next id.  *)
(***************************************************************************)
GoodDiff(d, cap, n) ==
  /\ d.id \in 1 .. (n - 1) /\ d.base \in 1 .. (n - 1)
  /\ SameSize(cap[d.base], cap[d.id])
  /\ d.size = Len(cap[d.base])
  /\ d.dirty = DirtyPages(cap[d.base], cap[d.id])

\* `chain` leads from `lower` up to `upper`
GoodChain(chain, lower, upper, cap, n) ==
  /\ \A i \in 1 .. Len(chain) :
       /\ GoodDiff(chain[i], cap, n)
       /\ chain[i].base = IF i = 1 THEN lower ELSE chain[i - 1].id
  /\ upper = IF Len(chain) = 0 THEN lower ELSE chain[Len(chain)].id

\* What a thread at `label` knows
GoodLocals(label, l, cap, n) ==
  /\ label \in {"push", "persist"} =>
       l.id \in 1 .. (n - 1) /\ l.mem = cap[l.id] /\ l.op \in {"create", "promoted"}
  /\ label \in {"promote", "full", "target", "diff"} =>
       l.op = "diff" /\ l.mem \in Memories
  /\ label \in {"full", "target"} => l.base = l.id /\ l.id < n
  /\ label \in {"full", "target", "walk", "base", "apply", "diff"} /\ l.op = "diff" =>
       l.gen \in 1 .. MaxDiffDepth /\ l.mem \in Memories
  /\ label \in {"walk", "base", "apply"} => l.op \in {"diff", "rollback"}
  /\ label \in {"walk", "base"} =>
       l.chain # << >> /\ GoodChain(l.chain, l.base, l.id, cap, n)
  /\ label = "apply" =>
       \E lower \in 1 .. (n - 1) : /\ GoodChain(l.chain, lower, l.id, cap, n)
                                  /\ l.out = cap[lower]
  /\ \/ label \in {"diff", "count"}
     \/ label = "ok" /\ l.op \in {"rollback", "load"}
     => l.id \in 1 .. (n - 1) /\ l.out = cap[l.id]
  /\ label = "count" => l.op = "rollback"

CapturedOK == \A id \in 1 .. (nextId - 1) : captured[id] \in Memories

RingOK ==
  \A i \in 1 .. Len(snapshots) :
    /\ snapshots[i].id \in 1 .. (nextId - 1)
    /\ DecompressMemory(snapshots[i]) = captured[snapshots[i].id]

DiffsOK == \A i \in 1 .. Len(diffs) : GoodDiff(diffs[i], captured, nextId)

DiskOK == \A id \in Ids : disk[id] \notin {Absent, Torn} =>
            id \in 1 .. (nextId - 1) /\ disk[id].zstd = captured[id]

ThreadsOK == \A t \in Threads : GoodLocals(pc[t], loc[t], captured, nextId)

\* A snapshot on its way into the ring is not there yet
InFlightOK ==
  /\ \A t \in Threads : pc[t] = "push" => loc[t].id \notin DOMAIN index
  /\ \A t, u \in Threads : pc[t] = "push" /\ pc[u] = "push" /\ t # u =>
       loc[t].id # loc[u].id

IInv == /\ TypeOK /\ IndexConsistent /\ CapturedOK /\ RingOK /\ DiffsOK
        /\ DiskOK /\ ThreadsOK /\ InFlightOK

USE MemoriesAssumption, CapacityAssumption, DepthAssumption, BoundAssumption

(***************************************************************************)
(* Lemmas about diffs and chains.                                          *)
(***************************************************************************)
\* A member of Memories is a nonempty sequence.
LEMMA MemoryIsSeq ==
  ASSUME NEW m \in Memories
  PROVE  /\ m \in Seq(Pages) /\ m # NoMem
         /\ Len(m) \in Nat /\ DOMAIN m = 1 .. Len(m)
         /\ m = [p \in 1 .. Len(m) |-> m[p]]
BY DEF NoMem

\* apply_diff with the diff of two memories turns the first into the second.
LEMMA PatchIsCaptured ==
  ASSUME NEW d, NEW cap, NEW n, GoodDiff(d, cap, n),
         cap[d.base] \in Memories, cap[d.id] \in Memories
  PROVE  ApplyDiff(cap[d.base], d) = cap[d.id]
<1> DEFINE a == cap[d.base]
           b == cap[d.id]
<1>1. DOMAIN a = 1 .. Len(a) /\ DOMAIN b = 1 .. Len(b) /\ Len(a) = Len(b)
  BY MemoryIsSeq DEF GoodDiff, SameSize
<1>2. b = [p \in 1 .. Len(b) |-> b[p]]
  BY MemoryIsSeq
<1>3. d.dirty = [p \in {q \in DOMAIN b : a[q] # b[q]} |-> b[p]]
  BY DEF GoodDiff, DirtyPages
<1>4. \A p \in DOMAIN a :
        (IF p \in DOMAIN d.dirty THEN d.dirty[p] ELSE a[p]) = b[p]
  BY <1>1, <1>3
<1> QED BY <1>1, <1>2, <1>4 DEF ApplyDiff

\* Ids below n keep their memories when later ids are given out.
Extends(cap, n, cap2, n2) ==
  /\ n \in Nat /\ n2 \in Nat /\ n <= n2
  /\ \A id \in 1 .. (n - 1) : cap2[id] = cap[id]

\* What is said of a diff depends only on the ids handed out and what they captured.
LEMMA GoodDiffStable ==
  ASSUME NEW d, NEW cap, NEW n, NEW cap2, NEW n2,
         Extends(cap, n, cap2, n2), GoodDiff(d, cap, n)
  PROVE  GoodDiff(d, cap2, n2)
BY DEF Extends, GoodDiff

\* The same for a chain a walk has collected.
LEMMA GoodChainStable ==
  ASSUME NEW chain, NEW lower, NEW upper, NEW cap, NEW n, NEW cap2, NEW n2,
         Extends(cap, n, cap2, n2), GoodChain(chain, lower, upper, cap, n)
  PROVE  GoodChain(chain, lower, upper, cap2, n2)
BY GoodDiffStable DEF GoodChain

\* The same for everything a thread knows.
LEMMA GoodLocalsStable ==
  ASSUME NEW label, NEW l, NEW cap, NEW n, NEW cap2, NEW n2,
         Extends(cap, n, cap2, n2), GoodLocals(label, l, cap, n),
         l.id \in Nat
  PROVE  GoodLocals(label, l, cap2, n2)
<1>1. \A lower, chain : GoodChain(chain, lower, l.id, cap, n)
                          => GoodChain(chain, lower, l.id, cap2, n2)
  BY GoodChainStable
<1>2. \A id \in 1 .. (n - 1) : id \in 1 .. (n2 - 1) /\ cap2[id] = cap[id]
  BY DEF Extends
<1>3. l.id < n => l.id < n2
  BY DEF Extends
<1> QED BY <1>1, <1>2, <1>3 DEF GoodLocals

\* get returns a snapshot of this id and of the memory captured under it.
LEMMA GetIsCaptured ==
  ASSUME IInv, NEW id, Has(id)
  PROVE  /\ id \in 1 .. (nextId - 1)
         /\ DecompressMemory(Get(id)) = captured[id]
         /\ captured[id] \in Memories
<1>1. PICK i \in DOMAIN snapshots : snapshots[i].id = id
  BY DEF IInv, IndexConsistent, Has
<1>2. index[id] = i
  BY <1>1 DEF IInv, IndexConsistent
<1>3. DOMAIN snapshots = 1 .. Len(snapshots)
  BY DEF IInv, TypeOK
<1> QED BY <1>1, <1>2, <1>3 DEF IInv, RingOK, CapturedOK, Get

\* A diff that the list holds.
LEMMA FoundDiff ==
  ASSUME IInv, NEW id, NEW d \in FindDiff(id)
  PROVE  d \in DiffRecord /\ d.id = id /\ GoodDiff(d, captured, nextId)
<1>1. DOMAIN diffs = 1 .. Len(diffs) /\ diffs \in Seq(DiffRecord)
  BY DEF IInv, TypeOK
<1>2. PICK i \in 1 .. Len(diffs) : d = diffs[i] /\ d.id = id
  BY <1>1 DEF FindDiff, Range
<1> QED BY <1>1, <1>2 DEF IInv, DiffsOK

Labels == {"idle"} \cup Working \cup Ended

\* A thread that only moves, and puts nothing into the store, keeps the
\* invariant when what it knows holds at its new place.
LEMMA LocalStep ==
  ASSUME IInv, NEW t \in Threads, NEW label \in Labels \ {"push"}, NEW l \in Locals,
         GoodLocals(label, l, captured, nextId),
         pc' = [pc EXCEPT ![t] = label], loc' = [loc EXCEPT ![t] = l],
         UNCHANGED <<ring, diffs, disk, nextId, captured>>,
         totalSnapshots' \in Nat, totalRollbacks' \in Nat
  PROVE  IInv'
<1>1. pc \in [Threads -> Labels] /\ loc \in [Threads -> Locals]
  BY DEF IInv, TypeOK, Labels
<1>2. \A u \in Threads : /\ pc'[u] = IF u = t THEN label ELSE pc[u]
                         /\ loc'[u] = IF u = t THEN l ELSE loc[u]
  BY <1>1
<1>3. TypeOK'
  BY <1>1 DEF IInv, TypeOK, Labels, ring
<1>4. IndexConsistent' /\ CapturedOK' /\ RingOK' /\ DiffsOK' /\ DiskOK'
  BY DEF IInv, IndexConsistent, CapturedOK, RingOK, DiffsOK, DiskOK, ring
<1>5. ThreadsOK'
  BY <1>2 DEF IInv, ThreadsOK
<1>6. InFlightOK'
  BY <1>2 DEF IInv, InFlightOK, ring
<1> QED BY <1>3, <1>4, <1>5, <1>6 DEF IInv

\* The locals of an idle thread.
LEMMA IdleIsLocals ==
  /\ Idle \in Locals
  /\ Idle.op = "none" /\ Idle.id = 0 /\ Idle.base = 0 /\ Idle.gen = 0
  /\ Idle.mem = NoMem /\ Idle.out = NoMem /\ Idle.chain = << >>
BY EmptySeq DEF Idle, Locals, Operations

\* Assigning fields of the locals.
LEMMA LocalsExcept ==
  ASSUME NEW l \in Locals
  PROVE  /\ \A o \in Operations, id \in 0 .. MaxIds :
              /\ [l EXCEPT !.op = o, !.id = id] \in Locals
              /\ \A out \in Memories \cup {NoMem} :
                   [l EXCEPT !.op = o, !.id = id, !.out = out] \in Locals
              /\ \A mem \in Memories \cup {NoMem} :
                   [l EXCEPT !.op = o, !.id = id, !.mem = mem] \in Locals
              /\ \A base \in 0 .. MaxIds, gen \in Nat, mem \in Memories \cup {NoMem} :
                   [l EXCEPT !.op = o, !.id = id, !.base = base, !.gen = gen,
                             !.mem = mem] \in Locals
              /\ \A base \in 0 .. MaxIds, chain \in Seq(DiffRecord) :
                   [l EXCEPT !.op = o, !.id = id, !.base = base,
                             !.chain = chain] \in Locals
         /\ \A base \in 0 .. MaxIds, chain \in Seq(DiffRecord) :
              [l EXCEPT !.base = base, !.chain = chain] \in Locals
         /\ \A out \in Memories \cup {NoMem} :
              /\ [l EXCEPT !.out = out] \in Locals
              /\ \A chain \in Seq(DiffRecord) :
                   [l EXCEPT !.out = out, !.chain = chain] \in Locals
<1>1. ASSUME NEW o \in Operations, NEW id \in 0 .. MaxIds
      PROVE  /\ [l EXCEPT !.op = o, !.id = id] \in Locals
             /\ \A out \in Memories \cup {NoMem} :
                  [l EXCEPT !.op = o, !.id = id, !.out = out] \in Locals
             /\ \A mem \in Memories \cup {NoMem} :
                  [l EXCEPT !.op = o, !.id = id, !.mem = mem] \in Locals
  BY <1>1 DEF Locals
<1>2. ASSUME NEW o \in Operations, NEW id \in 0 .. MaxIds, NEW base \in 0 .. MaxIds,
             NEW gen \in Nat, NEW mem \in Memories \cup {NoMem}
      PROVE  [l EXCEPT !.op = o, !.id = id, !.base = base, !.gen = gen, !.mem = mem] \in Locals
  BY <1>2 DEF Locals
<1>3. ASSUME NEW o \in Operations, NEW id \in 0 .. MaxIds, NEW base \in 0 .. MaxIds,
             NEW chain \in Seq(DiffRecord)
      PROVE  [l EXCEPT !.op = o, !.id = id, !.base = base, !.chain = chain] \in Locals
  BY <1>3 DEF Locals
<1>4. /\ \A base \in 0 .. MaxIds, chain \in Seq(DiffRecord) :
           [l EXCEPT !.base = base, !.chain = chain] \in Locals
      /\ \A out \in Memories \cup {NoMem} :
           /\ [l EXCEPT !.out = out] \in Locals
           /\ \A chain \in Seq(DiffRecord) :
                [l EXCEPT !.out = out, !.chain = chain] \in Locals
  BY DEF Locals
<1> QED BY <1>1, <1>2, <1>3, <1>4

\* Ends: a failed call and an idle thread know nothing.
LEMMA NothingKnown ==
  ASSUME NEW label \in {"idle", "err", "none"}, NEW l, NEW cap, NEW n
  PROVE  GoodLocals(label, l, cap, n)
BY DEF GoodLocals

\* A call that ends in an error keeps the invariant.
LEMMA FailStep ==
  ASSUME IInv, NEW t \in Threads, Fail(t),
         UNCHANGED <<ring, diffs, stats, disk, nextId, captured>>
  PROVE  IInv'
<1>1. loc[t] \in Locals /\ loc' = [loc EXCEPT ![t] = loc[t]]
  BY DEF IInv, TypeOK, Fail
<1>2. totalSnapshots' \in Nat /\ totalRollbacks' \in Nat
  BY DEF IInv, TypeOK, stats
<1>3. "err" \in Labels \ {"push"} /\ GoodLocals("err", loc[t], captured, nextId)
  BY NothingKnown DEF Labels, Ended
<1> QED BY <1>1, <1>2, <1>3, LocalStep DEF Fail, Goto

\* A thread that returns to its caller forgets its locals.
LEMMA ReturnStep ==
  ASSUME IInv, NEW t \in Threads, Return(t)
  PROVE  IInv'
<1>1. totalSnapshots' \in Nat /\ totalRollbacks' \in Nat
  BY DEF IInv, TypeOK, stats, Return
<1>2. "idle" \in Labels \ {"push"} /\ GoodLocals("idle", Idle, captured, nextId)
  BY NothingKnown DEF Labels
<1> QED BY <1>1, <1>2, IdleIsLocals, LocalStep DEF Return, Goto, Set

\* rollback_to hands back what the ring holds under the id, or fails.
LEMMA RollbackToStep ==
  ASSUME IInv, NEW t \in Threads, NEW id \in KnownIds, RollbackTo(t, id)
  PROVE  IInv'
<1> DEFINE l == [Idle EXCEPT !.op = "rollback", !.id = id,
                             !.out = DecompressMemory(Get(id))]
<1>1. CASE ~Has(id)
  BY <1>1, FailStep DEF RollbackTo
<1>2. CASE Has(id)
  <2>1. /\ id \in 1 .. (nextId - 1) /\ captured[id] \in Memories
        /\ DecompressMemory(Get(id)) = captured[id]
    BY <1>2, GetIsCaptured
  <2>2. nextId \in 1 .. (MaxIds + 1)
    BY DEF IInv, TypeOK
  <2>3. l \in Locals
    <3>1. id \in 0 .. MaxIds /\ "rollback" \in Operations
      BY <2>1, <2>2 DEF Operations
    <3> QED BY <2>1, <3>1, IdleIsLocals, LocalsExcept, Zenon
  <2>4. GoodLocals("count", l, captured, nextId)
    BY <2>1, IdleIsLocals DEF GoodLocals, Locals
  <2>5. "count" \in Labels \ {"push"}
    BY DEF Labels, Working
  <2>6. totalSnapshots' \in Nat /\ totalRollbacks' \in Nat
    BY DEF IInv, TypeOK, stats, RollbackTo
  <2> HIDE DEF l
  <2>7. pc' = [pc EXCEPT ![t] = "count"] /\ loc' = [loc EXCEPT ![t] = l]
    BY <1>2 DEF RollbackTo, Goto, Set, l
  <2> QED BY <2>3, <2>4, <2>5, <2>6, <2>7, LocalStep DEF RollbackTo
<1> QED BY <1>1, <1>2

\* Counting a rollback leaves the restored memory alone.
LEMMA CountRollbackStep ==
  ASSUME IInv, NEW t \in Threads, CountRollback(t)
  PROVE  IInv'
<1>1. loc[t] \in Locals /\ loc' = [loc EXCEPT ![t] = loc[t]]
  BY DEF IInv, TypeOK, CountRollback
<1>2. totalSnapshots' \in Nat /\ totalRollbacks' \in Nat
  BY DEF IInv, TypeOK, CountRollback
<1>3. GoodLocals("count", loc[t], captured, nextId)
  BY DEF IInv, ThreadsOK, CountRollback
<1>4. GoodLocals("ok", loc[t], captured, nextId)
  BY <1>3 DEF GoodLocals
<1>5. "ok" \in Labels \ {"push"}
  BY DEF Labels, Ended
<1> QED BY <1>1, <1>2, <1>4, <1>5, LocalStep DEF CountRollback, Goto

\* Statistics and locals that a step leaves alone keep their types.
LEMMA KeptTypes ==
  ASSUME IInv, NEW t \in Threads
  PROVE  /\ loc[t] \in Locals /\ loc = [loc EXCEPT ![t] = loc[t]]
         /\ pc = [pc EXCEPT ![t] = pc[t]] /\ pc[t] \in Labels
         /\ nextId \in 1 .. (MaxIds + 1)
         /\ UNCHANGED stats => totalSnapshots' \in Nat /\ totalRollbacks' \in Nat
         /\ GoodLocals(pc[t], loc[t], captured, nextId)
BY DEF IInv, TypeOK, ThreadsOK, stats, Labels

\* Ids a caller names lie below the next id.
LEMMA KnownBelow ==
  ASSUME IInv, NEW id \in KnownIds
  PROVE  id \in 0 .. (nextId - 1) /\ id \in 0 .. MaxIds
<1>1. nextId \in 1 .. (MaxIds + 1)
  BY DEF IInv, TypeOK
<1> QED BY <1>1 DEF KnownIds, Unknown

\* The generation of a new diff is a positive number.
LEMMA GenerationType ==
  ASSUME IInv, NEW base
  PROVE  Generation(base) \in Nat \ {0}
<1>1. CASE FindDiff(base) = {}
  BY <1>1 DEF Generation
<1>2. CASE FindDiff(base) # {}
  <2>1. (CHOOSE d \in FindDiff(base) : TRUE) \in FindDiff(base)
    BY <1>2
  <2>2. (CHOOSE d \in FindDiff(base) : TRUE).gen \in 1 .. MaxDiffDepth
    BY <2>1, FoundDiff DEF DiffRecord
  <2> QED BY <1>2, <2>2 DEF Generation
<1> QED BY <1>1, <1>2

\* create_diff_snapshot starts: the generation is fixed, nothing is read yet.
LEMMA CreateDiffSnapshotStep ==
  ASSUME IInv, NEW t \in Threads, NEW memory \in Memories, NEW base \in KnownIds,
         CreateDiffSnapshot(t, memory, base)
  PROVE  IInv'
<1> DEFINE g == Generation(base)
           l == [Idle EXCEPT !.op = "diff", !.id = base, !.base = base,
                             !.gen = g, !.mem = memory]
           label == IF g > MaxDiffDepth THEN "promote" ELSE "full"
<1>1. base \in 0 .. (nextId - 1) /\ base \in 0 .. MaxIds /\ g \in Nat \ {0}
  BY KnownBelow, GenerationType
<1>2. pc' = [pc EXCEPT ![t] = label] /\ loc' = [loc EXCEPT ![t] = l]
  BY DEF CreateDiffSnapshot, Goto, Set
<1>3. totalSnapshots' \in Nat /\ totalRollbacks' \in Nat
  BY KeptTypes DEF CreateDiffSnapshot
<1>4. label \in Labels \ {"push"}
  BY DEF Labels, Working
<1> HIDE DEF g
<1>5. l \in Locals
  <2>1. "diff" \in Operations /\ g \in Nat /\ memory \in Memories \cup {NoMem}
    BY <1>1 DEF Operations
  <2> QED BY <1>1, <2>1, IdleIsLocals, LocalsExcept, Zenon
<1>6. nextId \in Nat
  BY KeptTypes
<1>7. GoodLocals(label, l, captured, nextId)
  <2>1. l.op = "diff" /\ l.id = base /\ l.base = base /\ l.gen = g /\ l.mem = memory
    BY IdleIsLocals DEF Locals
  <2> HIDE DEF l
  <2> QED BY <1>1, <1>6, <2>1 DEF GoodLocals
<1> HIDE DEF l, label
<1> QED BY <1>2, <1>3, <1>4, <1>5, <1>7, LocalStep DEF CreateDiffSnapshot

\* reconstruct_memory_for when the base is a full snapshot.
LEMMA ReconstructFullStep ==
  ASSUME IInv, NEW t \in Threads, ReconstructFull(t)
  PROVE  IInv'
<1>1. /\ GoodLocals("full", loc[t], captured, nextId) /\ loc[t] \in Locals
      /\ totalSnapshots' \in Nat /\ totalRollbacks' \in Nat
      /\ loc = [loc EXCEPT ![t] = loc[t]]
  BY KeptTypes DEF ReconstructFull
<1>2. CASE ~Has(loc[t].base)
  <2>1. GoodLocals("target", loc[t], captured, nextId)
    BY <1>1 DEF GoodLocals
  <2>2. "target" \in Labels \ {"push"}
    BY DEF Labels, Working
  <2> QED BY <1>1, <1>2, <2>1, <2>2, LocalStep DEF ReconstructFull, Goto
<1>3. CASE Has(loc[t].base)
  <2> DEFINE b == loc[t].base
             m == DecompressMemory(Get(b))
             l == [loc[t] EXCEPT !.out = m]
  <2>1. b \in 1 .. (nextId - 1) /\ m = captured[b] /\ m \in Memories
    BY <1>3, GetIsCaptured
  <2>2. pc' = [pc EXCEPT ![t] = "diff"] /\ loc' = [loc EXCEPT ![t] = l]
    BY <1>3 DEF ReconstructFull, Goto, Set
  <2> HIDE DEF m
  <2>3. l \in Locals
    BY <1>1, <2>1, LocalsExcept
  <2>4. GoodLocals("diff", l, captured, nextId)
    <3>1. /\ l.op = loc[t].op /\ l.id = loc[t].id /\ l.base = b
          /\ l.gen = loc[t].gen /\ l.mem = loc[t].mem /\ l.out = m
      BY <1>1 DEF Locals
    <3> HIDE DEF l
    <3> QED BY <1>1, <2>1, <3>1 DEF GoodLocals
  <2>5. "diff" \in Labels \ {"push"}
    BY DEF Labels, Working
  <2> HIDE DEF l
  <2> QED BY <1>1, <2>2, <2>3, <2>4, <2>5, LocalStep DEF ReconstructFull
<1> QED BY <1>2, <1>3

\* Following one more parent.
LEMMA ChainPrepend ==
  ASSUME NEW chain \in Seq(DiffRecord), chain # << >>, NEW lower, NEW upper,
         NEW cap, NEW n, NEW d \in DiffRecord,
         GoodChain(chain, lower, upper, cap, n), GoodDiff(d, cap, n), d.id = lower
  PROVE  /\ <<d>> \o chain \in Seq(DiffRecord) /\ <<d>> \o chain # << >>
         /\ GoodChain(<<d>> \o chain, d.base, upper, cap, n)
<1> DEFINE c == <<d>> \o chain
<1>1. /\ c \in Seq(DiffRecord) /\ Len(c) = Len(chain) + 1 /\ c[1] = d
      /\ \A i \in 1 .. Len(chain) : c[i + 1] = chain[i]
      /\ Len(chain) \in Nat \ {0}
  OBVIOUS
<1> HIDE DEF c
<1>2. ASSUME NEW i \in 1 .. Len(c)
      PROVE  /\ GoodDiff(c[i], cap, n)
             /\ c[i].base = IF i = 1 THEN d.base ELSE c[i - 1].id
  <2>1. CASE i = 1
    BY <1>1, <2>1
  <2>2. CASE i = 2
    BY <1>1, <2>2 DEF GoodChain
  <2>3. CASE i > 2
    <3>1. i - 1 \in 1 .. Len(chain) /\ i - 2 \in 1 .. Len(chain) /\ i - 1 # 1
      BY <1>1, <2>3
    <3>2. c[i] = chain[i - 1] /\ c[i - 1] = chain[i - 2]
      BY <1>1, <3>1, SMTT(30)
    <3> QED BY <2>3, <3>1, <3>2 DEF GoodChain
  <2> QED BY <2>1, <2>2, <2>3
<1>3. upper = c[Len(c)].id
  BY <1>1 DEF GoodChain
<1> QED BY <1>1, <1>2, <1>3 DEF GoodChain, c

\* Taking the lowest diff off.
LEMMA ChainTail ==
  ASSUME NEW chain \in Seq(DiffRecord), chain # << >>, NEW lower, NEW upper,
         NEW cap, NEW n, GoodChain(chain, lower, upper, cap, n)
  PROVE  /\ Tail(chain) \in Seq(DiffRecord)
         /\ GoodDiff(Head(chain), cap, n) /\ Head(chain).base = lower
         /\ GoodChain(Tail(chain), Head(chain).id, upper, cap, n)
<1> DEFINE c == Tail(chain)
<1>1. /\ c \in Seq(DiffRecord) /\ Len(c) = Len(chain) - 1 /\ Head(chain) = chain[1]
      /\ \A i \in 1 .. Len(c) : c[i] = chain[i + 1]
      /\ Len(chain) \in Nat \ {0}
  OBVIOUS
<1> HIDE DEF c
<1>2. GoodDiff(chain[1], cap, n) /\ chain[1].base = lower
  BY <1>1 DEF GoodChain
<1>3. ASSUME NEW i \in 1 .. Len(c)
      PROVE  /\ GoodDiff(c[i], cap, n)
             /\ c[i].base = IF i = 1 THEN chain[1].id ELSE c[i - 1].id
  <2>1. i + 1 \in 1 .. Len(chain) /\ c[i] = chain[i + 1] /\ i + 1 # 1 /\ (i + 1) - 1 = i
    BY <1>1
  <2>2. c[i].base = chain[i].id /\ GoodDiff(c[i], cap, n)
    BY <2>1 DEF GoodChain
  <2>3. CASE i # 1
    <3>1. i - 1 \in 1 .. Len(c) /\ (i - 1) + 1 = i
      BY <1>1, <2>3
    <3>2. c[i - 1] = chain[i]
      BY <1>1, <3>1
    <3> QED BY <2>2, <2>3, <3>2
  <2> QED BY <2>2, <2>3
<1>4. upper = IF Len(c) = 0 THEN chain[1].id ELSE c[Len(c)].id
  <2>1. CASE Len(c) = 0
    <3>1. Len(chain) = 1 /\ Len(chain) # 0
      BY <1>1, <2>1
    <3>2. upper = chain[Len(chain)].id
      BY <3>1 DEF GoodChain
    <3> QED BY <2>1, <3>1, <3>2
  <2>2. CASE Len(c) # 0
    <3>1. Len(c) \in 1 .. Len(c) /\ Len(c) + 1 = Len(chain)
      BY <1>1, <2>2
    <3> QED BY <1>1, <2>2, <3>1 DEF GoodChain
  <2> QED BY <2>1, <2>2
<1> QED BY <1>1, <1>2, <1>3, <1>4 DEF GoodChain, c

\* The first diff of a walk, for both callers.
LEMMA StartWalkStep ==
  ASSUME IInv, NEW t \in Threads, NEW op \in {"diff", "rollback"}, NEW id,
         op = "diff" => loc[t].gen \in 1 .. MaxDiffDepth /\ loc[t].mem \in Memories,
         StartWalk(t, op, id)
  PROVE  IInv'
<1>1. CASE FindDiff(id) = {}
  BY <1>1, FailStep DEF StartWalk
<1>2. CASE FindDiff(id) # {}
  <2> DEFINE lx(d) == [loc[t] EXCEPT !.op = op, !.id = id, !.base = d.base,
                                     !.chain = <<d>>]
  <2>1. PICK d \in FindDiff(id) : loc' = [loc EXCEPT ![t] = lx(d)]
    BY <1>2 DEF StartWalk, Set
  <2> DEFINE l == lx(d)
  <2>2. d \in DiffRecord /\ d.id = id /\ GoodDiff(d, captured, nextId)
    BY FoundDiff
  <2>3. loc[t] \in Locals /\ nextId \in 1 .. (MaxIds + 1)
    BY KeptTypes
  <2>4. id \in 0 .. MaxIds /\ d.base \in 0 .. MaxIds
    BY <2>2, <2>3 DEF GoodDiff
  <2>5. <<d>> \in Seq(DiffRecord) /\ op \in Operations
    BY <2>2 DEF Operations
  <2>6. l \in Locals
    BY <2>3, <2>4, <2>5, LocalsExcept, Zenon
  <2>7. /\ l.op = op /\ l.id = id /\ l.base = d.base /\ l.chain = <<d>>
        /\ l.gen = loc[t].gen /\ l.mem = loc[t].mem
    BY <2>3 DEF Locals
  <2>8. GoodChain(<<d>>, d.base, id, captured, nextId) /\ <<d>> # << >>
    BY <2>2 DEF GoodChain
  <2>9. pc' = [pc EXCEPT ![t] = "walk"] /\ loc' = [loc EXCEPT ![t] = l]
    BY <1>2, <2>1 DEF StartWalk, Goto
  <2> HIDE DEF l
  <2>10. GoodLocals("walk", l, captured, nextId)
    BY <2>7, <2>8 DEF GoodLocals
  <2>11. "walk" \in Labels \ {"push"}
    BY DEF Labels, Working
  <2>12. totalSnapshots' \in Nat /\ totalRollbacks' \in Nat
    BY KeptTypes DEF StartWalk
  <2> QED BY <2>6, <2>9, <2>10, <2>11, <2>12, LocalStep DEF StartWalk
<1> QED BY <1>1, <1>2

\* reconstruct_memory_for when the base is a diff.
LEMMA ReconstructTargetStep ==
  ASSUME IInv, NEW t \in Threads, ReconstructTarget(t)
  PROVE  IInv'
<1>1. GoodLocals("target", loc[t], captured, nextId)
  BY KeptTypes DEF ReconstructTarget
<1>2. loc[t].gen \in 1 .. MaxDiffDepth /\ loc[t].mem \in Memories
  BY <1>1 DEF GoodLocals
<1> QED BY <1>2, StartWalkStep DEF ReconstructTarget

\* rollback_to_diff finds its target.
LEMMA RollbackToDiffStep ==
  ASSUME IInv, NEW t \in Threads, NEW id \in KnownIds, RollbackToDiff(t, id)
  PROVE  IInv'
BY StartWalkStep DEF RollbackToDiff

\* One turn of the walk: the collected chain grows by the parent diff.
LEMMA WalkStep ==
  ASSUME IInv, NEW t \in Threads, Walk(t)
  PROVE  IInv'
<1>1. /\ GoodLocals("walk", loc[t], captured, nextId) /\ loc[t] \in Locals
      /\ totalSnapshots' \in Nat /\ totalRollbacks' \in Nat
      /\ loc = [loc EXCEPT ![t] = loc[t]] /\ pc = [pc EXCEPT ![t] = "walk"]
      /\ nextId \in 1 .. (MaxIds + 1)
  BY KeptTypes DEF Walk
<1>2. "walk" \in Labels \ {"push"} /\ "base" \in Labels \ {"push"}
  BY DEF Labels, Working
<1>3. CASE Has(loc[t].base)
  <2>1. GoodLocals("base", loc[t], captured, nextId)
    BY <1>1 DEF GoodLocals
  <2> QED BY <1>1, <1>2, <1>3, <2>1, LocalStep DEF Walk, Goto
<1>4. CASE ~Has(loc[t].base) /\ FindDiff(loc[t].base) = {}
  BY <1>4, FailStep DEF Walk
<1>5. CASE ~Has(loc[t].base) /\ FindDiff(loc[t].base) # {}
  <2> DEFINE lx(d) == [loc[t] EXCEPT !.base = d.base,
                                     !.chain = <<d>> \o loc[t].chain]
  <2>1. PICK d \in FindDiff(loc[t].base) :
          loc' = [loc EXCEPT ![t] = lx(d)] /\ UNCHANGED pc
    BY <1>1, <1>5 DEF Walk, Set, Locals
  <2> DEFINE l == lx(d)
  <2>2. d \in DiffRecord /\ d.id = loc[t].base /\ GoodDiff(d, captured, nextId)
    BY FoundDiff
  <2>3. /\ loc[t].chain \in Seq(DiffRecord) /\ loc[t].chain # << >>
        /\ GoodChain(loc[t].chain, loc[t].base, loc[t].id, captured, nextId)
    BY <1>1 DEF GoodLocals, Locals
  <2>4. /\ <<d>> \o loc[t].chain \in Seq(DiffRecord) /\ <<d>> \o loc[t].chain # << >>
        /\ GoodChain(<<d>> \o loc[t].chain, d.base, loc[t].id, captured, nextId)
    BY <2>2, <2>3, ChainPrepend
  <2>5. d.base \in 0 .. MaxIds
    BY <1>1, <2>2 DEF GoodDiff
  <2>6. l \in Locals
    BY <1>1, <2>4, <2>5, LocalsExcept, Zenon
  <2>7. /\ l.op = loc[t].op /\ l.id = loc[t].id /\ l.base = d.base
        /\ l.chain = <<d>> \o loc[t].chain
        /\ l.gen = loc[t].gen /\ l.mem = loc[t].mem
    BY <1>1 DEF Locals
  <2>8. pc' = [pc EXCEPT ![t] = "walk"] /\ loc' = [loc EXCEPT ![t] = l]
    BY <1>1, <2>1
  <2> HIDE DEF l
  <2>9. GoodLocals("walk", l, captured, nextId)
    BY <1>1, <2>4, <2>7 DEF GoodLocals
  <2> QED BY <1>1, <1>2, <2>6, <2>8, <2>9, LocalStep DEF Walk
<1> QED BY <1>3, <1>4, <1>5

\* The full snapshot below the chain is read.
LEMMA ReadBaseStep ==
  ASSUME IInv, NEW t \in Threads, ReadBase(t)
  PROVE  IInv'
<1>1. /\ GoodLocals("base", loc[t], captured, nextId) /\ loc[t] \in Locals
      /\ totalSnapshots' \in Nat /\ totalRollbacks' \in Nat
  BY KeptTypes DEF ReadBase
<1>2. CASE ~Has(loc[t].base)
  BY <1>2, FailStep DEF ReadBase
<1>3. CASE Has(loc[t].base)
  <2> DEFINE b == loc[t].base
             m == DecompressMemory(Get(b))
             l == [loc[t] EXCEPT !.out = m]
  <2>1. b \in 1 .. (nextId - 1) /\ m = captured[b] /\ m \in Memories
    BY <1>3, GetIsCaptured
  <2>2. pc' = [pc EXCEPT ![t] = "apply"] /\ loc' = [loc EXCEPT ![t] = l]
    BY <1>3 DEF ReadBase, Goto, Set
  <2> HIDE DEF m
  <2>3. l \in Locals
    BY <1>1, <2>1, LocalsExcept
  <2>4. GoodLocals("apply", l, captured, nextId)
    <3>1. /\ l.op = loc[t].op /\ l.id = loc[t].id /\ l.chain = loc[t].chain
          /\ l.gen = loc[t].gen /\ l.mem = loc[t].mem /\ l.out = m
      BY <1>1 DEF Locals
    <3> HIDE DEF l
    <3>2. GoodChain(l.chain, b, l.id, captured, nextId)
      BY <1>1, <3>1 DEF GoodLocals
    <3> QED BY <1>1, <2>1, <3>1, <3>2 DEF GoodLocals
  <2>5. "apply" \in Labels \ {"push"}
    BY DEF Labels, Working
  <2> HIDE DEF l
  <2> QED BY <1>1, <2>2, <2>3, <2>4, <2>5, LocalStep DEF ReadBase
<1> QED BY <1>2, <1>3

\* The heart of the argument: one diff of a gapless chain moves the memory
\* from the chain's lower end to the next one.
LEMMA ApplyNextStep ==
  ASSUME IInv, NEW t \in Threads, ApplyNext(t)
  PROVE  IInv'
<1>1. /\ GoodLocals("apply", loc[t], captured, nextId) /\ loc[t] \in Locals
      /\ totalSnapshots' \in Nat /\ totalRollbacks' \in Nat
      /\ loc = [loc EXCEPT ![t] = loc[t]] /\ pc = [pc EXCEPT ![t] = "apply"]
  BY KeptTypes DEF ApplyNext
<1>2. PICK lower \in 1 .. (nextId - 1) :
        /\ GoodChain(loc[t].chain, lower, loc[t].id, captured, nextId)
        /\ loc[t].out = captured[lower]
  BY <1>1 DEF GoodLocals
<1>3. CASE loc[t].chain = << >>
  <2> DEFINE label == IF loc[t].op = "diff" THEN "diff" ELSE "count"
  <2>1. loc[t].id = lower
    BY <1>2, <1>3 DEF GoodChain
  <2>2. GoodLocals(label, loc[t], captured, nextId)
    BY <1>1, <1>2, <2>1 DEF GoodLocals
  <2>3. label \in Labels \ {"push"}
    BY DEF Labels, Working
  <2>4. pc' = [pc EXCEPT ![t] = label] /\ UNCHANGED loc
    BY <1>3 DEF ApplyNext, Goto
  <2> HIDE DEF label
  <2> QED BY <1>1, <2>2, <2>3, <2>4, LocalStep DEF ApplyNext
<1>4. CASE loc[t].chain # << >> /\ Len(loc[t].out) # Head(loc[t].chain).size
  BY <1>4, FailStep DEF ApplyNext
<1>5. CASE loc[t].chain # << >> /\ Len(loc[t].out) = Head(loc[t].chain).size
  <2> DEFINE d == Head(loc[t].chain)
             rest == Tail(loc[t].chain)
             m == ApplyDiff(loc[t].out, d)
             l == [loc[t] EXCEPT !.out = m, !.chain = rest]
  <2>1. loc[t].chain \in Seq(DiffRecord)
    BY <1>1 DEF Locals
  <2>2. /\ rest \in Seq(DiffRecord) /\ GoodDiff(d, captured, nextId)
        /\ d.base = lower
        /\ GoodChain(rest, d.id, loc[t].id, captured, nextId)
    BY <1>2, <1>5, <2>1, ChainTail
  <2>3. d.id \in 1 .. (nextId - 1) /\ captured[d.id] \in Memories
                                   /\ captured[d.base] \in Memories
    BY <2>2 DEF GoodDiff, IInv, CapturedOK
  <2>4. m = captured[d.id]
    BY <1>2, <2>2, <2>3, PatchIsCaptured
  <2>5. pc' = pc /\ loc' = [loc EXCEPT ![t] = l]
    BY <1>1, <1>5 DEF ApplyNext, Set, Locals
  <2> HIDE DEF m, d, rest
  <2>6. l \in Locals
    BY <1>1, <2>2, <2>3, <2>4, LocalsExcept
  <2>7. /\ l.op = loc[t].op /\ l.id = loc[t].id /\ l.chain = rest
        /\ l.gen = loc[t].gen /\ l.mem = loc[t].mem /\ l.out = m
    BY <1>1 DEF Locals
  <2> HIDE DEF l
  <2>8. GoodLocals("apply", l, captured, nextId)
    BY <1>1, <2>2, <2>3, <2>4, <2>7 DEF GoodLocals
  <2>9. "apply" \in Labels \ {"push"}
    BY DEF Labels, Working
  <2> QED BY <1>1, <2>5, <2>6, <2>8, <2>9, LocalStep DEF ApplyNext
<1> QED BY <1>3, <1>4, <1>5

\* load_snapshot returns a complete file only.
LEMMA LoadSnapshotStep ==
  ASSUME IInv, NEW t \in Threads, NEW id \in KnownIds, LoadSnapshot(t, id)
  PROVE  IInv'
<1> DEFINE contents == IF id \in Ids THEN disk[id] ELSE Absent
           l == [Idle EXCEPT !.op = "load", !.id = id, !.out = contents.zstd]
<1>1. /\ totalSnapshots' \in Nat /\ totalRollbacks' \in Nat /\ loc[t] \in Locals
      /\ loc = [loc EXCEPT ![t] = loc[t]]
  BY KeptTypes DEF LoadSnapshot
<1>2. "none" \in Labels \ {"push"} /\ "ok" \in Labels \ {"push"} /\ "load" \in Operations
  BY DEF Labels, Ended, Operations
<1>3. CASE contents = Absent
  <2>1. GoodLocals("none", loc[t], captured, nextId)
    BY NothingKnown
  <2>2. pc' = [pc EXCEPT ![t] = "none"] /\ UNCHANGED loc
    BY <1>3 DEF LoadSnapshot, Goto, Absent, Torn
  <2> QED BY <1>1, <1>2, <2>1, <2>2, LocalStep DEF LoadSnapshot
<1>4. CASE Fail(t)
  BY <1>4, FailStep DEF LoadSnapshot
<1>5. CASE /\ contents \notin {Absent, Torn}
           /\ Set(t, l)
           /\ Goto(t, "ok")
  <2>1. id \in Ids /\ contents = disk[id] /\ id \in 0 .. MaxIds
    BY <1>5 DEF Ids
  <2>2. id \in 1 .. (nextId - 1) /\ contents.zstd = captured[id]
    BY <1>5, <2>1 DEF IInv, DiskOK
  <2>3. captured[id] \in Memories \cup {NoMem}
    BY <2>2 DEF IInv, CapturedOK
  <2>4. pc' = [pc EXCEPT ![t] = "ok"] /\ loc' = [loc EXCEPT ![t] = l]
    BY <1>5 DEF Goto, Set
  <2> HIDE DEF contents
  <2>5. l \in Locals
    BY <1>2, <2>1, <2>2, <2>3, IdleIsLocals, LocalsExcept
  <2>6. l.op = "load" /\ l.id = id /\ l.out = contents.zstd
    BY IdleIsLocals DEF Locals
  <2> HIDE DEF l
  <2>7. GoodLocals("ok", l, captured, nextId)
    BY <2>2, <2>6 DEF GoodLocals
  <2> QED BY <1>1, <1>2, <2>4, <2>5, <2>7, LocalStep DEF LoadSnapshot
<1> QED BY <1>3, <1>4, <1>5 DEF LoadSnapshot

\* Giving out the next id disturbs nothing that is said of earlier ids.
LEMMA NewIdStable ==
  ASSUME IInv, nextId <= MaxIds, NEW memory \in Memories, nextId' = nextId + 1,
         captured' = [captured EXCEPT ![nextId] = memory]
  PROVE  /\ Extends(captured, nextId, captured', nextId')
         /\ nextId \in 1 .. (nextId' - 1) /\ nextId \in Ids
         /\ captured'[nextId] = memory
         /\ nextId' \in 1 .. (MaxIds + 1)
         /\ captured' \in [Ids -> Memories \cup {NoMem}]
         /\ CapturedOK'
<1>1. nextId \in 1 .. (MaxIds + 1) /\ captured \in [Ids -> Memories \cup {NoMem}]
  BY DEF IInv, TypeOK
<1>2. nextId \in Ids /\ nextId' \in 1 .. (MaxIds + 1) /\ nextId \in 1 .. (nextId' - 1)
  BY <1>1 DEF Ids
<1>3. captured' \in [Ids -> Memories \cup {NoMem}] /\ captured'[nextId] = memory
  BY <1>1, <1>2
<1>4. \A id \in 1 .. (nextId - 1) : captured'[id] = captured[id] /\ id \in Ids
  BY <1>1 DEF Ids
<1>5. Extends(captured, nextId, captured', nextId')
  BY <1>1, <1>4 DEF Extends
<1>6. CapturedOK'
  <2> SUFFICES ASSUME NEW id \in 1 .. (nextId' - 1)
               PROVE  captured'[id] \in Memories
    BY DEF CapturedOK
  <2>1. CASE id = nextId
    BY <1>3, <2>1
  <2>2. CASE id # nextId
    <3>1. id \in 1 .. (nextId - 1)
      BY <1>1, <2>2
    <3> QED BY <1>4, <3>1 DEF IInv, CapturedOK
  <2> QED BY <2>1, <2>2
<1> QED BY <1>2, <1>3, <1>5, <1>6

\* A new full snapshot is built and counted.
LEMMA NewSnapshotStep ==
  ASSUME IInv, NEW t \in Threads, NEW op \in {"create", "promoted"},
         NEW memory \in Memories, NewSnapshot(t, op, memory)
  PROVE  IInv'
<1> DEFINE l == [Idle EXCEPT !.op = op, !.id = nextId, !.mem = memory]
<1>1. /\ nextId <= MaxIds /\ nextId' = nextId + 1
      /\ captured' = [captured EXCEPT ![nextId] = memory]
      /\ pc' = [pc EXCEPT ![t] = "push"] /\ loc' = [loc EXCEPT ![t] = l]
      /\ totalSnapshots' = totalSnapshots + 1
      /\ UNCHANGED <<snapshots, index, diffs, totalRollbacks, disk>>
  BY DEF NewSnapshot, Goto, Set, ring
<1>2. /\ Extends(captured, nextId, captured', nextId')
      /\ nextId \in 1 .. (nextId' - 1) /\ nextId \in Ids
      /\ captured'[nextId] = memory /\ nextId' \in 1 .. (MaxIds + 1)
      /\ captured' \in [Ids -> Memories \cup {NoMem}]
      /\ CapturedOK'
  BY <1>1, NewIdStable
<1>3. l \in Locals /\ l.id = nextId /\ l.mem = memory /\ l.op = op
  <2>1. op \in Operations /\ nextId \in 0 .. MaxIds
    BY <1>2 DEF Operations, Ids
  <2>2. l \in Locals
    BY <2>1, IdleIsLocals, LocalsExcept, Zenon
  <2>3. l.id = nextId /\ l.mem = memory /\ l.op = op
    BY IdleIsLocals DEF Locals
  <2> QED BY <2>2, <2>3
<1> HIDE DEF l
<1>4. pc \in [Threads -> Labels] /\ loc \in [Threads -> Locals] /\ "push" \in Labels
  BY DEF IInv, TypeOK, Labels, Working
<1>5. \A u \in Threads : /\ pc'[u] = IF u = t THEN "push" ELSE pc[u]
                         /\ loc'[u] = IF u = t THEN l ELSE loc[u]
  BY <1>1, <1>4
<1>6. TypeOK'
  <2>1. pc' \in [Threads -> Labels] /\ loc' \in [Threads -> Locals]
    BY <1>1, <1>3, <1>4
  <2> QED BY <1>1, <1>2, <2>1 DEF IInv, TypeOK, Labels
<1>7. IndexConsistent'
  BY <1>1 DEF IInv, IndexConsistent
<1>8. nextId \in Nat /\ nextId' \in Nat
  BY <1>2 DEF Extends
<1>9. RingOK'
  BY <1>1, <1>2, <1>8 DEF IInv, RingOK, Extends
<1>10. DiffsOK'
  BY <1>1, <1>2, GoodDiffStable DEF IInv, DiffsOK
<1>11. DiskOK'
  BY <1>1, <1>2, <1>8 DEF IInv, DiskOK, Extends
<1>12. ThreadsOK'
  <2> SUFFICES ASSUME NEW u \in Threads
               PROVE  GoodLocals(pc'[u], loc'[u], captured', nextId')
    BY DEF ThreadsOK
  <2>1. CASE u = t
    BY <1>2, <1>3, <1>5, <2>1 DEF GoodLocals
  <2>2. CASE u # t
    <3>1. GoodLocals(pc[u], loc[u], captured, nextId) /\ loc[u].id \in Nat
      BY <1>4 DEF IInv, ThreadsOK, Locals
    <3> QED BY <1>2, <1>5, <2>2, <3>1, GoodLocalsStable
  <2> QED BY <2>1, <2>2
<1>13. InFlightOK'
  <2>1. nextId \notin DOMAIN index
    <3>1. DOMAIN snapshots = 1 .. Len(snapshots)
      BY DEF IInv, TypeOK
    <3> QED BY <1>8, <3>1 DEF IInv, IndexConsistent, RingOK
  <2>2. \A u \in Threads : pc[u] = "push" => loc[u].id # nextId
    <3> SUFFICES ASSUME NEW u \in Threads, pc[u] = "push"
                 PROVE  loc[u].id # nextId
      OBVIOUS
    <3>1. GoodLocals("push", loc[u], captured, nextId)
      BY DEF IInv, ThreadsOK
    <3> QED BY <1>8, <3>1 DEF GoodLocals
  <2> QED BY <1>1, <1>3, <1>5, <2>1, <2>2 DEF IInv, InFlightOK
<1> QED BY <1>2, <1>6, <1>7, <1>9, <1>10, <1>11, <1>12, <1>13 DEF IInv

\* What push leaves in the ring: the new snapshot on top of what is kept of
\* the old ones, with an index of exactly those.
LEMMA PushIndexes ==
  ASSUME IInv, NEW s \in [id : Ids, memory : {Compressed(m) : m \in Memories}],
         s.id \notin DOMAIN index, Push(s)
  PROVE  /\ snapshots' \in Seq([id : Ids, memory : {Compressed(m) : m \in Memories}])
         /\ IndexConsistent' /\ DOMAIN index' \subseteq DOMAIN index \cup {s.id}
         /\ \A id \in DOMAIN index' : index'[id] \in Nat
         /\ \A i \in DOMAIN snapshots' :
              snapshots'[i] = s \/ \E j \in DOMAIN snapshots : snapshots'[i] = snapshots[j]
<1> DEFINE Snap == [id : Ids, memory : {Compressed(m) : m \in Memories}]
           full == Len(snapshots) >= Capacity
           kept == IF full /\ snapshots # << >> THEN Tail(snapshots) ELSE snapshots
           idx  == IF full THEN IndexOf(kept) ELSE index
<1>1. /\ snapshots' = Append(kept, s)
      /\ index' = [id \in DOMAIN idx \cup {s.id} |->
                     IF id = s.id THEN Len(kept) + 1 ELSE idx[id]]
  BY DEF Push
<1>2. snapshots \in Seq(Snap)
  BY DEF IInv, TypeOK
<1>3. /\ DOMAIN index = {snapshots[i].id : i \in DOMAIN snapshots}
      /\ \A i \in DOMAIN snapshots : index[snapshots[i].id] = i
  BY DEF IInv, IndexConsistent
<1> HIDE DEF Snap
<1>4. /\ kept \in Seq(Snap)
      /\ \A i \in DOMAIN kept : \E j \in DOMAIN snapshots : kept[i] = snapshots[j]
      /\ \A i, k \in DOMAIN kept : kept[i].id = kept[k].id => i = k
  <2>1. CASE full /\ snapshots # << >>
    <3>1. /\ kept = Tail(snapshots) /\ kept \in Seq(Snap)
          /\ Len(kept) = Len(snapshots) - 1
          /\ \A i \in 1 .. Len(kept) : kept[i] = snapshots[i + 1]
      BY <1>2, <2>1
    <3>2. DOMAIN kept = 1 .. Len(kept) /\ DOMAIN snapshots = 1 .. Len(snapshots)
      BY <1>2, <3>1
    <3> HIDE DEF kept
    <3>3. \A i \in DOMAIN kept : i + 1 \in DOMAIN snapshots /\ kept[i] = snapshots[i + 1]
      <4>1. Len(kept) \in Nat /\ Len(snapshots) \in Nat
        BY <1>2, <3>1
      <4> QED BY <3>1, <3>2, <4>1
    <3>4. ASSUME NEW i \in DOMAIN kept, NEW k \in DOMAIN kept, kept[i].id = kept[k].id
          PROVE  i = k
      <4>1. i + 1 = k + 1
        BY <1>3, <3>3, <3>4
      <4> QED BY <3>2, <4>1
    <3> QED BY <3>1, <3>3, <3>4
  <2>2. CASE ~(full /\ snapshots # << >>)
    BY <1>2, <1>3, <2>2
  <2> QED BY <2>1, <2>2
<1>5. /\ DOMAIN idx = {kept[i].id : i \in DOMAIN kept}
      /\ \A i \in DOMAIN kept : idx[kept[i].id] = i
  <2>1. CASE full
    <3>1. idx = [id \in {kept[i].id : i \in DOMAIN kept} |->
                   CHOOSE i \in DOMAIN kept : kept[i].id = id]
      BY <2>1 DEF IndexOf
    <3> HIDE DEF kept, idx
    <3>2. ASSUME NEW i \in DOMAIN kept
          PROVE  idx[kept[i].id] = i
      <4>1. idx[kept[i].id] = CHOOSE k \in DOMAIN kept : kept[k].id = kept[i].id
        BY <3>1
      <4>2. (CHOOSE k \in DOMAIN kept : kept[k].id = kept[i].id) = i
        BY <1>4
      <4> QED BY <4>1, <4>2
    <3> QED BY <3>1, <3>2
  <2>2. CASE ~full
    BY <1>3, <2>2
  <2> QED BY <2>1, <2>2
<1> HIDE DEF kept, idx
<1>6. /\ Len(kept) \in Nat /\ DOMAIN kept = 1 .. Len(kept)
      /\ s \in Snap
      /\ snapshots' \in Seq(Snap)
      /\ DOMAIN snapshots' = 1 .. (Len(kept) + 1)
      /\ snapshots'[Len(kept) + 1] = s
      /\ \A i \in DOMAIN kept : snapshots'[i] = kept[i]
  BY <1>1, <1>4 DEF Snap
<1>7. \A i \in DOMAIN snapshots' : i \in DOMAIN kept \/ i = Len(kept) + 1
  BY <1>6
<1>8. \A i \in DOMAIN kept : kept[i].id \in DOMAIN index /\ kept[i].id # s.id
  BY <1>3, <1>4
<1>9. DOMAIN index' = DOMAIN idx \cup {s.id}
  BY <1>1
<1>10. DOMAIN index' = {snapshots'[i].id : i \in DOMAIN snapshots'}
  <2>1. \A i \in DOMAIN snapshots' : snapshots'[i].id \in DOMAIN index'
    BY <1>5, <1>6, <1>7, <1>9
  <2>2. \A id \in DOMAIN index' : \E i \in DOMAIN snapshots' : snapshots'[i].id = id
    BY <1>5, <1>6, <1>9, SMTT(30)
  <2> QED BY <2>1, <2>2
<1>11. \A i \in DOMAIN snapshots' : index'[snapshots'[i].id] = i
  <2> SUFFICES ASSUME NEW i \in DOMAIN snapshots'
               PROVE  index'[snapshots'[i].id] = i
    OBVIOUS
  <2>1. CASE i = Len(kept) + 1
    BY <1>1, <1>6, <2>1
  <2>2. CASE i \in DOMAIN kept
    <3>1. snapshots'[i].id = kept[i].id /\ kept[i].id # s.id
          /\ kept[i].id \in DOMAIN idx /\ idx[kept[i].id] = i
      BY <1>5, <1>6, <1>8, <2>2
    <3> QED BY <1>1, <3>1
  <2> QED BY <1>7, <2>1, <2>2
<1>12. DOMAIN index' \subseteq DOMAIN index \cup {s.id}
  BY <1>5, <1>8, <1>9
<1>13. \A id \in DOMAIN index' : index'[id] \in Nat
  BY <1>6, <1>10, <1>11
<1>14. \A i \in DOMAIN snapshots' :
         snapshots'[i] = s \/ \E j \in DOMAIN snapshots : snapshots'[i] = snapshots[j]
  BY <1>4, <1>6, <1>7
<1> QED BY <1>6, <1>10, <1>11, <1>12, <1>13, <1>14 DEF IndexConsistent, Snap

\* The ring takes a new full snapshot, evicting the oldest at capacity.
LEMMA CreatePushStep ==
  ASSUME IInv, NEW t \in Threads, CreatePush(t)
  PROVE  IInv'
<1> DEFINE s == [id |-> loc[t].id, memory |-> Compressed(loc[t].mem)]
           label == IF Persist THEN "persist" ELSE "ok"
<1>1. /\ pc[t] = "push" /\ Push(s) /\ pc' = [pc EXCEPT ![t] = label]
      /\ UNCHANGED <<diffs, totalSnapshots, totalRollbacks, disk, nextId, captured, loc>>
  BY DEF CreatePush, Goto, stats
<1>2. GoodLocals("push", loc[t], captured, nextId) /\ nextId \in 1 .. (MaxIds + 1)
  BY <1>1, KeptTypes
<1>3. /\ loc[t].id \in 1 .. (nextId - 1) /\ loc[t].mem = captured[loc[t].id]
      /\ loc[t].mem \in Memories /\ loc[t].id \in Ids
  BY <1>2 DEF GoodLocals, IInv, CapturedOK, Ids
<1>4. /\ s \in [id : Ids, memory : {Compressed(m) : m \in Memories}]
      /\ s.id = loc[t].id /\ DecompressMemory(s) = loc[t].mem
  BY <1>3 DEF DecompressMemory, Compressed
<1>5. s.id \notin DOMAIN index
  BY <1>1, <1>4 DEF IInv, InFlightOK
<1> HIDE DEF s
<1>6. /\ snapshots' \in Seq([id : Ids, memory : {Compressed(m) : m \in Memories}])
      /\ IndexConsistent' /\ DOMAIN index' \subseteq DOMAIN index \cup {s.id}
      /\ \A id \in DOMAIN index' : index'[id] \in Nat
      /\ \A i \in DOMAIN snapshots' :
           snapshots'[i] = s \/ \E j \in DOMAIN snapshots : snapshots'[i] = snapshots[j]
  BY <1>1, <1>4, <1>5, PushIndexes
<1>7. pc \in [Threads -> Labels] /\ label \in Labels
  BY DEF IInv, TypeOK, Labels, Working, Ended
<1>8. \A u \in Threads : pc'[u] = IF u = t THEN label ELSE pc[u]
  BY <1>1, <1>7
<1>9. TypeOK'
  <2>1. pc' \in [Threads -> Labels] /\ DOMAIN index' \subseteq Ids
    BY <1>1, <1>3, <1>4, <1>6, <1>7 DEF IInv, TypeOK
  <2> QED BY <1>1, <1>6, <2>1 DEF IInv, TypeOK, Labels
<1>10. CapturedOK' /\ DiffsOK' /\ DiskOK'
  BY <1>1 DEF IInv, CapturedOK, DiffsOK, DiskOK
<1>11. RingOK'
  <2> SUFFICES ASSUME NEW i \in 1 .. Len(snapshots')
               PROVE  /\ snapshots'[i].id \in 1 .. (nextId' - 1)
                      /\ DecompressMemory(snapshots'[i]) = captured'[snapshots'[i].id]
    BY DEF RingOK, DecompressMemory
  <2>1. DOMAIN snapshots' = 1 .. Len(snapshots') /\ DOMAIN snapshots = 1 .. Len(snapshots)
    BY <1>6 DEF IInv, TypeOK
  <2>2. snapshots'[i] = s \/ \E j \in DOMAIN snapshots : snapshots'[i] = snapshots[j]
    BY <1>6, <2>1
  <2>3. CASE snapshots'[i] = s
    BY <1>1, <1>3, <1>4, <2>3
  <2>4. CASE \E j \in DOMAIN snapshots : snapshots'[i] = snapshots[j]
    BY <1>1, <2>1, <2>4 DEF IInv, RingOK
  <2> QED BY <2>2, <2>3, <2>4
<1>12. ThreadsOK'
  <2>1. GoodLocals(label, loc[t], captured, nextId)
    BY <1>2, <1>3 DEF GoodLocals
  <2> HIDE DEF label
  <2> QED BY <1>1, <1>8, <2>1 DEF IInv, ThreadsOK
<1>13. InFlightOK'
  BY <1>1, <1>4, <1>6, <1>8 DEF IInv, InFlightOK
<1> QED BY <1>6, <1>9, <1>10, <1>11, <1>12, <1>13 DEF IInv

\* Both outcomes of writing the file.
LEMMA PersistStep ==
  ASSUME IInv, NEW t \in Threads, PersistSnapshot(t) \/ PersistFails(t)
  PROVE  IInv'
<1>1. PICK label \in {"ok", "err"}, contents \in {Absent, Torn, Whole(loc[t].mem)} :
        /\ pc[t] = "persist" /\ pc' = [pc EXCEPT ![t] = label]
        /\ disk' = [disk EXCEPT ![loc[t].id] = contents]
        /\ UNCHANGED <<snapshots, index, diffs, totalSnapshots, totalRollbacks,
                       nextId, captured, loc>>
  BY DEF PersistSnapshot, PersistFails, Fail, Goto, ring, stats
<1>2. GoodLocals("persist", loc[t], captured, nextId) /\ nextId \in 1 .. (MaxIds + 1)
  BY <1>1, KeptTypes
<1>3. /\ loc[t].id \in 1 .. (nextId - 1) /\ loc[t].mem = captured[loc[t].id]
      /\ loc[t].mem \in Memories /\ loc[t].id \in Ids
      /\ loc[t].op \in {"create", "promoted"}
  BY <1>2 DEF GoodLocals, IInv, CapturedOK, Ids
<1>4. pc \in [Threads -> Labels] /\ label \in Labels /\ disk \in [Ids -> FileContents]
  BY DEF IInv, TypeOK, Labels, Ended
<1>5. \A u \in Threads : pc'[u] = IF u = t THEN label ELSE pc[u]
  BY <1>1, <1>4
<1>6. \A id \in Ids : disk'[id] = IF id = loc[t].id THEN contents ELSE disk[id]
  BY <1>1, <1>4
<1>7. TypeOK'
  <2>1. contents \in FileContents
    BY <1>3 DEF FileContents
  <2>2. pc' \in [Threads -> Labels] /\ disk' \in [Ids -> FileContents]
    BY <1>1, <1>4, <2>1
  <2> QED BY <1>1, <2>2 DEF IInv, TypeOK, Labels
<1>8. IndexConsistent' /\ CapturedOK' /\ DiffsOK' /\ RingOK'
  BY <1>1 DEF IInv, CapturedOK, DiffsOK, RingOK, IndexConsistent
<1>9. DiskOK'
  <2>1. contents \in {Absent, Torn} \/ contents.zstd = loc[t].mem
    BY DEF Whole
  <2> QED BY <1>1, <1>3, <1>6, <2>1 DEF IInv, DiskOK
<1>10. ThreadsOK'
  <2>1. GoodLocals(label, loc[t], captured, nextId)
    BY <1>3 DEF GoodLocals
  <2> QED BY <1>1, <1>5, <2>1 DEF IInv, ThreadsOK
<1>11. InFlightOK'
  BY <1>1, <1>5 DEF IInv, InFlightOK
<1> QED BY <1>7, <1>8, <1>9, <1>10, <1>11 DEF IInv

\* A diff against the memory read earlier is appended under the caller's base.
LEMMA PushDiffStep ==
  ASSUME IInv, NEW t \in Threads, PushDiff(t)
  PROVE  IInv'
<1> DEFINE l == [Idle EXCEPT !.op = "diff", !.id = nextId]
           b == loc[t].id
           memory == loc[t].mem
           d == [id |-> nextId, base |-> b, dirty |-> DirtyPages(loc[t].out, memory),
                 size |-> Len(memory), gen |-> loc[t].gen]
<1>1. /\ pc[t] = "diff" /\ nextId <= MaxIds /\ nextId' = nextId + 1
      /\ SameSize(loc[t].out, memory) /\ diffs' = Append(diffs, d)
      /\ captured' = [captured EXCEPT ![nextId] = memory]
      /\ pc' = [pc EXCEPT ![t] = "ok"] /\ loc' = [loc EXCEPT ![t] = l]
      /\ UNCHANGED <<snapshots, index, totalSnapshots, totalRollbacks, disk>>
  BY DEF PushDiff, Goto, Set, ring, stats
<1>2. GoodLocals("diff", loc[t], captured, nextId)
  BY <1>1, KeptTypes
<1>3. /\ memory \in Memories /\ b \in 1 .. (nextId - 1)
      /\ loc[t].out = captured[b] /\ loc[t].gen \in 1 .. MaxDiffDepth
      /\ captured[b] \in Memories
  BY <1>2 DEF GoodLocals, IInv, CapturedOK
<1> HIDE DEF memory
<1>4. /\ Extends(captured, nextId, captured', nextId')
      /\ nextId \in 1 .. (nextId' - 1) /\ nextId \in Ids
      /\ captured'[nextId] = memory /\ nextId' \in 1 .. (MaxIds + 1)
      /\ captured' \in [Ids -> Memories \cup {NoMem}]
      /\ CapturedOK'
  BY <1>1, <1>3, NewIdStable
<1>5. l \in Locals /\ l.op = "diff"
  <2>1. "diff" \in Operations /\ nextId \in 0 .. MaxIds
    BY <1>4 DEF Operations, Ids
  <2>2. l \in Locals
    BY <2>1, IdleIsLocals, LocalsExcept, Zenon
  <2>3. l.op = "diff"
    BY IdleIsLocals DEF Locals
  <2> QED BY <2>2, <2>3
<1> HIDE DEF l
<1>6. pc \in [Threads -> Labels] /\ loc \in [Threads -> Locals] /\ "ok" \in Labels
  BY DEF IInv, TypeOK, Labels, Ended
<1>7. \A u \in Threads : /\ pc'[u] = IF u = t THEN "ok" ELSE pc[u]
                         /\ loc'[u] = IF u = t THEN l ELSE loc[u]
  BY <1>1, <1>6
<1>8. nextId \in Nat /\ nextId' \in Nat /\ b \in Ids
  BY <1>3, <1>4 DEF Extends, Ids
<1>9. d.dirty \in PageMaps
  <2>1. captured[b] \in {m \in Memories : SameSize(m, memory)}
    BY <1>1, <1>3
  <2>2. DirtyPages(captured[b], memory)
          \in {DirtyPages(a, memory) : a \in {m \in Memories : SameSize(m, memory)}}
    BY <2>1
  <2> QED BY <1>3, <2>2 DEF PageMaps
<1>10. d \in DiffRecord
  <2>1. Len(memory) \in Nat
    BY <1>3, MemoryIsSeq
  <2> QED BY <1>3, <1>4, <1>8, <1>9, <2>1 DEF DiffRecord
<1>11. GoodDiff(d, captured', nextId')
  <2>1. captured'[b] = captured[b] /\ b \in 1 .. (nextId' - 1)
    BY <1>3, <1>4, <1>8 DEF Extends
  <2> QED BY <1>1, <1>3, <1>4, <2>1 DEF GoodDiff, SameSize
<1> HIDE DEF d
<1>12. /\ diffs \in Seq(DiffRecord) /\ diffs' \in Seq(DiffRecord)
       /\ \A i \in 1 .. Len(diffs') :
            diffs'[i] = d \/ (i \in 1 .. Len(diffs) /\ diffs'[i] = diffs[i])
  BY <1>1, <1>10 DEF IInv, TypeOK
<1>13. TypeOK'
  <2>1. pc' \in [Threads -> Labels] /\ loc' \in [Threads -> Locals]
    BY <1>1, <1>5, <1>6
  <2> QED BY <1>1, <1>4, <1>12, <2>1 DEF IInv, TypeOK, Labels
<1>14. IndexConsistent'
  BY <1>1 DEF IInv, IndexConsistent
<1>15. RingOK'
  BY <1>1, <1>4, <1>8 DEF IInv, RingOK, Extends
<1>16. DiffsOK'
  BY <1>4, <1>11, <1>12, GoodDiffStable DEF IInv, DiffsOK
<1>17. DiskOK'
  BY <1>1, <1>4, <1>8 DEF IInv, DiskOK, Extends
<1>18. ThreadsOK'
  <2> SUFFICES ASSUME NEW u \in Threads
               PROVE  GoodLocals(pc'[u], loc'[u], captured', nextId')
    BY DEF ThreadsOK
  <2>1. CASE u = t
    BY <1>5, <1>7, <2>1 DEF GoodLocals
  <2>2. CASE u # t
    <3>1. GoodLocals(pc[u], loc[u], captured, nextId) /\ loc[u].id \in Nat
      BY <1>6 DEF IInv, ThreadsOK, Locals
    <3> QED BY <1>4, <1>7, <2>2, <3>1, GoodLocalsStable
  <2> QED BY <2>1, <2>2
<1>19. InFlightOK'
  BY <1>1, <1>7 DEF IInv, InFlightOK
<1> QED BY <1>4, <1>13, <1>14, <1>15, <1>16, <1>17, <1>18, <1>19 DEF IInv

\* A restart keeps the files and loses everything else.
LEMMA RestartStep ==
  ASSUME IInv, Restart
  PROVE  IInv'
<1>1. PICK torn : disk' = [id \in Ids |-> IF id \in torn THEN Torn ELSE disk[id]]
  BY DEF Restart
<1>2. TypeOK'
  <2>1. disk' \in [Ids -> FileContents]
    BY <1>1 DEF IInv, TypeOK, FileContents
  <2>2. pc' \in [Threads -> Labels] /\ loc' \in [Threads -> Locals]
    BY IdleIsLocals DEF Restart, Labels
  <2> QED BY <2>1, <2>2, EmptySeq DEF IInv, TypeOK, Restart, Labels
<1>3. IndexConsistent' /\ CapturedOK' /\ RingOK' /\ DiffsOK'
  BY DEF IInv, IndexConsistent, CapturedOK, RingOK, DiffsOK, Restart
<1>4. DiskOK'
  BY <1>1 DEF IInv, DiskOK, Restart
<1>5. ThreadsOK' /\ InFlightOK'
  BY NothingKnown DEF ThreadsOK, InFlightOK, Restart
<1> QED BY <1>2, <1>3, <1>4, <1>5 DEF IInv

\* The empty store satisfies the invariant.
LEMMA InitInvariant == Init => IInv
<1> SUFFICES ASSUME Init PROVE IInv
  OBVIOUS
<1>1. TypeOK
  <2>1. pc \in [Threads -> Labels] /\ loc \in [Threads -> Locals]
    BY IdleIsLocals DEF Init, Labels
  <2> QED BY <2>1, EmptySeq DEF Init, TypeOK, Labels, FileContents
<1>2. IndexConsistent /\ CapturedOK /\ RingOK /\ DiffsOK /\ DiskOK
  BY DEF Init, IndexConsistent, CapturedOK, RingOK, DiffsOK, DiskOK
<1>3. ThreadsOK /\ InFlightOK
  BY NothingKnown DEF ThreadsOK, InFlightOK, Init
<1> QED BY <1>1, <1>2, <1>3 DEF IInv

\* Every step of every thread, and a restart, keeps the invariant.
LEMMA NextInvariant == IInv /\ [Next]_vars => IInv'
<1> SUFFICES ASSUME IInv, [Next]_vars PROVE IInv'
  OBVIOUS
<1>1. CASE UNCHANGED vars
  BY <1>1 DEF vars, ring, stats, IInv, TypeOK, IndexConsistent, CapturedOK, RingOK,
              DiffsOK, DiskOK, ThreadsOK, InFlightOK
<1>2. CASE Restart
  BY <1>2, RestartStep
<1>3. ASSUME NEW t \in Threads, Call(t)
      PROVE  IInv'
  <2>1. ASSUME NEW memory \in Memories, CreateSnapshot(t, memory)
        PROVE  IInv'
    BY <2>1, NewSnapshotStep DEF CreateSnapshot
  <2> QED BY <1>3, <2>1, CreateDiffSnapshotStep, RollbackToStep, RollbackToDiffStep,
             LoadSnapshotStep DEF Call
<1>4. ASSUME NEW t \in Threads, Step(t)
      PROVE  IInv'
  <2>1. CASE Promote(t)
    <3>1. loc[t].mem \in Memories
      BY <2>1, KeptTypes DEF Promote, GoodLocals
    <3> QED BY <2>1, <3>1, NewSnapshotStep DEF Promote
  <2>2. CASE DiffSizeMismatch(t)
    BY <2>2, FailStep DEF DiffSizeMismatch
  <2> QED BY <1>4, <2>1, <2>2, CreatePushStep, PersistStep, CountRollbackStep,
             ReconstructFullStep, ReconstructTargetStep, WalkStep, ReadBaseStep,
             ApplyNextStep, PushDiffStep, ReturnStep DEF Step
<1> QED BY <1>1, <1>2, <1>3, <1>4 DEF Next

(***************************************************************************)
(* Theorems.                                                               *)
(***************************************************************************)
\* In every reachable state the manager's fields are what the code declares
\* them to be; a base read for a diff, and a memory handed back, is one that
\* an execution had.
THEOREM TypeCorrect == Spec => []TypeOK
<1>1. IInv => TypeOK
  BY DEF IInv
<1> QED BY <1>1, InitInvariant, NextInvariant, PTL DEF Spec

\* SnapshotRingBuffer's index and its deque agree in every reachable state:
\* push keeps them so whether or not it evicts, and whoever pushes next.
THEOREM IndexAlwaysConsistent == Spec => []IndexConsistent
<1>1. IInv => IndexConsistent
  BY DEF IInv
<1> QED BY <1>1, InitInvariant, NextInvariant, PTL DEF Spec

\* rollback_to, rollback_to_diff and load_snapshot return the captured memory
\* or fail, and a diff is always computed against its base's memory, under
\* every interleaving with evictions, pushes, failed writes and restarts.
THEOREM RestoreAlwaysFaithful == Spec => []RestoreFaithful
<1>1. IInv => RestoreFaithful
  BY DEF IInv, ThreadsOK, GoodLocals, RestoreFaithful
<1> QED BY <1>1, InitInvariant, NextInvariant, PTL DEF Spec


(***************************************************************************)
(* Generations.  A thread fixes the generation of its diff when the call   *)
(* starts and pushes the diff later, after other threads pushed theirs:    *)
(* what it fixed stays true because a pushed diff has a new id, and so is  *)
(* never the base of a diff that was begun before.  That base is in the    *)
(* store, not on its way there.                                            *)
(***************************************************************************)
GenOver(list, base, gen) ==
  LET below == {d \in Range(list) : d.id = base}
  IN  IF below = {} THEN gen = 1 ELSE \E b \in below : gen = b.gen + 1

Diffing == {"full", "target", "walk", "base", "apply", "diff"}

GenerationsFixed ==
  \A t \in Threads : pc[t] \in Diffing /\ loc[t].op = "diff" =>
    /\ loc[t].id < nextId /\ GenOver(diffs, loc[t].id, loc[t].gen)
    /\ \A u \in Threads : pc[u] = "push" => loc[u].id # loc[t].id

GInv == IInv /\ GenerationIsDepth /\ GenerationsFixed

\* One thread moves: it works on no diff, or on the one it began.
LEMMA GenerationsStay ==
  ASSUME GInv, IInv', NEW t \in Threads, NEW label, NEW l,
         pc' = [pc EXCEPT ![t] = label], loc' = [loc EXCEPT ![t] = l],
         diffs' = diffs, nextId' = nextId \/ nextId' = nextId + 1,
         label = "push" => l.id = nextId,
         label \in Diffing /\ l.op = "diff" =>
           /\ l.id < nextId /\ GenOver(diffs, l.id, l.gen)
           /\ \A u \in Threads : pc[u] = "push" => loc[u].id # l.id
  PROVE  GInv'
<1>1. /\ pc \in [Threads -> Labels] /\ loc \in [Threads -> Locals] /\ nextId \in Nat
      /\ \A u \in Threads : loc[u].id \in Nat
  BY DEF GInv, IInv, TypeOK, Labels, Locals
<1>2. GenerationIsDepth'
  BY DEF GInv, GenerationIsDepth, FindDiff
<1>3. GenerationsFixed'
  <2> SUFFICES ASSUME NEW u \in Threads, pc'[u] \in Diffing, loc'[u].op = "diff"
               PROVE  /\ loc'[u].id < nextId' /\ GenOver(diffs', loc'[u].id, loc'[u].gen)
                      /\ \A v \in Threads : pc'[v] = "push" => loc'[v].id # loc'[u].id
    BY DEF GenerationsFixed
  <2>1. /\ loc'[u].id < nextId /\ GenOver(diffs, loc'[u].id, loc'[u].gen)
        /\ \A v \in Threads : pc[v] = "push" => loc[v].id # loc'[u].id
    BY <1>1 DEF GInv, GenerationsFixed
  <2>2. loc'[u].id \in Int
    BY DEF IInv, TypeOK, Locals
  <2>3. ASSUME NEW v \in Threads, pc'[v] = "push" PROVE loc'[v].id # loc'[u].id
    BY <1>1, <2>1, <2>2, <2>3
  <2> QED BY <1>1, <2>1, <2>2, <2>3
<1> QED BY <1>2, <1>3 DEF GInv

\* The step of a thread that is on a diff keeps the base and generation of the
\* call.
LEMMA DiffGoesOn ==
  ASSUME GInv, IInv', NEW t \in Threads, NEW label, NEW l,
         pc' = [pc EXCEPT ![t] = label], loc' = [loc EXCEPT ![t] = l],
         diffs' = diffs, nextId' = nextId \/ nextId' = nextId + 1,
         label = "push" => l.id = nextId,
         label \in Diffing /\ l.op = "diff" =>
           pc[t] \in Diffing /\ loc[t].op = "diff" /\ l.id = loc[t].id /\ l.gen = loc[t].gen
  PROVE  GInv'
<1>1. label \in Diffing /\ l.op = "diff" =>
        /\ l.id < nextId /\ GenOver(diffs, l.id, l.gen)
        /\ \A u \in Threads : pc[u] = "push" => loc[u].id # l.id
  BY DEF GInv, GenerationsFixed
<1> QED BY <1>1, GenerationsStay

LEMMA GenerationIsOver == ASSUME NEW base PROVE GenOver(diffs, base, Generation(base))
BY DEF GenOver, Generation, FindDiff

LEMMA CreateDiffGen ==
  ASSUME GInv, IInv', NEW t \in Threads, NEW memory \in Memories, NEW base \in KnownIds,
         CreateDiffSnapshot(t, memory, base)
  PROVE  GInv'
<1>1. PICK g, l, label :
        /\ g = Generation(base) /\ label \in {"promote", "full"}
        /\ l = [Idle EXCEPT !.op = "diff", !.id = base, !.base = base, !.gen = g, !.mem = memory]
        /\ pc' = [pc EXCEPT ![t] = label] /\ loc' = [loc EXCEPT ![t] = l]
        /\ diffs' = diffs /\ nextId' = nextId
  BY DEF CreateDiffSnapshot, Goto, Set
<1>2. l.id = base /\ l.gen = g
  BY <1>1, IdleIsLocals DEF Locals
<1>3. base < nextId
  BY KnownBelow DEF GInv, IInv, TypeOK
<1>4. l.id < nextId /\ GenOver(diffs, l.id, l.gen)
  BY <1>1, <1>2, <1>3, GenerationIsOver
<1>5. \A u \in Threads : pc[u] = "push" => loc[u].id # base
  BY KeptTypes DEF GInv, GoodLocals, KnownIds, Unknown
<1>6. label # "push"
  BY <1>1
<1> QED BY <1>1, <1>2, <1>4, <1>5, <1>6, GenerationsStay

LEMMA NewSnapshotGen ==
  ASSUME GInv, IInv', NEW t \in Threads, NEW op, NEW memory, NewSnapshot(t, op, memory)
  PROVE  GInv'
<1>1. PICK l : /\ l = [Idle EXCEPT !.op = op, !.id = nextId, !.mem = memory]
              /\ loc' = [loc EXCEPT ![t] = l]
  BY DEF NewSnapshot, Set
<1>2. pc' = [pc EXCEPT ![t] = "push"] /\ diffs' = diffs /\ nextId' = nextId + 1
  BY DEF NewSnapshot, Goto
<1>3. l.id = nextId
  BY <1>1, IdleIsLocals DEF Locals
<1> QED BY <1>1, <1>2, <1>3, DiffGoesOn DEF Diffing

\* Calls that take no diff, and steps that leave one.
LEMMA EndGen ==
  ASSUME GInv, IInv', NEW t \in Threads, diffs' = diffs, nextId' = nextId,
         \/ Fail(t)
         \/ \E label \in {"count", "persist", "ok", "none", "idle"} :
              Goto(t, label) /\ (UNCHANGED loc \/ \E l : Set(t, l))
  PROVE  GInv'
<1>1. loc = [loc EXCEPT ![t] = loc[t]]
  BY KeptTypes DEF GInv
<1>2. PICK label, l : /\ label \notin Diffing \cup {"push"}
                      /\ pc' = [pc EXCEPT ![t] = label] /\ loc' = [loc EXCEPT ![t] = l]
  BY <1>1 DEF Fail, Goto, Set, Diffing
<1> QED BY <1>2, DiffGoesOn

LEMMA StartWalkGen ==
  ASSUME GInv, IInv', NEW t \in Threads, NEW op, NEW id, StartWalk(t, op, id),
         op = "diff" => pc[t] \in Diffing /\ loc[t].op = "diff" /\ id = loc[t].id
  PROVE  GInv'
<1>1. diffs' = diffs /\ nextId' = nextId /\ loc[t] \in Locals
  BY KeptTypes DEF StartWalk, GInv
<1>2. CASE Fail(t)
  BY <1>1, <1>2, EndGen
<1>3. ASSUME NEW d, Set(t, [loc[t] EXCEPT !.op = op, !.id = id, !.base = d.base, !.chain = <<d>>]),
             Goto(t, "walk")
      PROVE  GInv'
  <2>1. PICK k, l : k = loc[t] /\ l = [k EXCEPT !.op = op, !.id = id, !.base = d.base, !.chain = <<d>>]
    OBVIOUS
  <2>2. l.op = op /\ l.id = id /\ l.gen = k.gen
    BY <1>1, <2>1 DEF Locals
  <2>3. pc' = [pc EXCEPT ![t] = "walk"] /\ loc' = [loc EXCEPT ![t] = l]
    BY <1>3, <2>1 DEF Set, Goto
  <2> QED BY <1>1, <2>1, <2>2, <2>3, DiffGoesOn
<1> QED BY <1>2, <1>3 DEF StartWalk

\* The steps of reconstruct_memory_for and of the two walks.
LEMMA WalkGen ==
  ASSUME GInv, IInv', NEW t \in Threads,
         ReconstructFull(t) \/ Walk(t) \/ ReadBase(t) \/ ApplyNext(t)
  PROVE  GInv'
<1>1. /\ diffs' = diffs /\ nextId' = nextId /\ pc[t] \in Diffing
      /\ loc[t] \in Locals /\ loc = [loc EXCEPT ![t] = loc[t]] /\ pc = [pc EXCEPT ![t] = pc[t]]
  BY KeptTypes DEF ReconstructFull, Walk, ReadBase, ApplyNext, GInv, Diffing
<1>2. ASSUME NEW label, label # "push", pc' = [pc EXCEPT ![t] = label], NEW l,
             loc' = [loc EXCEPT ![t] = l],
             \E base, chain, out :
               \/ l = loc[t] \/ l = [loc[t] EXCEPT !.out = out]
               \/ l = [loc[t] EXCEPT !.base = base, !.chain = chain]
               \/ l = [loc[t] EXCEPT !.out = out, !.chain = chain]
      PROVE  GInv'
  <2>1. l.op = loc[t].op /\ l.id = loc[t].id /\ l.gen = loc[t].gen
    BY <1>1, <1>2 DEF Locals
  <2> QED BY <1>1, <1>2, <2>1, DiffGoesOn
<1>3. CASE Fail(t)
  BY <1>1, <1>3, EndGen
<1>4. CASE ReconstructFull(t)
  <2>1. CASE Has(loc[t].base)
    <3>1. PICK out, l : l = [loc[t] EXCEPT !.out = out] /\ loc' = [loc EXCEPT ![t] = l]
      BY <1>4, <2>1 DEF ReconstructFull, Set
    <3> QED BY <1>2, <1>4, <2>1, <3>1 DEF ReconstructFull, Goto
  <2>2. CASE ~Has(loc[t].base)
    <3>1. pc' = [pc EXCEPT ![t] = "target"] /\ loc' = [loc EXCEPT ![t] = loc[t]]
      BY <1>1, <1>4, <2>2 DEF ReconstructFull, Goto
    <3> QED BY <1>2, <3>1
  <2> QED BY <2>1, <2>2
<1>5. CASE Walk(t) /\ ~Fail(t)
  <2>1. CASE Has(loc[t].base)
    <3>1. pc' = [pc EXCEPT ![t] = "base"] /\ loc' = [loc EXCEPT ![t] = loc[t]]
      BY <1>1, <1>5, <2>1 DEF Walk, Goto
    <3> QED BY <1>2, <3>1
  <2>2. CASE ~Has(loc[t].base)
    <3>1. PICK d, l : /\ l = [loc[t] EXCEPT !.base = d.base, !.chain = <<d>> \o loc[t].chain]
                      /\ loc' = [loc EXCEPT ![t] = l]
      BY <1>5, <2>2 DEF Walk, Set
    <3>2. pc' = [pc EXCEPT ![t] = pc[t]]
      BY <1>1, <1>5, <2>2 DEF Walk
    <3> QED BY <1>1, <1>2, <3>1, <3>2 DEF Diffing
  <2> QED BY <2>1, <2>2
<1>6. CASE ReadBase(t) /\ ~Fail(t)
  <2>1. PICK out, l : l = [loc[t] EXCEPT !.out = out] /\ loc' = [loc EXCEPT ![t] = l]
    BY <1>6 DEF ReadBase, Set
  <2> QED BY <1>2, <1>6, <2>1 DEF ReadBase, Goto
<1>7. CASE ApplyNext(t) /\ ~Fail(t)
  <2>1. CASE loc[t].chain = << >>
    <3>1. PICK label \in {"diff", "count"} :
            pc' = [pc EXCEPT ![t] = label] /\ loc' = [loc EXCEPT ![t] = loc[t]]
      BY <1>1, <1>7, <2>1 DEF ApplyNext, Goto
    <3> QED BY <1>2, <3>1
  <2>2. CASE loc[t].chain # << >>
    <3>1. PICK out, chain, l : /\ l = [loc[t] EXCEPT !.out = out, !.chain = chain]
                               /\ loc' = [loc EXCEPT ![t] = l]
      BY <1>7, <2>2 DEF ApplyNext, Set
    <3>2. pc' = [pc EXCEPT ![t] = pc[t]]
      BY <1>1, <1>7, <2>2 DEF ApplyNext
    <3> QED BY <1>1, <1>2, <3>1, <3>2 DEF Diffing
  <2> QED BY <2>1, <2>2
<1> QED BY <1>3, <1>4, <1>5, <1>6, <1>7

\* The push: the new diff is one above the base the call named, and no diff
\* begun before is based on it.
LEMMA PushDiffGen ==
  ASSUME GInv, IInv', NEW t \in Threads, PushDiff(t)
  PROVE  GInv'
<1> DEFINE l == [Idle EXCEPT !.op = "diff", !.id = nextId]
<1>1. PICK d : /\ diffs' = Append(diffs, d)
               /\ d.id = nextId /\ d.base = loc[t].id /\ d.gen = loc[t].gen
  BY DEF PushDiff
<1>2. /\ pc[t] = "diff" /\ nextId' = nextId + 1
      /\ pc' = [pc EXCEPT ![t] = "ok"] /\ loc' = [loc EXCEPT ![t] = l]
  BY DEF PushDiff, Goto, Set
<1> HIDE DEF l
<1>3. /\ pc \in [Threads -> Labels] /\ loc \in [Threads -> Locals] /\ nextId \in Nat
      /\ diffs \in Seq(DiffRecord) /\ \A u \in Threads : loc[u].id \in Nat
  BY SMTT(30) DEF GInv, IInv, TypeOK, Labels, Locals
<1>4. /\ loc[t].op = "diff" /\ loc[t].gen \in 1 .. MaxDiffDepth
      /\ loc[t].id < nextId /\ GenOver(diffs, loc[t].id, loc[t].gen)
  BY <1>2, KeptTypes DEF GInv, GoodLocals, GenerationsFixed, Diffing
<1>5. /\ DOMAIN diffs' = 1 .. Len(diffs) + 1 /\ DOMAIN diffs = 1 .. Len(diffs)
      /\ diffs'[Len(diffs) + 1] = d /\ Len(diffs) \in Nat
      /\ \A i \in 1 .. Len(diffs) : diffs'[i] = diffs[i]
  BY <1>1, <1>3
<1>6. Range(diffs') = Range(diffs) \cup {d}
  BY <1>5 DEF Range
<1>7. ASSUME NEW base \in Int, NEW gen, base < nextId, GenOver(diffs, base, gen)
      PROVE  GenOver(diffs', base, gen)
  <2>1. {e \in Range(diffs') : e.id = base} = {e \in Range(diffs) : e.id = base}
    BY <1>1, <1>3, <1>6, <1>7
  <2> QED BY <1>7, <2>1 DEF GenOver
<1>8. GenerationIsDepth'
  <2> SUFFICES ASSUME NEW i \in DOMAIN diffs'
               PROVE  /\ diffs'[i].gen <= MaxDiffDepth /\ diffs'[i].base < diffs'[i].id
                      /\ GenOver(diffs', diffs'[i].base, diffs'[i].gen)
    BY DEF GenerationIsDepth, GenOver, FindDiff
  <2>1. CASE i = Len(diffs) + 1
    BY <1>1, <1>3, <1>4, <1>5, <1>7, <2>1
  <2>2. CASE i \in 1 .. Len(diffs)
    <3>1. /\ diffs[i].gen <= MaxDiffDepth /\ diffs[i].base < diffs[i].id
          /\ GenOver(diffs, diffs[i].base, diffs[i].gen)
      BY <1>5, <2>2 DEF GInv, GenerationIsDepth, GenOver, FindDiff
    <3>2. diffs[i].base \in Int /\ diffs[i].base < nextId
      BY <1>3, <2>2 DEF GInv, IInv, DiffsOK, GoodDiff
    <3> QED BY <1>5, <1>7, <2>2, <3>1, <3>2
  <2> QED BY <1>5, <2>1, <2>2
<1>9. GenerationsFixed'
  <2> SUFFICES ASSUME NEW u \in Threads, pc'[u] \in Diffing, loc'[u].op = "diff"
               PROVE  /\ loc'[u].id < nextId' /\ GenOver(diffs', loc'[u].id, loc'[u].gen)
                      /\ \A v \in Threads : pc'[v] = "push" => loc'[v].id # loc'[u].id
    BY DEF GenerationsFixed
  <2>1. u # t /\ pc[u] \in Diffing /\ loc[u].op = "diff" /\ loc'[u] = loc[u]
    BY <1>2, <1>3 DEF Diffing
  <2>2. /\ loc[u].id < nextId /\ GenOver(diffs, loc[u].id, loc[u].gen)
        /\ \A v \in Threads : pc[v] = "push" => loc[v].id # loc[u].id
    BY <2>1 DEF GInv, GenerationsFixed
  <2>3. \A v \in Threads : pc'[v] = "push" => pc[v] = "push" /\ loc'[v] = loc[v]
    BY <1>2, <1>3
  <2> QED BY <1>2, <1>3, <1>7, <2>1, <2>2, <2>3
<1> QED BY <1>8, <1>9 DEF GInv

LEMMA InitGenerations == Init => GInv
BY InitInvariant DEF Init, GInv, GenerationIsDepth, GenerationsFixed, Diffing

LEMMA NextGenerations == GInv /\ [Next]_vars => GInv'
<1> SUFFICES ASSUME GInv, [Next]_vars PROVE GInv'
  OBVIOUS
<1>1. IInv'
  BY NextInvariant DEF GInv
<1>2. CASE UNCHANGED vars
  BY <1>1, <1>2 DEF vars, GInv, GenerationIsDepth, GenerationsFixed, FindDiff
<1>3. CASE Restart
  BY <1>1, <1>3 DEF Restart, GInv, GenerationIsDepth, GenerationsFixed, Diffing
<1>4. ASSUME NEW t \in Threads, Call(t)
      PROVE  GInv'
  <2>1. ASSUME NEW memory \in Memories, CreateSnapshot(t, memory)
        PROVE  GInv'
    BY <1>1, <2>1, NewSnapshotGen DEF CreateSnapshot
  <2>2. ASSUME NEW id \in KnownIds, RollbackTo(t, id)
        PROVE  GInv'
    BY <1>1, <2>2, EndGen DEF RollbackTo
  <2>3. ASSUME NEW id \in KnownIds, RollbackToDiff(t, id)
        PROVE  GInv'
    BY <1>1, <2>3, StartWalkGen DEF RollbackToDiff
  <2>4. ASSUME NEW id \in KnownIds, LoadSnapshot(t, id)
        PROVE  GInv'
    BY <1>1, <2>4, EndGen DEF LoadSnapshot
  <2> QED BY <1>1, <1>4, <2>1, <2>2, <2>3, <2>4, CreateDiffGen DEF Call
<1>5. ASSUME NEW t \in Threads, Step(t)
      PROVE  GInv'
  <2>1. CASE CreatePush(t) \/ PersistSnapshot(t) \/ PersistFails(t) \/ CountRollback(t)
    BY <1>1, <2>1, EndGen DEF CreatePush, PersistSnapshot, PersistFails, CountRollback
  <2>2. CASE Promote(t)
    BY <1>1, <2>2, NewSnapshotGen DEF Promote
  <2>3. CASE ReconstructTarget(t)
    <3>1. GoodLocals("target", loc[t], captured, nextId)
      BY <2>3, KeptTypes DEF ReconstructTarget, GInv
    <3>2. loc[t].op = "diff" /\ loc[t].base = loc[t].id /\ pc[t] \in Diffing
      BY <2>3, <3>1 DEF GoodLocals, ReconstructTarget, Diffing
    <3> QED BY <1>1, <2>3, <3>2, StartWalkGen DEF ReconstructTarget
  <2>4. CASE DiffSizeMismatch(t)
    BY <1>1, <2>4, EndGen DEF DiffSizeMismatch
  <2>5. CASE Return(t)
    BY <1>1, <2>5, EndGen DEF Return
  <2> QED BY <1>1, <1>5, <2>1, <2>2, <2>3, <2>4, <2>5, WalkGen, PushDiffGen DEF Step
<1> QED BY <1>2, <1>3, <1>4, <1>5 DEF Next

\* However many threads stack diffs at once, a diff's generation counts the
\* diffs below it, none is deeper than max_diff_depth and every base is older
\* than its diff, so a walk down a chain ends (create_diff_snapshot fixes the
\* generation long before push_diff).
THEOREM GenerationAlwaysDepth == Spec => []GenerationIsDepth
<1>1. GInv => GenerationIsDepth
  BY DEF GInv
<1> QED BY <1>1, InitGenerations, NextGenerations, PTL DEF Spec

(***************************************************************************)
(* The refinement.  A full snapshot is taken, for SnapshotStore, when its  *)
(* thread pushes it into the ring, a diff when it is pushed onto the list; *)
(* every other step of a thread is a stutter, and a restart loses all.     *)
(***************************************************************************)
RingBounded == Len(snapshots) <= Store!Limit

FInv == GInv /\ RingBounded

\* What the ring and the list show their callers.
Retained == [i \in DOMAIN snapshots |-> snapshots[i].id]
ParentOf(list) ==
  [id \in {d.id : d \in Range(list)} |-> (CHOOSE d \in {e \in Range(list) : e.id = id} : TRUE).base]
Known == KnownIds \ {Unknown}
SnapRecord == [id : Ids, memory : {Compressed(m) : m \in Memories}]

LEMMA StoreStutters ==
  ASSUME UNCHANGED <<Retained, ParentOf(diffs), Known>>
  PROVE  UNCHANGED Store!store
BY DEF Store!store, Retained, ParentOf, Known, FindDiff

LEMMA TakesFull ==
  ASSUME NEW id \in Ids, id \notin Known, Known' = Known \cup {id},
         Retained' = LET all == Append(Retained, id)
                     IN IF Len(all) > Store!Limit THEN Tail(all) ELSE all,
         UNCHANGED ParentOf(diffs)
  PROVE  Store!TakeFull(id)
BY DEF Store!TakeFull, Retained, ParentOf, Known, FindDiff

LEMMA TakesDiff ==
  ASSUME NEW id \in Ids, id \notin Known, NEW base \in Known, Known' = Known \cup {id},
         ParentOf(diffs)' = [d \in DOMAIN ParentOf(diffs) \cup {id} |->
                               IF d = id THEN base ELSE ParentOf(diffs)[d]],
         UNCHANGED Retained
  PROVE  Store!TakeDiff(id, base)
BY DEF Store!TakeDiff, Retained, ParentOf, Known, FindDiff

\* A step that pushes nothing is not seen.
LEMMA QuietStep ==
  ASSUME GInv, NEW t \in Threads, pc[t] # "push", NEW label, label # "push",
         pc' = [pc EXCEPT ![t] = label], loc' = loc \/ \E l : loc' = [loc EXCEPT ![t] = l],
         snapshots' = snapshots, diffs' = diffs, nextId' = nextId
  PROVE  UNCHANGED Store!store
<1>1. pc \in [Threads -> Labels] /\ loc \in [Threads -> Locals]
  BY DEF GInv, IInv, TypeOK, Labels
<1>2. \A u \in Threads : /\ pc'[u] = "push" <=> pc[u] = "push"
                         /\ pc[u] = "push" => loc'[u] = loc[u]
  BY <1>1
<1>3. KnownIds' = KnownIds
  BY <1>2 DEF KnownIds
<1>4. UNCHANGED <<Retained, ParentOf(diffs), Known>>
  BY <1>3 DEF Retained, ParentOf, Known, Unknown
<1> QED BY <1>4, StoreStutters

\* A new full snapshot gets its id, and is not known before it is pushed.
LEMMA NewSnapshotRefines ==
  ASSUME GInv, NEW t \in Threads, pc[t] # "push", NEW op, NEW memory, NewSnapshot(t, op, memory)
  PROVE  UNCHANGED Store!store
<1>1. PICK l : /\ l = [Idle EXCEPT !.op = op, !.id = nextId, !.mem = memory]
              /\ loc' = [loc EXCEPT ![t] = l]
  BY DEF NewSnapshot, Set
<1>2. l.id = nextId
  BY <1>1, IdleIsLocals DEF Locals
<1>3. /\ pc' = [pc EXCEPT ![t] = "push"] /\ nextId' = nextId + 1
      /\ snapshots' = snapshots /\ diffs' = diffs
  BY DEF NewSnapshot, Goto, ring
<1>4. pc \in [Threads -> Labels] /\ loc \in [Threads -> Locals] /\ nextId \in Nat
  BY DEF GInv, IInv, TypeOK, Labels
<1>5. \A u \in Threads : /\ pc'[u] = IF u = t THEN "push" ELSE pc[u]
                         /\ loc'[u] = IF u = t THEN l ELSE loc[u]
  BY <1>1, <1>3, <1>4
<1>6. KnownIds' = KnownIds
  BY <1>2, <1>3, <1>4, <1>5 DEF KnownIds
<1>7. UNCHANGED <<Retained, ParentOf(diffs), Known>>
  BY <1>3, <1>6 DEF Retained, ParentOf, Known, Unknown
<1> QED BY <1>7, StoreStutters

\* SnapshotRingBuffer::push keeps the newest snapshots, in order.
LEMMA PushKeepsNewest ==
  ASSUME NEW list \in Seq(Ids), NEW id \in Ids, Len(list) <= Store!Limit
  PROVE  LET all  == Append(list, id)
             kept == IF Len(list) >= Capacity /\ list # << >> THEN Tail(list) ELSE list
         IN  /\ Append(kept, id) = IF Len(all) > Store!Limit THEN Tail(all) ELSE all
             /\ Len(Append(kept, id)) <= Store!Limit
<1>1. Store!Limit \in Nat \ {0} /\ (Capacity # 0 => Store!Limit = Capacity) /\ (Capacity = 0 => Store!Limit = 1)
  BY DEF Store!Limit
<1>2. /\ Len(list) \in Nat /\ Len(Append(list, id)) = Len(list) + 1
      /\ (list = << >> <=> Len(list) = 0)
  BY EmptySeq
<1>3. CASE Len(list) < Store!Limit
  <2>1. ~(Len(list) >= Capacity /\ list # << >>)
    BY <1>1, <1>2, <1>3
  <2> QED BY <1>1, <1>2, <1>3, <2>1
<1>4. CASE Len(list) = Store!Limit
  <2>1. Len(list) >= Capacity /\ list # << >>
    BY <1>1, <1>2, <1>4
  <2>2. /\ Tail(list) \in Seq(Ids) /\ Len(Tail(list)) = Len(list) - 1
        /\ Tail(Append(list, id)) = Append(Tail(list), id)
    BY <1>2, <2>1
  <2> QED BY <1>1, <1>2, <1>4, <2>1, <2>2
<1> QED BY <1>1, <1>2, <1>3, <1>4

LEMMA TailFacts ==
  ASSUME NEW S, NEW s \in Seq(S), s # << >>
  PROVE  /\ Tail(s) \in Seq(S) /\ Len(Tail(s)) = Len(s) - 1
         /\ \A i \in 1 .. Len(s) - 1 : Tail(s)[i] = s[i + 1]
OBVIOUS

\* CreatePush is TakeFull: nobody else is pushing the same id.
LEMMA CreatePushRefines ==
  ASSUME FInv, NEW t \in Threads, CreatePush(t)
  PROVE  (\E k \in Ids : Store!TakeFull(k)) /\ RingBounded'
<1> DEFINE id == loc[t].id
           list == Retained
           kept == IF Len(list) >= Capacity /\ list # << >> THEN Tail(list) ELSE list
<1>1. /\ pc[t] = "push" /\ loc' = loc /\ diffs' = diffs /\ nextId' = nextId
      /\ GoodLocals("push", loc[t], captured, nextId)
  BY KeptTypes DEF CreatePush, FInv, GInv
<1>2. PICK label \in {"persist", "ok"} : pc' = [pc EXCEPT ![t] = label]
  BY DEF CreatePush, Goto
<1>3. /\ pc \in [Threads -> Labels] /\ nextId \in 1 .. (MaxIds + 1)
      /\ snapshots \in Seq(SnapRecord)
  BY DEF FInv, GInv, IInv, TypeOK, Labels, SnapRecord
<1>4. id \in 1 .. (nextId - 1) /\ id \in Ids /\ id # Unknown
  BY <1>1, <1>3 DEF GoodLocals, Ids, Unknown
<1>5. id \notin Known /\ Known' = Known \cup {id}
  <2>1. \A u \in Threads : pc'[u] = "push" <=> (u # t /\ pc[u] = "push")
    BY <1>2, <1>3
  <2>2. \A u \in Threads : u # t /\ pc[u] = "push" => loc[u].id # id
    BY <1>1 DEF FInv, GInv, IInv, InFlightOK
  <2>3. KnownIds' = KnownIds \cup {id}
    BY <1>1, <1>4, <2>1, <2>2 DEF KnownIds
  <2>4. id \notin KnownIds
    BY <1>1, <1>4 DEF KnownIds
  <2> QED BY <1>4, <2>3, <2>4 DEF Known, Unknown
<1>6. /\ list \in Seq(Ids) /\ Len(list) = Len(snapshots) /\ DOMAIN list = DOMAIN snapshots
      /\ (list = << >> <=> snapshots = << >>)
  <2>1. /\ DOMAIN snapshots = 1 .. Len(snapshots) /\ Len(snapshots) \in Nat
        /\ \A i \in 1 .. Len(snapshots) : snapshots[i] \in SnapRecord /\ snapshots[i].id \in Ids
    <3>1. \A i \in 1 .. Len(snapshots) : snapshots[i] \in SnapRecord
      BY <1>3
    <3>2. \A r \in SnapRecord : r.id \in Ids
      BY DEF SnapRecord
    <3> QED BY <1>3, <3>1, <3>2
  <2>2. list \in Seq(Ids) /\ Len(list) = Len(snapshots)
    BY <2>1 DEF Retained
  <2> QED BY <1>3, <2>1, <2>2, EmptySeq DEF Retained
<1>7. Retained' = Append(kept, id) /\ Len(snapshots') = Len(Append(kept, id))
  <2> DEFINE full == Len(snapshots) >= Capacity /\ snapshots # << >>
             old == IF full THEN Tail(snapshots) ELSE snapshots
             new == [id |-> id, memory |-> Compressed(loc[t].mem)]
  <2>1. snapshots' = Append(old, new)
    BY DEF CreatePush, Push
  <2>2. new \in SnapRecord /\ new.id = id
    <3>1. loc[t].mem \in Memories
      BY <1>1, <1>4 DEF GoodLocals, FInv, GInv, IInv, CapturedOK
    <3> QED BY <1>4, <3>1 DEF SnapRecord
  <2> HIDE DEF new
  <2>3. /\ old \in Seq(SnapRecord) /\ Len(old) = Len(kept)
        /\ kept \in Seq(Ids) /\ \A i \in 1 .. Len(kept) : kept[i] = old[i].id
    <3>1. CASE full
      <4>1. list # << >> /\ kept = Tail(list) /\ old = Tail(snapshots)
        BY <1>6, <3>1
      <4>2. /\ Tail(list) \in Seq(Ids) /\ Len(Tail(list)) = Len(list) - 1
            /\ \A i \in 1 .. Len(list) - 1 : Tail(list)[i] = list[i + 1]
        BY <1>6, <4>1, TailFacts
      <4>3. /\ Tail(snapshots) \in Seq(SnapRecord) /\ Len(Tail(snapshots)) = Len(snapshots) - 1
            /\ \A i \in 1 .. Len(snapshots) - 1 : Tail(snapshots)[i] = snapshots[i + 1]
        BY <1>3, <3>1
      <4>4. \A i \in 1 .. Len(list) : list[i] = snapshots[i].id
        BY <1>3, <1>6 DEF Retained
      <4>5. Len(list) \in Nat
        BY <1>6
      <4> HIDE DEF kept, old, list
      <4>6. \A i \in 1 .. Len(list) - 1 : Tail(list)[i] = Tail(snapshots)[i].id
        BY <1>6, <4>2, <4>3, <4>4, <4>5
      <4> QED BY <1>6, <4>1, <4>2, <4>3, <4>6
    <3>2. CASE ~full
      BY <1>3, <1>6, <3>2 DEF Retained
    <3> QED BY <3>1, <3>2
  <2> HIDE DEF old, kept
  <2>4. /\ snapshots' \in Seq(SnapRecord)
        /\ Len(snapshots') = Len(kept) + 1 /\ DOMAIN snapshots' = 1 .. Len(kept) + 1
        /\ \A i \in 1 .. Len(kept) + 1 : snapshots'[i] = IF i <= Len(old) THEN old[i] ELSE new
    BY <2>1, <2>2, <2>3
  <2>5. Retained' = [i \in 1 .. Len(kept) + 1 |-> IF i <= Len(kept) THEN kept[i] ELSE id]
    <3>1. Retained' = [i \in DOMAIN snapshots' |-> snapshots'[i].id]
      BY DEF Retained
    <3>2. \A i \in 1 .. Len(kept) + 1 : snapshots'[i].id = IF i <= Len(kept) THEN kept[i] ELSE id
      BY <2>2, <2>3, <2>4
    <3> QED BY <2>4, <3>1, <3>2
  <2>6. Append(kept, id) = [i \in 1 .. Len(kept) + 1 |-> IF i <= Len(kept) THEN kept[i] ELSE id]
    BY <1>4, <2>3
  <2>7. Len(Append(kept, id)) = Len(kept) + 1
    BY <1>4, <2>3
  <2> QED BY <2>4, <2>5, <2>6, <2>7
<1>8. Len(list) <= Store!Limit
  BY <1>6 DEF FInv, RingBounded
<1>9. /\ Retained' = LET all == Append(list, id)
                     IN IF Len(all) > Store!Limit THEN Tail(all) ELSE all
      /\ Len(snapshots') <= Store!Limit
  BY <1>4, <1>6, <1>7, <1>8, PushKeepsNewest
<1>10. UNCHANGED ParentOf(diffs)
  BY <1>1 DEF ParentOf
<1>11. RingBounded'
  BY <1>9 DEF RingBounded, Store!Limit
<1>12. PICK k : k = id
  OBVIOUS
<1>13. Store!TakeFull(k)
  BY <1>4, <1>5, <1>9, <1>10, <1>12, TakesFull
<1> QED BY <1>4, <1>11, <1>12, <1>13

\* PushDiff is TakeDiff: its base was known when the call began, and still is.
LEMMA PushDiffRefines ==
  ASSUME FInv, NEW t \in Threads, PushDiff(t)
  PROVE  \E k \in Ids, base \in Known : Store!TakeDiff(k, base)
<1>1. PICK d : diffs' = Append(diffs, d) /\ d.id = nextId /\ d.base = loc[t].id
  BY DEF PushDiff
<1>2. PICK l : /\ pc[t] = "diff" /\ nextId' = nextId + 1 /\ snapshots' = snapshots
               /\ pc' = [pc EXCEPT ![t] = "ok"] /\ loc' = [loc EXCEPT ![t] = l] /\ nextId <= MaxIds
  BY DEF PushDiff, Goto, Set, ring
<1>3. /\ pc \in [Threads -> Labels] /\ loc \in [Threads -> Locals] /\ nextId \in 1 .. (MaxIds + 1)
      /\ diffs \in Seq(DiffRecord) /\ nextId \in Ids
  BY <1>2 DEF FInv, GInv, IInv, TypeOK, Labels, Ids
<1>4. /\ loc[t].op = "diff" /\ loc[t].id \in 1 .. (nextId - 1)
      /\ \A u \in Threads : pc[u] = "push" => loc[u].id # loc[t].id
  BY <1>2, KeptTypes DEF FInv, GInv, GoodLocals, GenerationsFixed, Diffing
<1>5. loc[t].id \in Known
  BY <1>4 DEF Known, KnownIds, Unknown
<1>6. nextId \notin Known /\ Known' = Known \cup {nextId}
  <2>1. \A u \in Threads : /\ pc'[u] = "push" <=> pc[u] = "push"
                           /\ pc[u] = "push" => loc'[u] = loc[u] /\ loc[u].id \in 1 .. (nextId - 1)
    BY <1>2, <1>3, KeptTypes DEF FInv, GInv, GoodLocals
  <2>2. \A u \in Threads : pc[u] = "push" => loc[u].id # nextId
    BY <1>3, <2>1
  <2>3. KnownIds' = KnownIds \cup {nextId}
    BY <1>2, <1>3, <2>1, <2>2 DEF KnownIds
  <2>4. nextId \notin KnownIds /\ nextId # Unknown
    BY <1>3 DEF KnownIds, Unknown
  <2> QED BY <2>3, <2>4 DEF Known, Unknown
<1>7. Range(diffs') = Range(diffs) \cup {d}
  <2>1. /\ DOMAIN diffs' = 1 .. Len(diffs) + 1 /\ DOMAIN diffs = 1 .. Len(diffs)
        /\ diffs'[Len(diffs) + 1] = d /\ Len(diffs) \in Nat
        /\ \A i \in 1 .. Len(diffs) : diffs'[i] = diffs[i]
    BY <1>1, <1>3
  <2> QED BY <2>1 DEF Range
<1>8. \A e \in Range(diffs) : e.id # nextId
  <2>1. \A i \in 1 .. Len(diffs) : diffs[i].id \in 1 .. (nextId - 1)
    BY DEF FInv, GInv, IInv, DiffsOK, GoodDiff
  <2> QED BY <1>3, <2>1 DEF Range
<1>9. ParentOf(diffs') = [id \in DOMAIN ParentOf(diffs) \cup {nextId} |->
                            IF id = nextId THEN loc[t].id ELSE ParentOf(diffs)[id]]
  <2> DEFINE ids == {e.id : e \in Range(diffs)}
             first(list, id) == CHOOSE e \in {f \in Range(list) : f.id = id} : TRUE
  <2>1. {e.id : e \in Range(diffs')} = ids \cup {nextId}
    BY <1>1, <1>7
  <2>2. first(diffs', nextId).base = loc[t].id
    <3>1. {f \in Range(diffs') : f.id = nextId} = {d}
      BY <1>1, <1>7, <1>8
    <3> QED BY <1>1, <3>1
  <2>3. ASSUME NEW id \in ids PROVE id # nextId /\ first(diffs', id) = first(diffs, id)
    <3>1. id # nextId
      BY <1>8, <2>3
    <3>2. {f \in Range(diffs') : f.id = id} = {f \in Range(diffs) : f.id = id}
      BY <1>1, <1>7, <3>1
    <3> QED BY <3>1, <3>2
  <2>4. /\ ParentOf(diffs) = [id \in ids |-> first(diffs, id).base]
        /\ ParentOf(diffs') = [id \in ids \cup {nextId} |-> first(diffs', id).base]
    BY <2>1 DEF ParentOf
  <2> HIDE DEF first, ids
  <2> QED BY <2>2, <2>3, <2>4
<1>10. UNCHANGED Retained
  BY <1>2 DEF Retained
<1>11. ParentOf(diffs)' = ParentOf(diffs')
  BY DEF ParentOf
<1>12. PICK k, base : k = nextId /\ base = loc[t].id
  OBVIOUS
<1>13. ParentOf(diffs)' = [e \in DOMAIN ParentOf(diffs) \cup {k} |->
                             IF e = k THEN base ELSE ParentOf(diffs)[e]]
  BY <1>9, <1>11, <1>12
<1>14. Store!TakeDiff(k, base)
  BY <1>3, <1>5, <1>6, <1>10, <1>12, <1>13, TakesDiff
<1> QED BY <1>3, <1>5, <1>12, <1>14

\* A restart loses the store and gives no id out again.
LEMMA RestartRefines ==
  ASSUME FInv, Restart
  PROVE  Store!Lose /\ RingBounded'
<1>1. snapshots' = << >> /\ diffs' = << >> /\ nextId' = nextId /\ \A t \in Threads : pc'[t] = "idle"
  BY DEF Restart
<1>2. Retained' = << >>
  BY <1>1 DEF Retained
<1>3. ParentOf(diffs)' = [id \in {} |-> 0]
  <2>1. Range(diffs') = {}
    BY <1>1 DEF Range
  <2> QED BY <2>1 DEF ParentOf
<1>4. nextId \in 1 .. (MaxIds + 1)
  BY DEF FInv, GInv, IInv, TypeOK
<1>5. Known \subseteq Known' /\ Known' \subseteq Ids
  BY <1>1, <1>4 DEF Known, KnownIds, Unknown, Ids
<1>6. Len(snapshots') <= Store!Limit
  BY <1>1 DEF Store!Limit
<1> QED BY <1>2, <1>3, <1>5, <1>6
        DEF Store!Lose, Retained, ParentOf, Known, FindDiff, RingBounded, Store!Limit

\* The steps in between, whichever way they end.
LEMMA OtherStepsRefine ==
  ASSUME FInv, NEW t \in Threads,
         \/ \E id : RollbackTo(t, id) \/ RollbackToDiff(t, id) \/ LoadSnapshot(t, id)
         \/ \E memory, base : CreateDiffSnapshot(t, memory, base)
         \/ PersistSnapshot(t) \/ PersistFails(t) \/ CountRollback(t) \/ ReconstructFull(t)
         \/ ReconstructTarget(t) \/ Walk(t) \/ ReadBase(t) \/ ApplyNext(t) \/ DiffSizeMismatch(t)
         \/ Return(t)
  PROVE  UNCHANGED Store!store /\ snapshots' = snapshots
<1>1. pc[t] # "push" /\ snapshots' = snapshots /\ diffs' = diffs /\ nextId' = nextId
  BY DEF RollbackTo, RollbackToDiff, LoadSnapshot, CreateDiffSnapshot, PersistSnapshot, PersistFails,
         CountRollback, ReconstructFull, ReconstructTarget, Walk, ReadBase, ApplyNext,
         DiffSizeMismatch, Return, StartWalk, Ended, ring
<1>2. pc = [pc EXCEPT ![t] = pc[t]]
  BY KeptTypes DEF FInv, GInv
<1>3. \E label : label # "push" /\ pc' = [pc EXCEPT ![t] = label]
  <2>1. CASE \E id : RollbackTo(t, id) \/ RollbackToDiff(t, id) \/ LoadSnapshot(t, id)
    BY <2>1 DEF RollbackTo, RollbackToDiff, LoadSnapshot, StartWalk, Goto, Fail
  <2>2. CASE \E memory, base : CreateDiffSnapshot(t, memory, base)
    BY <2>2 DEF CreateDiffSnapshot, Goto
  <2>3. CASE PersistSnapshot(t) \/ PersistFails(t) \/ CountRollback(t) \/ ReconstructFull(t)
             \/ ReconstructTarget(t)
    BY <2>3 DEF PersistSnapshot, PersistFails, CountRollback, ReconstructFull, ReconstructTarget,
                StartWalk, Goto, Fail
  <2>4. CASE Walk(t) \/ ReadBase(t) \/ ApplyNext(t) \/ DiffSizeMismatch(t) \/ Return(t)
    BY <1>1, <1>2, <2>4 DEF Walk, ReadBase, ApplyNext, DiffSizeMismatch, Return, Goto, Fail
  <2> QED BY <2>1, <2>2, <2>3, <2>4
<1>4. loc' = loc \/ \E l : loc' = [loc EXCEPT ![t] = l]
  BY DEF RollbackTo, RollbackToDiff, LoadSnapshot, CreateDiffSnapshot, PersistSnapshot, PersistFails,
         CountRollback, ReconstructFull, ReconstructTarget, Walk, ReadBase, ApplyNext,
         DiffSizeMismatch, Return, StartWalk, Set, Fail
<1> QED BY <1>1, <1>3, <1>4, QuietStep DEF FInv

LEMMA StepRefines ==
  ASSUME FInv, [Next]_vars
  PROVE  (Store!Next \/ UNCHANGED Store!store) /\ RingBounded'
<1>1. CASE UNCHANGED vars
  <2>1. UNCHANGED <<snapshots, diffs, nextId, pc, loc>>
    BY <1>1 DEF vars, ring
  <2>2. UNCHANGED <<Retained, ParentOf(diffs), Known>> /\ RingBounded'
    BY <2>1 DEF Retained, ParentOf, Known, KnownIds, Unknown, RingBounded, FInv, Store!Limit
  <2> QED BY <2>2, StoreStutters
<1>2. CASE Restart
  BY <1>2, RestartRefines DEF Store!Next
<1>3. ASSUME NEW t \in Threads, NEW op, NEW memory, pc[t] # "push", NewSnapshot(t, op, memory)
      PROVE  UNCHANGED Store!store /\ RingBounded'
  <2>1. snapshots' = snapshots
    BY <1>3 DEF NewSnapshot, ring
  <2> QED BY <1>3, <2>1, NewSnapshotRefines DEF FInv, RingBounded, Store!Limit
<1>4. ASSUME NEW t \in Threads, CreatePush(t)
      PROVE  Store!Next /\ RingBounded'
  BY <1>4, CreatePushRefines DEF Store!Next
<1>5. ASSUME NEW t \in Threads, PushDiff(t)
      PROVE  Store!Next /\ RingBounded'
  <2>1. RingBounded'
    BY <1>5 DEF PushDiff, ring, FInv, RingBounded, Store!Limit
  <2> QED BY <1>5, <2>1, PushDiffRefines DEF Store!Next, Known
<1>6. ASSUME NEW t \in Threads, Call(t)
      PROVE  UNCHANGED Store!store /\ RingBounded'
  <2>1. ASSUME NEW memory \in Memories, CreateSnapshot(t, memory)
        PROVE  UNCHANGED Store!store /\ RingBounded'
    BY <1>3, <2>1 DEF CreateSnapshot
  <2>2. CASE UNCHANGED Store!store /\ snapshots' = snapshots
    BY <2>2 DEF FInv, RingBounded, Store!Limit
  <2> QED BY <1>6, <2>1, <2>2, OtherStepsRefine DEF Call
<1>7. ASSUME NEW t \in Threads, Step(t)
      PROVE  (Store!Next \/ UNCHANGED Store!store) /\ RingBounded'
  <2>1. CASE Promote(t)
    BY <1>3, <2>1 DEF Promote
  <2>2. CASE UNCHANGED Store!store /\ snapshots' = snapshots
    BY <2>2 DEF FInv, RingBounded, Store!Limit
  <2> QED BY <1>4, <1>5, <1>7, <2>1, <2>2, OtherStepsRefine DEF Step
<1> QED BY <1>1, <1>2, <1>6, <1>7 DEF Next

LEMMA InitRefines == Init => Store!Init /\ RingBounded
<1> SUFFICES ASSUME Init PROVE Store!Init /\ RingBounded
  OBVIOUS
<1>1. Range(diffs) = {} /\ DOMAIN snapshots = {} /\ KnownIds \ {Unknown} = {}
  BY DEF Init, Range, KnownIds, Unknown
<1>2. Len(snapshots) <= Store!Limit
  BY DEF Init, Store!Limit
<1> QED BY <1>1, <1>2 DEF Store!Init, RingBounded

\* The threads of SnapshotManager together implement the abstract store, for
\* every capacity, depth limit and number of threads: the ring is a window of
\* the newest snapshots in the order they were pushed, every diff hangs on a
\* snapshot its caller could know, ids are given once, and no rollback, walk or
\* failure changes what can be restored.
THEOREM ImplementsStore == Spec => StoreSpec
<1>1. Init => FInv
  BY InitGenerations, InitRefines DEF FInv
<1>2. FInv /\ [Next]_vars => FInv'
  BY NextGenerations, StepRefines DEF FInv
<1>3. FInv /\ [Next]_vars => [Store!Next]_(Store!store)
  BY StepRefines
<1> QED BY <1>1, <1>2, <1>3, InitRefines, PTL DEF Spec, StoreSpec, Store!Spec

-----------------------------------------------------------------------------
(***************************************************************************)
(* What is lost stays lost.  The chain below a known id never changes      *)
(* while the process lives, and only snapshots with new ids enter the      *)
(* ring.                                                                   *)
(***************************************************************************)
KeptIds(list) == {list[i] : i \in DOMAIN list}

\* Diffs hang on known ids.
Closed ==
  /\ DOMAIN ParentOf(diffs) \subseteq Known
  /\ \A d \in DOMAIN ParentOf(diffs) : ParentOf(diffs)[d] \in Known

OInv == FInv /\ Closed

LEMMA RestorableIsChain ==
  ASSUME NEW id
  PROVE  /\ Store!Restorable(id, MaxDiffDepth) <=>
              Chain(ParentOf(diffs), id, MaxDiffDepth)[MaxDiffDepth] \cap KeptIds(Retained) # {}
         /\ Store!Restorable(id, MaxDiffDepth)' <=>
              Chain(ParentOf(diffs)', id, MaxDiffDepth)[MaxDiffDepth] \cap KeptIds(Retained') # {}
<1>1. /\ Store!Below(id, MaxDiffDepth) = Chain(ParentOf(diffs), id, MaxDiffDepth)[MaxDiffDepth]
      /\ Store!Kept = KeptIds(Retained)
  BY Zenon DEF Store!Below, Chain, Parents, ParentOf, FindDiff, Store!Kept, KeptIds, Retained
<1>2. /\ Store!Below(id, MaxDiffDepth)' = Chain(ParentOf(diffs)', id, MaxDiffDepth)[MaxDiffDepth]
      /\ Store!Kept' = KeptIds(Retained')
  BY Zenon DEF Store!Below, Chain, Parents, ParentOf, FindDiff, Store!Kept, KeptIds, Retained
<1> QED BY <1>1, <1>2, Zenon DEF Store!Restorable

\* The steps of the store, in the terms of this module.
LEMMA StoreSteps ==
  ASSUME FInv, [Next]_vars
  PROVE  \/ \E id \in Ids \ Known :
              /\ Known' = Known \cup {id}
              /\ Retained' = LET all == Append(Retained, id)
                             IN IF Len(all) > Store!Limit THEN Tail(all) ELSE all
              /\ UNCHANGED ParentOf(diffs)
         \/ \E id \in Ids \ Known, base \in Known :
              /\ Known' = Known \cup {id}
              /\ ParentOf(diffs)' = [d \in DOMAIN ParentOf(diffs) \cup {id} |->
                                       IF d = id THEN base ELSE ParentOf(diffs)[d]]
              /\ UNCHANGED Retained
         \/ Retained' = << >> /\ ParentOf(diffs)' = [id \in {} |-> 0] /\ Known \subseteq Known'
         \/ UNCHANGED <<Retained, ParentOf(diffs), Known>>
<1>1. Store!Next \/ UNCHANGED Store!store
  BY StepRefines
<1> QED BY <1>1, Zenon DEF Store!Next, Store!TakeFull, Store!TakeDiff, Store!Lose, Store!store, Retained,
           ParentOf, Known, FindDiff

LEMMA RetainedType ==
  ASSUME FInv
  PROVE  Retained \in Seq(Ids) /\ Len(Retained) = Len(snapshots) /\ Len(snapshots) \in Nat
<1>1. snapshots \in Seq(SnapRecord) /\ Len(snapshots) \in Nat /\ DOMAIN snapshots = 1 .. Len(snapshots)
  BY DEF FInv, GInv, IInv, TypeOK, SnapRecord
<1>2. \A i \in 1 .. Len(snapshots) : snapshots[i].id \in Ids
  <2>1. \A i \in 1 .. Len(snapshots) : snapshots[i] \in SnapRecord
    BY <1>1
  <2> QED BY <2>1 DEF SnapRecord
<1>3. Retained \in [1 .. Len(snapshots) -> Ids]
  BY <1>1, <1>2 DEF Retained
<1> QED BY <1>1, <1>3

\* A push lets one new id in.
LEMMA PushAddsOne ==
  ASSUME NEW list \in Seq(Ids), NEW id \in Ids, NEW next,
         next = LET all == Append(list, id) IN IF Len(all) > Store!Limit THEN Tail(all) ELSE all
  PROVE  KeptIds(next) \subseteq KeptIds(list) \cup {id}
<1> DEFINE all == Append(list, id)
<1>1. Len(list) \in Nat
  OBVIOUS
<1>2. /\ all \in Seq(Ids) /\ Len(all) = Len(list) + 1 /\ all[Len(list) + 1] = id
      /\ \A i \in 1 .. Len(list) : all[i] = list[i]
  BY <1>1
<1>3. next \in {all, Tail(all)}
  OBVIOUS
<1> HIDE DEF all
<1>4. KeptIds(all) \subseteq KeptIds(list) \cup {id}
  BY <1>1, <1>2 DEF KeptIds
<1>5. KeptIds(Tail(all)) \subseteq KeptIds(all)
  <2>1. /\ Tail(all) \in Seq(Ids) /\ Len(Tail(all)) = Len(list)
        /\ \A i \in 1 .. Len(list) : Tail(all)[i] = all[i + 1]
    BY <1>1, <1>2
  <2>2. \A i \in 1 .. Len(list) : i + 1 \in DOMAIN all
    BY <1>1, <1>2
  <2> QED BY <2>1, <2>2 DEF KeptIds
<1> QED BY <1>3, <1>4, <1>5

LEMMA OrphansStep ==
  ASSUME OInv, [Next]_vars
  PROVE  /\ Closed'
         /\ \A id \in KnownIds : ~Store!Restorable(id, MaxDiffDepth)
                                   => ~Store!Restorable(id, MaxDiffDepth)'
<1> DEFINE p == ParentOf(diffs)
           q == ParentOf(diffs)'
<1>1. /\ DOMAIN p \subseteq Known /\ \A d \in DOMAIN p : p[d] \in Known
      /\ Known = KnownIds \ {0} /\ 0 \notin Ids /\ Retained \in Seq(Ids)
  BY RetainedType DEF OInv, Closed, Known, Unknown, Ids
<1>2. CASE Retained' = << >> /\ ParentOf(diffs)' = [id \in {} |-> 0] /\ Known \subseteq Known'
  <2>1. Closed'
    BY <1>2 DEF Closed
  <2>2. KeptIds(Retained') = {}
    BY <1>2 DEF KeptIds
  <2>3. \A id : ~Store!Restorable(id, MaxDiffDepth)'
    BY <2>2, RestorableIsChain
  <2> QED BY <2>1, <2>3
<1>3. ASSUME Closed', \A d \in KnownIds : d \in DOMAIN p <=> d \in DOMAIN q,
             \A d \in KnownIds : d \in DOMAIN p => q[d] = p[d],
             KeptIds(Retained') \cap KnownIds \subseteq KeptIds(Retained)
      PROVE  /\ Closed'
             /\ \A id \in KnownIds : ~Store!Restorable(id, MaxDiffDepth)
                                       => ~Store!Restorable(id, MaxDiffDepth)'
  <2>1. SUFFICES ASSUME NEW id \in KnownIds, Store!Restorable(id, MaxDiffDepth)'
                 PROVE  Store!Restorable(id, MaxDiffDepth)
    BY <1>3
  <2> DEFINE C == Chain(p, id, MaxDiffDepth)[MaxDiffDepth]
  <2>2. Chain(q, id, MaxDiffDepth)[MaxDiffDepth] = C /\ C \subseteq KnownIds
    <3>1. Agree(p, q, KnownIds)
      BY <1>1, <1>3 DEF Agree
    <3>2. MaxDiffDepth \in Nat /\ MaxDiffDepth \in 0 .. MaxDiffDepth
      BY DepthAssumption
    <3> HIDE DEF p, q
    <3> QED BY <3>1, <3>2, ChainStable
  <2>3. C \cap KeptIds(Retained') # {}
    BY <2>1, <2>2, RestorableIsChain
  <2>4. C \cap KeptIds(Retained) # {}
    BY <1>3, <2>2, <2>3
  <2> QED BY <2>4, RestorableIsChain
<1>4. ASSUME NEW id \in Ids \ Known, Known' = Known \cup {id},
             Retained' = LET all == Append(Retained, id)
                         IN IF Len(all) > Store!Limit THEN Tail(all) ELSE all,
             UNCHANGED ParentOf(diffs)
      PROVE  /\ Closed' /\ \A d \in KnownIds : d \in DOMAIN p <=> d \in DOMAIN q
             /\ \A d \in KnownIds : d \in DOMAIN p => q[d] = p[d]
             /\ KeptIds(Retained') \cap KnownIds \subseteq KeptIds(Retained)
  <2>1. Closed'
    BY <1>1, <1>4 DEF Closed
  <2>2. KeptIds(Retained') \subseteq KeptIds(Retained) \cup {id}
    BY <1>1, <1>4, PushAddsOne
  <2>3. id \notin KnownIds
    BY <1>1, <1>4
  <2> QED BY <1>4, <2>1, <2>2, <2>3
<1>5. ASSUME NEW id \in Ids \ Known, NEW base \in Known, Known' = Known \cup {id},
             ParentOf(diffs)' = [d \in DOMAIN ParentOf(diffs) \cup {id} |->
                                       IF d = id THEN base ELSE ParentOf(diffs)[d]],
             UNCHANGED Retained
      PROVE  /\ Closed' /\ \A d \in KnownIds : d \in DOMAIN p <=> d \in DOMAIN q
             /\ \A d \in KnownIds : d \in DOMAIN p => q[d] = p[d]
             /\ KeptIds(Retained') \cap KnownIds \subseteq KeptIds(Retained)
  <2>1. id \notin KnownIds
    BY <1>1, <1>5
  <2>2. q = [d \in DOMAIN p \cup {id} |-> IF d = id THEN base ELSE p[d]]
    BY <1>5
  <2> HIDE DEF p, q
  <2>3. DOMAIN q \subseteq Known' /\ \A d \in DOMAIN q : q[d] \in Known'
    BY <1>1, <1>5, <2>2
  <2>4. Closed'
    BY <2>3 DEF Closed, q
  <2> QED BY <1>5, <2>1, <2>2, <2>4
<1>6. CASE UNCHANGED <<Retained, ParentOf(diffs), Known>>
  <2>1. Closed'
    BY <1>1, <1>6 DEF Closed
  <2>2. KeptIds(Retained') = KeptIds(Retained) /\ p = q
    BY <1>6
  <2> QED BY <1>3, <2>1, <2>2
<1> HIDE DEF p, q
<1>7. FInv
  BY DEF OInv
<1> QED BY <1>2, <1>3, <1>4, <1>5, <1>6, <1>7, StoreSteps

\* Once a snapshot cannot be restored, because the ring has evicted the full
\* snapshot below it, no later push, diff, load or restart revives it,
\* however the threads interleave.
THEOREM OrphansAlwaysLost == Spec => OrphansStayLost
<1>1. Init => OInv
  <2> SUFFICES ASSUME Init PROVE OInv
    OBVIOUS
  <2>1. FInv
    BY InitGenerations, InitRefines DEF FInv
  <2>2. Range(diffs) = {}
    BY DEF Init, Range
  <2> QED BY <2>1, <2>2 DEF OInv, Closed, ParentOf
<1>2. OInv /\ [Next]_vars => OInv'
  BY OrphansStep, NextGenerations, StepRefines DEF OInv, FInv
<1>3. OInv /\ [Next]_vars =>
        [\A id \in KnownIds : ~Store!Restorable(id, MaxDiffDepth)
                                => ~Store!Restorable(id, MaxDiffDepth)']_vars
  BY OrphansStep
<1> QED BY <1>1, <1>2, <1>3, PTL DEF Spec, OrphansStayLost
=============================================================================
