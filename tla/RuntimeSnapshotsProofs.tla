----------------------- MODULE RuntimeSnapshotsProofs -----------------------
(***************************************************************************)
(* Proofs about the hypervisor's execution path (RuntimeSnapshots), for    *)
(* every number of callers, every capacity and every depth of the chains.  *)
(*                                                                         *)
(* Part 1: the telemetry counts exactly the answered executions.           *)
(* Part 2: a snapshot that cannot be restored stays lost, so a failed      *)
(*         execution that reports no rollback has lost nothing it could    *)
(*         have had.                                                       *)
(* Part 3: one caller at a time: the rollback is never refused, the two    *)
(*         rollback slots agree, the current snapshot is the root of the   *)
(*         chain that the next diff extends.                               *)
(***************************************************************************)
EXTENDS RuntimeSnapshots, ChainLemmas, SequenceTheorems

Labels == {"idle", "memory", "state", "run", "base", "create", "current", "latest",
           "verdict", "rollback", "record", "trace", "output", "return", "error"}
Kinds  == {"none", "plain", "traced", "fork", "manual"}
Locals == [kind : Kinds, size : Nat, base : 0 .. MaxIds, snap : 0 .. MaxIds,
           from : 0 .. MaxIds, mode : Modes \cup {"none", "host"}, back : BOOLEAN,
           trace : 0 .. MaxIds]

USE CapacityAssumption, SizesAssumption, FlagsAssumption, ThreadsAssumption, BoundAssumption

-----------------------------------------------------------------------------
(***************************************************************************)
(* The store under the execution path.                                     *)
(***************************************************************************)
StoreOK ==
  /\ known \in SUBSET Ids
  /\ retained \in Seq(known)
  /\ DOMAIN parent \subseteq known
  /\ \A d \in DOMAIN parent : parent[d] \in known

\* The snapshots that can be restored now.
Live == {id \in known : Restorable(id)}

StoreStep == \/ Store!TakeFull(NewId)
             \/ \E base \in known : Store!TakeDiff(NewId, base)
             \/ UNCHANGED <<retained, parent, known>>

LEMMA BelowIsChain ==
  ASSUME NEW id, NEW n \in Nat
  PROVE  Store!Below(id, n) = Chain(parent, id, n)[n]
BY Zenon DEF Store!Below, Chain, Parents

LEMMA BelowIsChainNext ==
  ASSUME NEW id, NEW n \in Nat
  PROVE  Store!Below(id, n)' = Chain(parent', id, n)[n]
BY Zenon DEF Store!Below, Chain, Parents

LEMMA LiveDef ==
  /\ \A id : id \in Live <=> id \in known /\ Chain(parent, id, MaxDiffDepth)[MaxDiffDepth] \cap Store!Kept # {}
  /\ \A id : id \in Live' <=> id \in known' /\ Chain(parent', id, MaxDiffDepth)[MaxDiffDepth] \cap Store!Kept' # {}
<1>1. \A id : Restorable(id) <=> Chain(parent, id, MaxDiffDepth)[MaxDiffDepth] \cap Store!Kept # {}
  BY BelowIsChain DEF Restorable, Store!Restorable
<1>2. \A id : Restorable(id)' <=> Chain(parent', id, MaxDiffDepth)[MaxDiffDepth] \cap Store!Kept' # {}
  BY BelowIsChainNext DEF Restorable, Store!Restorable
<1> QED BY <1>1, <1>2 DEF Live

\* Full snapshots enter the window one at a time, and the newest is in it.
LEMMA KeptStep ==
  ASSUME StoreOK, NEW id, Store!TakeFull(id)
  PROVE  /\ retained' \in Seq(known')
         /\ Len(retained') \in Nat \ {0}
         /\ retained'[Len(retained')] = id
         /\ Store!Kept' \subseteq Store!Kept \cup {id}
         /\ id \in Store!Kept'
<1> DEFINE all == Append(retained, id)
<1>1. known' = known \cup {id} /\ id \notin known /\ id \in Ids
  BY DEF Store!TakeFull
<1>2. retained \in Seq(known') /\ Len(retained) \in Nat
  BY <1>1 DEF StoreOK
<1>3. /\ all \in Seq(known') /\ Len(all) = Len(retained) + 1
      /\ all[Len(retained) + 1] = id
      /\ \A i \in 1 .. Len(retained) : all[i] = retained[i]
  BY <1>1, <1>2
<1>4. Store!Limit \in Nat \ {0}
  BY DEF Store!Limit
<1>5. retained' = IF Len(all) > Store!Limit THEN Tail(all) ELSE all
  BY DEF Store!TakeFull
<1> HIDE DEF all
<1>6. CASE Len(all) > Store!Limit
  <2>1. retained' = Tail(all) /\ Len(retained) >= 1
    BY <1>2, <1>3, <1>4, <1>5, <1>6
  <2>2. /\ Tail(all) \in Seq(known') /\ Len(Tail(all)) = Len(retained)
        /\ \A i \in 1 .. Len(retained) : Tail(all)[i] = all[i + 1]
    BY <1>2, <1>3, <2>1
  <2>3. Tail(all)[Len(retained)] = id
    BY <1>2, <1>3, <2>1, <2>2
  <2>4. \A i \in DOMAIN retained' : retained'[i] \in Store!Kept \cup {id}
    <3> SUFFICES ASSUME NEW i \in 1 .. Len(retained) PROVE all[i + 1] \in Store!Kept \cup {id}
      BY <1>2, <2>1, <2>2
    <3>1. CASE i = Len(retained)
      BY <1>3, <3>1
    <3>2. CASE i # Len(retained)
      <4>1. i + 1 \in 1 .. Len(retained) /\ all[i + 1] = retained[i + 1]
        BY <1>2, <1>3, <3>2
      <4> QED BY <1>2, <4>1 DEF Store!Kept
    <3> QED BY <3>1, <3>2
  <2> QED BY <1>2, <2>1, <2>2, <2>3, <2>4 DEF Store!Kept
<1>7. CASE ~(Len(all) > Store!Limit)
  <2>1. retained' = all
    BY <1>5, <1>7
  <2>2. \A i \in DOMAIN retained' : retained'[i] \in Store!Kept \cup {id}
    BY <1>2, <1>3, <2>1 DEF Store!Kept
  <2> QED BY <1>2, <1>3, <2>1, <2>2 DEF Store!Kept
<1> QED BY <1>6, <1>7

\* What a step of the store leaves alone: the chains of the snapshots there
\* were.  Those that could not be restored before cannot be restored after it.
LEMMA StoreGoesOn ==
  ASSUME StoreOK, StoreStep
  PROVE  /\ StoreOK'
         /\ known \subseteq known'
         /\ \A id \in known, k \in 0 .. MaxDiffDepth :
              Chain(parent', id, MaxDiffDepth)[k] = Chain(parent, id, MaxDiffDepth)[k]
         /\ \A id \in known : id \in Live' => id \in Live
<1>1. StoreOK' /\ known \subseteq known'
  <2>1. CASE Store!TakeFull(NewId)
    <3>1. known' = known \cup {NewId} /\ NewId \in Ids /\ parent' = parent
      BY <2>1 DEF Store!TakeFull
    <3>2. retained' \in Seq(known')
      BY <2>1, KeptStep
    <3> QED BY <3>1, <3>2 DEF StoreOK, Ids
  <2>2. ASSUME NEW base \in known, Store!TakeDiff(NewId, base) PROVE StoreOK' /\ known \subseteq known'
    <3>1. /\ known' = known \cup {NewId} /\ NewId \in Ids /\ retained' = retained
          /\ parent' = [d \in DOMAIN parent \cup {NewId} |-> IF d = NewId THEN base ELSE parent[d]]
      BY <2>2 DEF Store!TakeDiff
    <3> HIDE DEF NewId
    <3> QED BY <2>2, <3>1 DEF StoreOK, Ids
  <2>3. CASE UNCHANGED <<retained, parent, known>>
    BY <2>3 DEF StoreOK, Ids
  <2> QED BY <2>1, <2>2, <2>3 DEF StoreStep
<1>2. Agree(parent, parent', known)
  BY DEF Agree, StoreStep, StoreOK, Store!TakeFull, Store!TakeDiff
<1>3. ASSUME NEW id \in known, NEW k \in 0 .. MaxDiffDepth
      PROVE  /\ Chain(parent', id, MaxDiffDepth)[k] = Chain(parent, id, MaxDiffDepth)[k]
             /\ Chain(parent, id, MaxDiffDepth)[k] \subseteq known
  BY <1>2, <1>3, ChainStable
<1>4. Store!Kept' \cap known \subseteq Store!Kept
  <2>1. CASE Store!TakeFull(NewId)
    <3>1. NewId \notin known /\ Store!Kept' \subseteq Store!Kept \cup {NewId}
      BY <2>1, KeptStep DEF Store!TakeFull
    <3> QED BY <3>1
  <2>2. CASE retained' = retained
    BY <2>2 DEF Store!Kept
  <2> QED BY <2>1, <2>2 DEF StoreStep, Store!TakeDiff
<1>5. ASSUME NEW id \in known, id \in Live' PROVE id \in Live
  <2>1. MaxDiffDepth \in 0 .. MaxDiffDepth
    OBVIOUS
  <2> DEFINE C == Chain(parent, id, MaxDiffDepth)[MaxDiffDepth]
  <2>2. C \cap Store!Kept' # {} /\ C \subseteq known
    BY <1>3, <1>5, <2>1, LiveDef
  <2>3. C \cap Store!Kept # {}
    BY <1>4, <2>2
  <2> QED BY <2>3, LiveDef
<1> QED BY <1>1, <1>3, <1>5

-----------------------------------------------------------------------------
(***************************************************************************)
(* The types, and part 2's invariant of one thread.                        *)
(***************************************************************************)
Recorded == {"record", "trace", "output"}

\* A thread at `label' with locals l, when K is known and R can be restored.
LocalOK(label, l, K, R) ==
  /\ l.snap # None => l.snap \in K
  /\ l.base # None => l.base \in K
  /\ l.kind = "fork" => l.from \in K
  /\ label = "rollback" => l.snap # None
  /\ label \in Recorded /\ RequiresRollback(l.mode) /\ l.snap # None /\ ~l.back
       => l.snap \notin R

SlotsOK == latest \in 0 .. MaxIds /\ (latest # None => latest \in known)

RInv ==
  /\ StoreOK
  /\ size \in [Ids -> Nat]
  /\ SlotsOK
  /\ current \in 0 .. MaxIds
  /\ recorded \in Nat /\ answered \in Nat
  /\ pc \in [Threads -> Labels]
  /\ loc \in [Threads -> Locals]
  /\ \A t \in Threads : LocalOK(pc[t], loc[t], known, Live)

\* A step of thread t that moves it to `label' with locals l.
Moves(t, label, l) ==
  /\ pc' = [pc EXCEPT ![t] = label]
  /\ loc' = [loc EXCEPT ![t] = l]

LEMMA LocalStep ==
  ASSUME RInv, NEW t \in Threads, NEW label \in Labels, NEW l \in Locals,
         Moves(t, label, l), StoreStep, LocalOK(label, l, known', Live'),
         size' \in [Ids -> Nat], SlotsOK', current' \in 0 .. MaxIds,
         recorded' \in Nat, answered' \in Nat
  PROVE  RInv'
<1>1. /\ StoreOK' /\ known \subseteq known'
      /\ \A id \in known : id \in Live' => id \in Live
  BY StoreGoesOn DEF RInv
<1>2. pc' \in [Threads -> Labels] /\ loc' \in [Threads -> Locals]
  BY DEF RInv, Moves
<1>3. ASSUME NEW u \in Threads PROVE LocalOK(pc'[u], loc'[u], known', Live')
  <2>1. CASE u = t
    BY <2>1 DEF RInv, Moves
  <2>2. CASE u # t
    <3>1. pc'[u] = pc[u] /\ loc'[u] = loc[u] /\ LocalOK(pc[u], loc[u], known, Live)
      BY <2>2 DEF RInv, Moves
    <3> QED BY <1>1, <3>1 DEF LocalOK
  <2> QED BY <2>1, <2>2
<1> QED BY <1>1, <1>2, <1>3 DEF RInv

\* The same for a step that leaves the store and the counters alone.
LEMMA QuietStep ==
  ASSUME RInv, NEW t \in Threads, NEW label \in Labels, NEW l \in Locals,
         Moves(t, label, l), UNCHANGED <<store, slots, recorded, answered>>,
         LocalOK(label, l, known, Live)
  PROVE  RInv'
<1>1. /\ retained' = retained /\ parent' = parent /\ known' = known /\ size' = size
      /\ latest' = latest /\ current' = current /\ recorded' = recorded /\ answered' = answered
  BY DEF store, slots
<1>2. StoreStep
  BY <1>1 DEF StoreStep
<1>3. SlotsOK' /\ LocalOK(label, l, known', Live')
  <2>1. Live' = Live
    BY <1>1, LiveDef DEF Store!Kept
  <2> QED BY <1>1, <2>1 DEF RInv, SlotsOK
<1> QED BY <1>1, <1>2, <1>3, LocalStep DEF RInv

LEMMA LocOf ==
  ASSUME RInv, NEW t \in Threads
  PROVE  /\ pc[t] \in Labels /\ loc[t] \in Locals
         /\ LocalOK(pc[t], loc[t], known, Live)
         /\ known \subseteq Ids /\ Ids \subseteq 0 .. MaxIds
BY DEF RInv, StoreOK, Ids

LEMMA QuietOK ==
  /\ Quiet \in Locals
  /\ \A label, K, R : label # "rollback" => LocalOK(label, Quiet, K, R)
BY DEF Quiet, Locals, Kinds, LocalOK, None, Modes

\* A step that keeps the locals.
LEMMA GotoStep ==
  ASSUME RInv, NEW t \in Threads, NEW label \in Labels, Goto(t, label), loc' = loc,
         UNCHANGED <<store, slots, recorded, answered>>,
         label \in Recorded => pc[t] \in Recorded \/ loc[t].back, label # "rollback"
  PROVE  RInv'
<1>1. loc' = [loc EXCEPT ![t] = loc[t]]
  BY DEF RInv
<1>2. LocalOK(label, loc[t], known, Live)
  BY LocOf DEF LocalOK
<1>3. Moves(t, label, loc[t])
  BY <1>1 DEF Moves, Goto
<1> QED BY <1>2, <1>3, LocOf, QuietStep

LEMMA CallStep ==
  ASSUME RInv, NEW t \in Threads, Call(t)
  PROVE  RInv'
<1>1. ASSUME NEW kind \in {"plain", "traced"}, NEW bytes \in Sizes, ExecuteTool(t, kind, bytes) PROVE RInv'
  <2> DEFINE l == [Quiet EXCEPT !.kind = kind, !.size = bytes]
  <2>1. l \in Locals /\ LocalOK("run", l, known, Live)
    BY QuietOK DEF Locals, Kinds, LocalOK, Recorded, Quiet, None
  <2>2. Moves(t, "run", l) /\ UNCHANGED <<store, slots, recorded, answered>>
    BY <1>1 DEF ExecuteTool, Begin, Set, Goto, Moves
  <2> QED BY <2>1, <2>2, QuietStep DEF Labels
<1>2. ASSUME NEW kind \in {"fork", "manual"}, NEW bytes \in Nat, NEW id \in known, Rollback(t, kind, bytes, id)
      PROVE RInv'
  <2> DEFINE l == [Quiet EXCEPT !.kind = kind, !.size = bytes, !.from = id]
             label == IF Restorable(id) THEN "memory" ELSE "error"
  <2>1. id \in 0 .. MaxIds
    BY LocOf
  <2>2. l \in Locals /\ LocalOK(label, l, known, Live)
    BY <2>1, QuietOK DEF Locals, Kinds, LocalOK, Recorded, Quiet, None
  <2>3. Moves(t, label, l) /\ UNCHANGED <<store, slots, recorded, answered>>
    BY <1>2 DEF Rollback, Begin, Set, Goto, Moves
  <2>4. label \in Labels
    BY DEF Labels
  <2> HIDE DEF l, label
  <2> QED BY <2>2, <2>3, <2>4, QuietStep
<1>3. ASSUME NEW bytes \in Sizes, ManualSnapshot(t, bytes) PROVE RInv'
  <2>1. /\ Store!TakeFull(NewId) /\ size' = [size EXCEPT ![NewId] = bytes]
        /\ UNCHANGED <<slots, cache, tally, pc, loc>>
    BY <1>3 DEF ManualSnapshot
  <2>2. StoreStep
    BY <2>1 DEF StoreStep
  <2>3. Moves(t, pc[t], loc[t])
    BY <2>1 DEF Moves, RInv
  <2>4. /\ known \subseteq known' /\ \A id \in known : id \in Live' => id \in Live
    BY <2>2, StoreGoesOn DEF RInv
  <2>5. LocalOK(pc[t], loc[t], known', Live')
    BY <2>4, LocOf DEF LocalOK
  <2>6. size' \in [Ids -> Nat]
    BY <2>1 DEF RInv
  <2>7. SlotsOK' /\ current' \in 0 .. MaxIds /\ recorded' \in Nat /\ answered' \in Nat
    BY <2>1, <2>4 DEF RInv, SlotsOK, slots, tally
  <2> QED BY <2>2, <2>3, <2>5, <2>6, <2>7, LocOf, LocalStep
<1>4. ASSUME TakeRollbackMemory(t) \/ TakeRollbackState(t) PROVE RInv'
  <2>1. /\ UNCHANGED <<store, slots, recorded, answered>> /\ Moves(t, pc[t], loc[t])
    BY <1>4 DEF TakeRollbackMemory, TakeRollbackState, Moves, RInv, tally
  <2> QED BY <2>1, LocOf, QuietStep
<1> QED BY <1>1, <1>2, <1>3, <1>4 DEF Call, ExecuteToolFromSnapshot, ManualRollback

\* A snapshot is taken: thread t goes on to `label', with its id.
LEMMA CreatedStep ==
  ASSUME RInv, NEW t \in Threads, NEW label \in Labels \ (Recorded \cup {"rollback"}), StoreStep, NewId \in known',
         NewId \in Ids, Created(t, NewId, label)
  PROVE  RInv'
<1> DEFINE l == [loc[t] EXCEPT !.snap = NewId]
<1>1. /\ known \subseteq known' /\ \A id \in known : id \in Live' => id \in Live
  BY StoreGoesOn DEF RInv
<1>2. l \in Locals /\ l.snap = NewId /\ l.base = loc[t].base /\ l.kind = loc[t].kind /\ l.from = loc[t].from
  BY LocOf DEF Locals
<1>3. LocalOK(label, l, known', Live')
  BY <1>1, <1>2, LocOf DEF LocalOK
<1>4. Moves(t, label, l) /\ size' = [size EXCEPT ![NewId] = loc[t].size] /\ UNCHANGED <<slots, tally>>
  BY DEF Created, Set, Goto, Moves
<1>5. size' \in [Ids -> Nat]
  BY <1>4, LocOf DEF RInv, Locals
<1>6. SlotsOK' /\ current' \in 0 .. MaxIds /\ recorded' \in Nat /\ answered' \in Nat
  BY <1>1, <1>4 DEF RInv, SlotsOK, slots, tally
<1> HIDE DEF l
<1> QED BY <1>2, <1>3, <1>4, <1>5, <1>6, LocalStep

LEMMA SlotStep ==
  ASSUME RInv, NEW t \in Threads, SetCurrent(t) \/ SetLatest(t)
  PROVE  RInv'
<1> DEFINE label == IF pc[t] = "current" THEN "latest" ELSE "verdict"
<1>1. /\ Moves(t, label, loc[t]) /\ UNCHANGED <<store, tally>>
      /\ latest' \in {latest, loc[t].snap} /\ current' \in {current, loc[t].snap}
  BY DEF SetCurrent, SetLatest, Moves, Goto, RInv
<1>2. StoreStep /\ known' = known /\ size' = size /\ parent' = parent /\ retained' = retained
  BY <1>1 DEF StoreStep, store
<1>3. Live' = Live
  BY <1>2, LiveDef DEF Store!Kept
<1>4. label \in Labels /\ label \notin Recorded /\ label # "rollback"
  BY DEF Labels, Recorded
<1>5. LocalOK(label, loc[t], known', Live')
  BY <1>2, <1>4, LocOf DEF LocalOK
<1>6. SlotsOK' /\ current' \in 0 .. MaxIds
  <2>1. loc[t].snap \in 0 .. MaxIds /\ (loc[t].snap # None => loc[t].snap \in known)
    BY LocOf DEF LocalOK, Locals
  <2> QED BY <1>1, <1>2, <2>1 DEF RInv, SlotsOK
<1>7. recorded' \in Nat /\ answered' \in Nat
  BY <1>1 DEF tally, RInv
<1> HIDE DEF label
<1> QED BY <1>1, <1>2, <1>4, <1>5, <1>6, <1>7, LocOf, LocalStep DEF RInv

LEMMA StepStep ==
  ASSUME RInv, NEW t \in Threads, Step(t)
  PROVE  RInv'
<1>1. ASSUME CacheMemory(t) PROVE RInv'
  BY <1>1, GotoStep DEF CacheMemory, tally, Labels, Recorded
<1>2. ASSUME CacheState(t) PROVE RInv'
  <2> DEFINE label == AfterRollback(loc[t])
  <2>1. label \in Labels /\ (label \in Recorded => loc[t].back) /\ label # "rollback"
    BY DEF AfterRollback, Labels, Recorded
  <2>2. Goto(t, label) /\ loc' = loc /\ UNCHANGED <<store, slots, recorded, answered>>
    BY <1>2 DEF CacheState, tally
  <2> HIDE DEF label
  <2> QED BY <2>1, <2>2, GotoStep
<1>3. ASSUME Refuse(t) \/ CreateFails(t) PROVE RInv'
  BY <1>3, GotoStep DEF Refuse, CreateFails, tally, Labels, Recorded
<1>4. ASSUME NEW mode \in Modes, Run(t, mode) PROVE RInv'
  <2> DEFINE l == [loc[t] EXCEPT !.mode = mode, !.size = MemorySize(t)]
             label == IF mode \in Captured /\ loc[t].size > 0 THEN "base" ELSE "verdict"
  <2>1. MemorySize(t) \in Nat
    BY LocOf DEF MemorySize, Locals, LocalOK, RInv
  <2>2. /\ l \in Locals /\ l.snap = loc[t].snap /\ l.base = loc[t].base /\ l.kind = loc[t].kind
        /\ l.from = loc[t].from
    BY <2>1, LocOf DEF Locals
  <2>3. label \in Labels /\ label \notin Recorded /\ label # "rollback"
    BY DEF Labels, Recorded
  <2>4. LocalOK(label, l, known, Live)
    BY <2>2, <2>3, LocOf DEF LocalOK
  <2>5. Moves(t, label, l) /\ UNCHANGED <<store, slots, recorded, answered>>
    BY <1>4 DEF Run, Set, Goto, Moves, tally
  <2> HIDE DEF l, label
  <2> QED BY <2>2, <2>3, <2>4, <2>5, QuietStep
<1>5. ASSUME ReadLatest(t) PROVE RInv'
  <2> DEFINE l == [loc[t] EXCEPT !.base = IF Differential THEN latest ELSE None]
  <2>1. l.base \in 0 .. MaxIds /\ (l.base # None => l.base \in known)
    BY LocOf DEF Locals, RInv, SlotsOK, None
  <2>2. l \in Locals /\ l.snap = loc[t].snap /\ l.kind = loc[t].kind /\ l.from = loc[t].from
    BY <2>1, LocOf DEF Locals
  <2>3. LocalOK("create", l, known, Live)
    BY <2>1, <2>2, LocOf DEF LocalOK, Recorded
  <2>4. Moves(t, "create", l) /\ UNCHANGED <<store, slots, recorded, answered>>
    BY <1>5 DEF ReadLatest, Set, Goto, Moves, tally
  <2> HIDE DEF l
  <2> QED BY <2>2, <2>3, <2>4, QuietStep DEF Labels
<1>6. ASSUME CreateFull(t) \/ CreateFullFails(t) PROVE RInv'
  <2>1. StoreStep /\ NewId \in Ids /\ NewId \in known'
    BY <1>6 DEF CreateFull, CreateFullFails, StoreStep, Store!TakeFull
  <2>2. Created(t, NewId, "current") \/ Created(t, NewId, "error")
    BY <1>6 DEF CreateFull, CreateFullFails
  <2> HIDE DEF NewId
  <2> QED BY <2>1, <2>2, CreatedStep DEF Labels, Recorded
<1>7. ASSUME CreateDiff(t) PROVE RInv'
  <2>1. loc[t].base \in known
    BY <1>7, LocOf DEF CreateDiff, NeedsFull, LocalOK
  <2>2. StoreStep /\ NewId \in Ids /\ NewId \in known'
    BY <1>7, <2>1 DEF CreateDiff, StoreStep, Store!TakeDiff
  <2>3. Created(t, NewId, "latest")
    BY <1>7 DEF CreateDiff
  <2> HIDE DEF NewId
  <2> QED BY <2>2, <2>3, CreatedStep DEF Labels, Recorded
<1>8. ASSUME Verdict(t) PROVE RInv'
  <2>1. PICK mode \in {loc[t].mode} \cup (IF loc[t].mode = "success" THEN {"host"} ELSE {}) :
          /\ Set(t, [loc[t] EXCEPT !.mode = mode])
          /\ Goto(t, IF RequiresRollback(mode) /\ loc[t].snap # None THEN "rollback" ELSE "record")
    BY <1>8 DEF Verdict
  <2> DEFINE l == [loc[t] EXCEPT !.mode = mode]
             label == IF RequiresRollback(mode) /\ loc[t].snap # None THEN "rollback" ELSE "record"
  <2>2. mode \in Modes \cup {"none", "host"}
    BY LocOf DEF Locals
  <2>3. /\ l \in Locals /\ l.snap = loc[t].snap /\ l.base = loc[t].base /\ l.kind = loc[t].kind
        /\ l.from = loc[t].from /\ l.mode = mode
    BY <2>2, LocOf DEF Locals
  <2>4. label \in Labels /\ (label \in Recorded => ~(RequiresRollback(mode) /\ loc[t].snap # None))
    BY DEF Labels, Recorded
  <2>5. LocalOK(label, l, known, Live)
    BY <2>3, <2>4, LocOf DEF LocalOK
  <2>6. Moves(t, label, l) /\ UNCHANGED <<store, slots, recorded, answered>>
    BY <1>8, <2>1 DEF Verdict, Set, Goto, Moves, tally
  <2> HIDE DEF l, label
  <2> QED BY <2>3, <2>4, <2>5, <2>6, QuietStep
<1>9. ASSUME RollbackOwn(t) PROVE RInv'
  <2> DEFINE l == [loc[t] EXCEPT !.back = TRUE, !.from = loc[t].snap]
  <2>1. UNCHANGED <<store, slots, recorded, answered>>
    BY <1>9 DEF RollbackOwn, tally
  <2>2. CASE Restorable(loc[t].snap)
    <3>1. /\ l \in Locals /\ l.snap = loc[t].snap /\ l.base = loc[t].base /\ l.kind = loc[t].kind
          /\ l.from = loc[t].snap
      BY LocOf DEF Locals
    <3>2. loc[t].snap # None => loc[t].snap \in known
      BY LocOf DEF LocalOK
    <3>3. loc[t].snap # None
      BY <1>9, LocOf DEF RollbackOwn, LocalOK
    <3>4. LocalOK("memory", l, known, Live)
      BY <3>1, <3>2, <3>3, LocOf DEF LocalOK, Recorded
    <3>5. Moves(t, "memory", l)
      BY <1>9, <2>2 DEF RollbackOwn, Set, Goto, Moves
    <3> HIDE DEF l
    <3> QED BY <2>1, <3>1, <3>4, <3>5, QuietStep DEF Labels
  <2>3. CASE ~Restorable(loc[t].snap)
    <3>1. Moves(t, "record", loc[t])
      BY <1>9, <2>3 DEF RollbackOwn, Goto, Moves, RInv
    <3>2. LocalOK("record", loc[t], known, Live)
      BY <2>3, LocOf DEF LocalOK, Live
    <3> QED BY <2>1, <3>1, <3>2, LocOf, QuietStep DEF Labels
  <2> QED BY <2>2, <2>3
<1>10. ASSUME Record(t) PROVE RInv'
  <2> DEFINE label == IF loc[t].kind = "traced" THEN "trace" ELSE "output"
  <2>1. /\ Moves(t, label, loc[t]) /\ UNCHANGED <<store, slots, answered>> /\ recorded' = recorded + 1
        /\ pc[t] = "record"
    BY <1>10 DEF Record, Moves, Goto, RInv
  <2>2. label \in Labels
    BY DEF Labels
  <2>3. /\ StoreStep /\ known' = known /\ size' = size /\ latest' = latest /\ current' = current
        /\ parent' = parent /\ retained' = retained
    BY <2>1 DEF StoreStep, store, slots
  <2>4. Live' = Live
    <3>1. Store!Kept' = Store!Kept
      BY <2>3 DEF Store!Kept
    <3>2. \A id : id \in Live' <=> id \in Live
      BY <2>3, <3>1, LiveDef
    <3> QED BY <3>2
  <2>5. LocalOK(label, loc[t], known', Live') /\ SlotsOK'
    BY <2>1, <2>3, <2>4, LocOf DEF LocalOK, Recorded, RInv, SlotsOK
  <2> HIDE DEF label
  <2> QED BY <2>1, <2>2, <2>3, <2>5, LocOf, LocalStep DEF RInv
<1>11. ASSUME ReadTrace(t) PROVE RInv'
  <2> DEFINE l == [loc[t] EXCEPT !.trace = current]
  <2>1. /\ l \in Locals /\ l.snap = loc[t].snap /\ l.base = loc[t].base /\ l.kind = loc[t].kind
        /\ l.from = loc[t].from /\ l.mode = loc[t].mode /\ l.back = loc[t].back
    BY LocOf DEF Locals, RInv
  <2>2. Moves(t, "output", l) /\ UNCHANGED <<store, slots, recorded, answered>> /\ pc[t] = "trace"
    BY <1>11 DEF ReadTrace, Set, Goto, Moves, tally
  <2>3. LocalOK("output", l, known, Live)
    BY <2>1, <2>2, LocOf DEF LocalOK, Recorded
  <2> HIDE DEF l
  <2> QED BY <2>1, <2>2, <2>3, QuietStep DEF Labels
<1>12. ASSUME Output(t) PROVE RInv'
  <2>1. /\ Moves(t, "idle", Quiet) /\ UNCHANGED <<store, slots, recorded>> /\ answered' = answered + 1
    BY <1>12 DEF Output, Moves, Goto, Set
  <2>2. StoreStep /\ known' = known /\ size' = size /\ latest' = latest /\ current' = current
    BY <2>1 DEF StoreStep, store, slots
  <2>3. SlotsOK'
    BY <2>2 DEF RInv, SlotsOK
  <2> QED BY <2>1, <2>2, <2>3, QuietOK, LocalStep DEF RInv, Labels
<1>13. ASSUME Return(t) PROVE RInv'
  <2>1. /\ Moves(t, "idle", Quiet) /\ UNCHANGED <<store, slots, recorded, answered>>
    BY <1>13 DEF Return, Moves, Goto, Set, tally
  <2> QED BY <2>1, QuietOK, QuietStep DEF Labels
<1> QED BY <1>1, <1>2, <1>3, <1>4, <1>5, <1>6, <1>7, <1>8, <1>9, <1>10, <1>11, <1>12, <1>13, SlotStep
        DEF Step

LEMMA InitRInv == Init => RInv
<1> SUFFICES ASSUME Init PROVE RInv
  OBVIOUS
<1>1. StoreOK
  BY DEF Init, Store!Init, StoreOK
<1>2. /\ pc \in [Threads -> Labels] /\ loc \in [Threads -> Locals]
      /\ \A t \in Threads : LocalOK(pc[t], loc[t], known, Live)
  BY QuietOK DEF Init, Labels
<1> QED BY <1>1, <1>2 DEF Init, RInv, SlotsOK, None

LEMMA NextRInv == RInv /\ [Next]_vars => RInv'
<1> SUFFICES ASSUME RInv, [Next]_vars PROVE RInv'
  OBVIOUS
<1>1. CASE UNCHANGED vars
  <2>1. /\ retained' = retained /\ parent' = parent /\ known' = known /\ size' = size
        /\ latest' = latest /\ current' = current /\ recorded' = recorded /\ answered' = answered
        /\ pc' = pc /\ loc' = loc
    BY <1>1 DEF vars, store, slots, tally
  <2>2. Live' = Live
    BY <2>1, LiveDef DEF Store!Kept
  <2> QED BY <2>1, <2>2 DEF RInv, StoreOK, SlotsOK, Ids
<1>2. CASE Next
  BY <1>2, CallStep, StepStep DEF Next
<1> QED BY <1>1, <1>2

\* A failed execution that had a snapshot and reports no rollback could not
\* be rolled back later either, however many executions run at once and
\* whatever the capacity of the ring: rollback_runtime_snapshot is refused
\* only for a chain whose full snapshot is gone, and no later capture,
\* promotion or diff brings it back.
THEOREM UnrestoredAlwaysLost == Spec => []UnrestoredIsLost
<1>1. RInv => UnrestoredIsLost
  BY DEF RInv, UnrestoredIsLost, LocalOK, Live, Recorded
<1> QED BY <1>1, InitRInv, NextRInv, PTL DEF Spec

-----------------------------------------------------------------------------
(***************************************************************************)
(* Part 1: the telemetry.                                                  *)
(***************************************************************************)
Counted(labels) == {t \in Threads : labels[t] \in {"trace", "output"}}

TelemetryInv == RInv /\ TelemetryExact

\* One thread moves: the count changes with it.
LEMMA CountedStep ==
  ASSUME RInv, NEW t \in Threads, NEW label, pc' = [pc EXCEPT ![t] = label]
  PROVE  /\ IsFiniteSet(Counted(pc)) /\ Cardinality(Counted(pc)) \in Nat
         /\ (label \in {"trace", "output"} <=> pc[t] \in {"trace", "output"}) =>
              Counted(pc') = Counted(pc)
         /\ label \in {"trace", "output"} /\ pc[t] \notin {"trace", "output"} =>
              Cardinality(Counted(pc')) = Cardinality(Counted(pc)) + 1
         /\ label \notin {"trace", "output"} /\ pc[t] \in {"trace", "output"} =>
              Cardinality(Counted(pc')) = Cardinality(Counted(pc)) - 1
<1>1. IsFiniteSet(Counted(pc)) /\ Cardinality(Counted(pc)) \in Nat
  <2>1. Counted(pc) \subseteq Threads
    BY DEF Counted
  <2> QED BY <2>1, FS_Subset, FS_CardinalityType
<1>2. \A u \in Threads : pc'[u] = IF u = t THEN label ELSE pc[u]
  BY DEF RInv
<1>3. ASSUME label \in {"trace", "output"}, pc[t] \notin {"trace", "output"}
      PROVE  Cardinality(Counted(pc')) = Cardinality(Counted(pc)) + 1
  <2>1. Counted(pc') = Counted(pc) \cup {t} /\ t \notin Counted(pc)
    BY <1>2, <1>3 DEF Counted
  <2> QED BY <1>1, <2>1, FS_AddElement
<1>4. ASSUME label \notin {"trace", "output"}, pc[t] \in {"trace", "output"}
      PROVE  Cardinality(Counted(pc')) = Cardinality(Counted(pc)) - 1
  <2>1. Counted(pc') = Counted(pc) \ {t} /\ t \in Counted(pc)
    BY <1>2, <1>4 DEF Counted
  <2> QED BY <1>1, <2>1, FS_RemoveElement
<1>5. (label \in {"trace", "output"} <=> pc[t] \in {"trace", "output"}) => Counted(pc') = Counted(pc)
  BY <1>2 DEF Counted
<1> QED BY <1>1, <1>3, <1>4, <1>5

LEMMA TelemetryStep == TelemetryInv /\ [Next]_vars => TelemetryInv'
<1> SUFFICES ASSUME TelemetryInv, [Next]_vars PROVE TelemetryInv'
  OBVIOUS
<1>1. RInv /\ RInv' /\ recorded = answered + Cardinality(Counted(pc))
  BY NextRInv DEF TelemetryInv, TelemetryExact, Counted
<1>2. SUFFICES recorded' = answered' + Cardinality(Counted(pc'))
  BY <1>1 DEF TelemetryInv, TelemetryExact, Counted
<1>3. CASE UNCHANGED <<recorded, answered, pc>>
  BY <1>1, <1>3
<1>4. ASSUME NEW t \in Threads, NEW label, Goto(t, label), UNCHANGED <<recorded, answered>>,
             label \in {"trace", "output"} <=> pc[t] \in {"trace", "output"}
      PROVE  recorded' = answered' + Cardinality(Counted(pc'))
  BY <1>1, <1>4, CountedStep DEF Goto
<1>5. ASSUME NEW t \in Threads, Record(t)
      PROVE  recorded' = answered' + Cardinality(Counted(pc'))
  <2>1. PICK label \in {"trace", "output"} : pc' = [pc EXCEPT ![t] = label]
    BY <1>5 DEF Record, Goto
  <2>2. pc[t] = "record" /\ recorded' = recorded + 1 /\ answered' = answered
    BY <1>5 DEF Record
  <2>3. Cardinality(Counted(pc')) = Cardinality(Counted(pc)) + 1 /\ Cardinality(Counted(pc)) \in Nat
    BY <1>1, <2>1, <2>2, CountedStep
  <2> QED BY <1>1, <2>2, <2>3 DEF RInv
<1>6. ASSUME NEW t \in Threads, Output(t)
      PROVE  recorded' = answered' + Cardinality(Counted(pc'))
  <2>1. pc[t] = "output" /\ recorded' = recorded /\ answered' = answered + 1
    BY <1>6 DEF Output
  <2>3. PICK label : label \notin {"trace", "output"} /\ pc' = [pc EXCEPT ![t] = label]
    BY <1>6 DEF Output, Goto
  <2>2. Cardinality(Counted(pc')) = Cardinality(Counted(pc)) - 1 /\ Cardinality(Counted(pc)) \in Nat
    BY <1>1, <2>1, <2>3, CountedStep
  <2> QED BY <1>1, <2>1, <2>2 DEF RInv
<1>7. ASSUME NEW t \in Threads, Call(t)
      PROVE  recorded' = answered' + Cardinality(Counted(pc'))
  <2>1. UNCHANGED <<recorded, answered>>
    BY <1>7 DEF Call, ExecuteTool, ExecuteToolFromSnapshot, ManualRollback, Rollback, Begin,
                ManualSnapshot, TakeRollbackMemory, TakeRollbackState, tally
  <2>2. CASE pc' = pc
    BY <1>3, <2>1, <2>2
  <2>3. CASE pc' # pc
    <3>1. PICK label \in {"run", "memory", "error"} : Goto(t, label)
      BY <1>7, <2>3 DEF Call, ExecuteTool, ExecuteToolFromSnapshot, ManualRollback, Rollback,
                ManualSnapshot, TakeRollbackMemory, TakeRollbackState
    <3>2. pc[t] = "idle"
      BY <1>7, <2>3 DEF Call, ExecuteTool, ExecuteToolFromSnapshot, ManualRollback, Rollback, Begin,
                ManualSnapshot, TakeRollbackMemory, TakeRollbackState
    <3> QED BY <1>4, <2>1, <3>1, <3>2
  <2> QED BY <2>2, <2>3
<1>8. ASSUME NEW t \in Threads, Step(t), ~Record(t), ~Output(t)
      PROVE  recorded' = answered' + Cardinality(Counted(pc'))
  <2>1. UNCHANGED <<recorded, answered>>
    BY <1>8 DEF Step, CacheMemory, CacheState, Refuse, Run, ReadLatest, CreateFull, CreateFullFails,
                CreateDiff, Created, CreateFails, SetCurrent, SetLatest, Verdict, RollbackOwn,
                ReadTrace, Return, tally
  <2>2. CASE ReadTrace(t)
    <3>1. Goto(t, "output") /\ pc[t] = "trace"
      BY <2>2 DEF ReadTrace
    <3> QED BY <1>4, <2>1, <3>1
  <2>3. CASE ~ReadTrace(t)
    <3>1. pc[t] \notin {"trace", "output"}
      BY <1>8, <2>3 DEF Step, CacheMemory, CacheState, Refuse, Run, ReadLatest, CreateFull,
                CreateFullFails, CreateDiff, CreateFails, SetCurrent, SetLatest, Verdict,
                RollbackOwn, Return
    <3>2. \E label : label \notin {"trace", "output"} /\ Goto(t, label)
      <4>1. CASE CacheState(t)
        <5> DEFINE label == AfterRollback(loc[t])
        <5>1. label \notin {"trace", "output"} /\ Goto(t, label)
          BY <4>1 DEF CacheState, AfterRollback
        <5> QED BY <5>1
      <4>2. CASE Verdict(t)
        BY <4>2 DEF Verdict
      <4>3. CASE RollbackOwn(t)
        BY <4>3 DEF RollbackOwn
      <4>4. CASE \E mode \in Modes : Run(t, mode)
        BY <4>4 DEF Run
      <4>5. CASE CreateFull(t) \/ CreateFullFails(t) \/ CreateDiff(t)
        BY <4>5 DEF CreateFull, CreateFullFails, CreateDiff, Created
      <4>6. CASE \/ CacheMemory(t) \/ Refuse(t) \/ ReadLatest(t) \/ CreateFails(t)
                 \/ SetCurrent(t) \/ SetLatest(t) \/ Return(t)
        BY <4>6 DEF CacheMemory, Refuse, ReadLatest, CreateFails, SetCurrent, SetLatest, Return
      <4> QED BY <1>8, <2>3, <4>1, <4>2, <4>3, <4>4, <4>5, <4>6 DEF Step
    <3> QED BY <1>4, <2>1, <3>1, <3>2
  <2> QED BY <2>2, <2>3
<1>9. CASE UNCHANGED vars
  BY <1>3, <1>9 DEF vars, tally
<1> QED BY <1>5, <1>6, <1>7, <1>8, <1>9 DEF Next

\* The telemetry has exactly one record for every execution that produced an
\* output, for any number of concurrent executions: record_success and
\* record_failure run once per ToolOutput and never for a call that returns
\* an error.
THEOREM TelemetryAlwaysExact == Spec => []TelemetryExact
<1>1. Init => TelemetryInv
  <2> SUFFICES ASSUME Init PROVE TelemetryExact
    BY InitRInv DEF TelemetryInv
  <2>1. {t \in Threads : pc[t] \in {"trace", "output"}} = {}
    BY DEF Init
  <2> QED BY <2>1, FS_EmptySet DEF Init, TelemetryExact
<1>2. TelemetryInv => TelemetryExact
  BY DEF TelemetryInv
<1> QED BY <1>1, <1>2, TelemetryStep, PTL DEF Spec

-----------------------------------------------------------------------------
(***************************************************************************)
(* Part 3: one caller at a time.                                           *)
(***************************************************************************)
LEMMA SameCardinality == \A S : Store!Cardinality(S) = Cardinality(S)
BY DEF Store!Cardinality, Cardinality

\* A diff on a base that can be restored, and whose chain is not too deep,
\* can be restored, and has the chain of its base below it: the chain of the
\* base has ended one step early.
LEMMA DiffIsLive ==
  ASSUME StoreOK, NEW base \in known, NEW id, id = NewId, Store!TakeDiff(id, base),
         Store!Depth(base, MaxDiffDepth) + 1 <= MaxDiffDepth
  PROVE  /\ Store!Below(id, MaxDiffDepth)' = {id} \cup Store!Below(base, MaxDiffDepth)
         /\ base \in Live => id \in Live'
<1> DEFINE N == MaxDiffDepth
           B == Chain(parent, base, N)
<1>0. Store!Depth(base, N) = Cardinality(B[N]) - 1
  BY BelowIsChain, SameCardinality DEF Store!Depth
<1>2. Cardinality(B[N]) \in Nat \ {0}
  BY ChainEnds
<1>1. Cardinality(B[N]) <= N
  BY <1>0, <1>2
<1>3. N # 0 /\ B[N - 1] = B[N]
  BY <1>1, <1>2, ChainEnds
<1>4. /\ known' = known \cup {id} /\ id \notin known /\ retained' = retained
      /\ parent' = [d \in DOMAIN parent \cup {id} |-> IF d = id THEN base ELSE parent[d]]
  BY DEF Store!TakeDiff
<1>6. N - 1 \in 0 .. N /\ N - 1 # N /\ (N - 1) + 1 = N
  BY <1>3
<1>7. Chain(parent', base, N)[N - 1] = B[N - 1]
  <2>1. StoreStep
    BY DEF StoreStep
  <2> QED BY <1>6, <2>1, StoreGoesOn
<1>8. id \in DOMAIN parent' /\ parent'[id] = base
  BY <1>4
<1>9. Chain(parent', id, N)[(N - 1) + 1] = {id} \cup Chain(parent', base, N)[N - 1]
  BY <1>6, <1>8, ChainOfDiff
<1>10. Chain(parent', id, N)[N] = {id} \cup B[N]
  BY <1>3, <1>6, <1>7, <1>9
<1>11. Store!Below(id, N)' = {id} \cup Store!Below(base, N)
  BY <1>10, BelowIsChain, BelowIsChainNext
<1>12. base \in Live => id \in Live'
  <2>1. Store!Kept' = Store!Kept
    BY <1>4 DEF Store!Kept
  <2>2. base \in Live => B[N] \cap Store!Kept # {}
    BY LiveDef
  <2>3. base \in Live => Chain(parent', id, N)[N] \cap Store!Kept' # {}
    BY <1>10, <2>1, <2>2
  <2>4. id \in known'
    BY <1>4
  <2> QED BY <2>3, <2>4, LiveDef
<1> QED BY <1>11, <1>12

LEMMA FullIsLive ==
  ASSUME StoreOK, NEW id, Store!TakeFull(id)
  PROVE  id \in Live'
<1>1. id \in Store!Kept' /\ id \in known'
  BY KeptStep DEF Store!TakeFull
<1>2. id \in Chain(parent', id, MaxDiffDepth)[MaxDiffDepth]
  BY ChainHasTop
<1> QED BY <1>1, <1>2, LiveDef

\* The only caller, at `label' with locals l.
SoloOK(label, l, R, memory, state) ==
  /\ \/ label \in {"run", "base", "create"}
     \/ label \in {"memory", "state"} /\ ~l.back
     => l.snap = None
  /\ label \in {"current", "latest", "verdict", "rollback"} /\ l.snap # None => l.snap \in R
  /\ label \in Recorded /\ RequiresRollback(l.mode) => l.snap = None \/ l.back
  /\ label = "state" => memory = l.from
  /\ label # "state" /\ memory # None /\ state # None => memory = state

SoloInv == RInv /\ \A t \in Threads : SoloOK(pc[t], loc[t], Live, rbMemory, rbState)

LEMMA SoloMoves ==
  ASSUME Solo, SoloInv, RInv', NEW t \in Threads, NEW label, NEW l, Moves(t, label, l),
         SoloOK(label, l, Live', rbMemory', rbState')
  PROVE  SoloInv'
<1>1. \A u \in Threads : u = t /\ pc'[u] = label /\ loc'[u] = l
  BY DEF Solo, SoloInv, RInv, Moves
<1> QED BY <1>1 DEF SoloInv

LEMMA SameStoreSameLive ==
  ASSUME UNCHANGED store PROVE Live' = Live
BY LiveDef DEF store, Store!Kept

LEMMA SoloStep ==
  ASSUME Solo, SoloInv, [Next]_vars
  PROVE  SoloInv'
<1>1. RInv /\ RInv'
  BY NextRInv DEF SoloInv
<1>2. CASE UNCHANGED vars
  <2>1. Live' = Live /\ pc' = pc /\ loc' = loc /\ rbMemory' = rbMemory /\ rbState' = rbState
    BY <1>2, SameStoreSameLive DEF vars, cache
  <2> QED BY <1>1, <2>1 DEF SoloInv
<1>3. SUFFICES ASSUME NEW t \in Threads, Call(t) \/ Step(t) PROVE SoloInv'
  BY <1>2 DEF Next
<1>4. /\ SoloOK(pc[t], loc[t], Live, rbMemory, rbState) /\ loc[t] \in Locals
      /\ pc \in [Threads -> Labels] /\ loc \in [Threads -> Locals]
  BY LocOf DEF SoloInv, RInv
\* calls
<1>5. ASSUME NEW kind \in {"plain", "traced"}, NEW bytes \in Sizes, ExecuteTool(t, kind, bytes) PROVE SoloInv'
  <2> DEFINE l == [Quiet EXCEPT !.kind = kind, !.size = bytes]
  <2>1. Moves(t, "run", l) /\ UNCHANGED cache /\ pc[t] = "idle"
    BY <1>5 DEF ExecuteTool, Begin, Set, Goto, Moves
  <2>2. l.snap = None
    BY DEF Quiet
  <2> HIDE DEF l
  <2>3. SoloOK("run", l, Live', rbMemory', rbState')
    BY <1>4, <2>1, <2>2 DEF SoloOK, Recorded, cache
  <2> QED BY <1>1, <2>1, <2>3, SoloMoves
<1>6. ASSUME NEW kind, NEW bytes, NEW id, Rollback(t, kind, bytes, id) PROVE SoloInv'
  <2> DEFINE l == [Quiet EXCEPT !.kind = kind, !.size = bytes, !.from = id]
             label == IF Restorable(id) THEN "memory" ELSE "error"
  <2>1. Moves(t, label, l) /\ UNCHANGED cache /\ pc[t] = "idle"
    BY <1>6 DEF Rollback, Begin, Set, Goto, Moves
  <2>2. l.snap = None /\ label \in {"memory", "error"}
    BY DEF Quiet
  <2> HIDE DEF l, label
  <2>3. SoloOK(label, l, Live', rbMemory', rbState')
    BY <1>4, <2>1, <2>2 DEF SoloOK, Recorded, cache
  <2> QED BY <1>1, <2>1, <2>3, SoloMoves
<1>7. ASSUME (\E bytes \in Sizes : ManualSnapshot(t, bytes)) \/ TakeRollbackMemory(t) \/ TakeRollbackState(t)
      PROVE SoloInv'
  <2>1. Moves(t, pc[t], loc[t])
    BY <1>4, <1>7 DEF ManualSnapshot, TakeRollbackMemory, TakeRollbackState, Moves
  <2>2. pc[t] = "idle" /\ rbMemory' \in {rbMemory, None} /\ rbState' \in {rbState, None}
    BY <1>7 DEF ManualSnapshot, TakeRollbackMemory, TakeRollbackState, cache
  <2>3. SoloOK(pc[t], loc[t], Live', rbMemory', rbState')
    BY <1>4, <2>2 DEF SoloOK, Recorded
  <2> QED BY <1>1, <2>1, <2>3, SoloMoves
\* steps
<1>8. ASSUME CacheMemory(t) PROVE SoloInv'
  <2>1. Moves(t, "state", loc[t]) /\ rbMemory' = loc[t].from /\ pc[t] = "memory"
    BY <1>4, <1>8 DEF CacheMemory, Goto, Moves
  <2>2. SoloOK("state", loc[t], Live', rbMemory', rbState')
    BY <1>4, <2>1 DEF SoloOK, Recorded
  <2> QED BY <1>1, <2>1, <2>2, SoloMoves
<1>9. ASSUME CacheState(t) PROVE SoloInv'
  <2> DEFINE label == AfterRollback(loc[t])
  <2>1. Moves(t, label, loc[t]) /\ rbState' = loc[t].from /\ rbMemory' = rbMemory /\ pc[t] = "state"
    BY <1>4, <1>9 DEF CacheState, Goto, Moves
  <2>2. label \in {"record", "run", "return"} /\ (label = "record" <=> loc[t].back)
    BY DEF AfterRollback
  <2> HIDE DEF label
  <2>3. SoloOK(label, loc[t], Live', rbMemory', rbState')
    BY <1>4, <2>1, <2>2 DEF SoloOK, Recorded
  <2> QED BY <1>1, <2>1, <2>3, SoloMoves
<1>10. ASSUME Refuse(t) \/ CreateFails(t) PROVE SoloInv'
  <2>1. Moves(t, "error", loc[t]) /\ UNCHANGED cache /\ pc[t] # "state"
    BY <1>4, <1>10 DEF Refuse, CreateFails, Goto, Moves
  <2>2. SoloOK("error", loc[t], Live', rbMemory', rbState')
    BY <1>4, <2>1 DEF SoloOK, Recorded, cache
  <2> QED BY <1>1, <2>1, <2>2, SoloMoves
<1>11. ASSUME NEW mode \in Modes, Run(t, mode) PROVE SoloInv'
  <2> DEFINE l == [loc[t] EXCEPT !.mode = mode, !.size = MemorySize(t)]
             label == IF mode \in Captured /\ loc[t].size > 0 THEN "base" ELSE "verdict"
  <2>1. Moves(t, label, l) /\ UNCHANGED cache /\ pc[t] = "run"
    BY <1>11 DEF Run, Set, Goto, Moves
  <2>2. l.snap = loc[t].snap /\ label \in {"base", "verdict"}
    BY <1>4 DEF Locals
  <2> HIDE DEF l, label
  <2>3. SoloOK(label, l, Live', rbMemory', rbState')
    BY <1>4, <2>1, <2>2 DEF SoloOK, Recorded, cache
  <2> QED BY <1>1, <2>1, <2>3, SoloMoves
<1>12. ASSUME ReadLatest(t) PROVE SoloInv'
  <2> DEFINE l == [loc[t] EXCEPT !.base = IF Differential THEN latest ELSE None]
  <2>1. Moves(t, "create", l) /\ UNCHANGED cache /\ pc[t] = "base"
    BY <1>12 DEF ReadLatest, Set, Goto, Moves
  <2>2. l.snap = loc[t].snap
    BY <1>4 DEF Locals
  <2> HIDE DEF l
  <2>3. SoloOK("create", l, Live', rbMemory', rbState')
    BY <1>4, <2>1, <2>2 DEF SoloOK, Recorded, cache
  <2> QED BY <1>1, <2>1, <2>3, SoloMoves
<1>13. ASSUME CreateFull(t) \/ CreateFullFails(t) \/ CreateDiff(t) PROVE SoloInv'
  <2>1. NewId \in Live'
    <3>1. CASE Store!TakeFull(NewId)
      BY <1>1, <3>1, FullIsLive DEF RInv
    <3>2. CASE CreateDiff(t)
      <4>1. loc[t].base \in known
        BY <1>1, <3>2, LocOf DEF CreateDiff, NeedsFull, LocalOK
      <4>2. loc[t].base \in Live
        BY <3>2, <4>1 DEF CreateDiff, CanDiff, Live
      <4>3. Store!Depth(loc[t].base, MaxDiffDepth) + 1 <= MaxDiffDepth
        <5>1. Store!Depth(loc[t].base, MaxDiffDepth) \in Int
          <6>1. Store!Depth(loc[t].base, MaxDiffDepth)
                  = Cardinality(Chain(parent, loc[t].base, MaxDiffDepth)[MaxDiffDepth]) - 1
            BY BelowIsChain, SameCardinality DEF Store!Depth
          <6>2. Cardinality(Chain(parent, loc[t].base, MaxDiffDepth)[MaxDiffDepth]) \in Nat
            BY ChainEnds
          <6> QED BY <6>1, <6>2
        <5>2. ~(Store!Depth(loc[t].base, MaxDiffDepth) + 1 > MaxDiffDepth)
          BY <3>2 DEF CreateDiff, NeedsFull
        <5> QED BY <5>1, <5>2
      <4>4. Store!TakeDiff(NewId, loc[t].base)
        BY <3>2 DEF CreateDiff
      <4> HIDE DEF NewId
      <4> QED BY <1>1, <4>1, <4>2, <4>3, <4>4, DiffIsLive DEF RInv
    <3> QED BY <1>13, <3>1, <3>2 DEF CreateFull, CreateFullFails
  <2> DEFINE l == [loc[t] EXCEPT !.snap = NewId]
  <2>2. PICK label \in {"current", "error", "latest"} : Created(t, NewId, label) /\ pc[t] = "create"
    BY <1>13 DEF CreateFull, CreateFullFails, CreateDiff
  <2>3. Moves(t, label, l) /\ UNCHANGED cache
    BY <2>2 DEF Created, Set, Goto, Moves
  <2>4. l.snap = NewId
    BY <1>4 DEF Locals
  <2> HIDE DEF l, NewId
  <2>5. SoloOK(label, l, Live', rbMemory', rbState')
    BY <1>4, <2>1, <2>2, <2>3, <2>4 DEF SoloOK, Recorded, cache
  <2> QED BY <1>1, <2>3, <2>5, SoloMoves
<1>14. ASSUME SetCurrent(t) \/ SetLatest(t) PROVE SoloInv'
  <2>1. PICK label \in {"latest", "verdict"} : Moves(t, label, loc[t])
    BY <1>4, <1>14 DEF SetCurrent, SetLatest, Goto, Moves
  <2>2. UNCHANGED <<store, cache>> /\ pc[t] \in {"current", "latest"}
    BY <1>14 DEF SetCurrent, SetLatest
  <2>3. SoloOK(label, loc[t], Live', rbMemory', rbState')
    BY <1>4, <2>2, SameStoreSameLive DEF SoloOK, Recorded, cache
  <2> QED BY <1>1, <2>1, <2>3, SoloMoves
<1>15. ASSUME Verdict(t) PROVE SoloInv'
  <2>1. PICK mode \in {loc[t].mode} \cup (IF loc[t].mode = "success" THEN {"host"} ELSE {}) :
          /\ Set(t, [loc[t] EXCEPT !.mode = mode])
          /\ Goto(t, IF RequiresRollback(mode) /\ loc[t].snap # None THEN "rollback" ELSE "record")
    BY <1>15 DEF Verdict
  <2> DEFINE l == [loc[t] EXCEPT !.mode = mode]
             label == IF RequiresRollback(mode) /\ loc[t].snap # None THEN "rollback" ELSE "record"
  <2>2. Moves(t, label, l) /\ UNCHANGED <<store, cache>> /\ pc[t] = "verdict"
    BY <1>15, <2>1 DEF Verdict, Set, Goto, Moves
  <2>3. /\ l.snap = loc[t].snap /\ l.mode = mode /\ label \in {"rollback", "record"}
        /\ (label = "record" => ~RequiresRollback(mode) \/ loc[t].snap = None)
    BY <1>4 DEF Locals
  <2> HIDE DEF l, label
  <2>4. SoloOK(label, l, Live', rbMemory', rbState')
    BY <1>4, <2>2, <2>3, SameStoreSameLive DEF SoloOK, Recorded, cache
  <2> QED BY <1>1, <2>2, <2>4, SoloMoves
<1>16. ASSUME RollbackOwn(t) PROVE SoloInv'
  <2>1. UNCHANGED <<store, cache>> /\ pc[t] = "rollback"
    BY <1>16 DEF RollbackOwn
  <2>2. loc[t].snap \in Live
    BY <1>1, <1>4, <2>1, LocOf DEF SoloOK, LocalOK
  <2> DEFINE l == [loc[t] EXCEPT !.back = TRUE, !.from = loc[t].snap]
  <2>3. Moves(t, "memory", l)
    BY <1>16, <2>2 DEF RollbackOwn, Set, Goto, Moves, Live
  <2>4. l.back /\ l.snap = loc[t].snap
    BY <1>4 DEF Locals
  <2> HIDE DEF l
  <2>5. SoloOK("memory", l, Live', rbMemory', rbState')
    BY <1>4, <2>1, <2>4 DEF SoloOK, Recorded, cache
  <2> QED BY <1>1, <2>3, <2>5, SoloMoves
<1>17. ASSUME Record(t) PROVE SoloInv'
  <2>1. PICK label \in {"trace", "output"} : Moves(t, label, loc[t])
    BY <1>4, <1>17 DEF Record, Goto, Moves
  <2>2. UNCHANGED cache /\ pc[t] = "record"
    BY <1>17 DEF Record
  <2>3. SoloOK(label, loc[t], Live', rbMemory', rbState')
    BY <1>4, <2>2 DEF SoloOK, Recorded, cache
  <2> QED BY <1>1, <2>1, <2>3, SoloMoves
<1>18. ASSUME ReadTrace(t) PROVE SoloInv'
  <2> DEFINE l == [loc[t] EXCEPT !.trace = current]
  <2>1. Moves(t, "output", l) /\ UNCHANGED cache /\ pc[t] = "trace"
    BY <1>18 DEF ReadTrace, Set, Goto, Moves
  <2>2. l.snap = loc[t].snap /\ l.mode = loc[t].mode /\ l.back = loc[t].back
    BY <1>4 DEF Locals
  <2> HIDE DEF l
  <2>3. SoloOK("output", l, Live', rbMemory', rbState')
    BY <1>4, <2>1, <2>2 DEF SoloOK, Recorded, cache
  <2> QED BY <1>1, <2>1, <2>3, SoloMoves
<1>19. ASSUME Output(t) \/ Return(t) PROVE SoloInv'
  <2>1. Moves(t, "idle", Quiet) /\ UNCHANGED cache /\ pc[t] # "state"
    BY <1>19 DEF Output, Return, Set, Goto, Moves
  <2>2. SoloOK("idle", Quiet, Live', rbMemory', rbState')
    BY <1>4, <2>1 DEF SoloOK, Recorded, cache
  <2> QED BY <1>1, <2>1, <2>2, SoloMoves
<1>20. CASE Call(t)
  BY <1>5, <1>6, <1>7, <1>20 DEF Call, ExecuteToolFromSnapshot, ManualRollback
<1>21. CASE Step(t)
  BY <1>8, <1>9, <1>10, <1>11, <1>12, <1>13, <1>14, <1>15, <1>16, <1>17, <1>18, <1>19, <1>21 DEF Step
<1> QED BY <1>3, <1>20, <1>21

LEMMA InitSolo == Init => SoloInv
<1> SUFFICES ASSUME Init, NEW t \in Threads PROVE SoloOK(pc[t], loc[t], Live, rbMemory, rbState)
  BY InitRInv DEF SoloInv
<1>1. pc[t] = "idle" /\ rbMemory = None
  BY DEF Init
<1> QED BY <1>1 DEF SoloOK, Recorded

\* Executions one at a time: a run that fails after its memory was captured is
\* always rolled back to the snapshot that it has just taken, whatever the
\* capacity, the depth of the chains and the snapshots that callers take or
\* fail to write in between.
THEOREM SoloRollbackNeverRefused ==
  ASSUME Solo
  PROVE  Spec => []RollbackNeverRefused
<1>1. SoloInv => RollbackNeverRefused
  BY DEF SoloInv, SoloOK, RollbackNeverRefused, Recorded
<1>2. SoloInv /\ [Next]_vars => SoloInv'
  BY SoloStep
<1> QED BY <1>1, <1>2, InitSolo, PTL DEF Spec

\* Executions one at a time: cache_rollback_result writes its two slots from
\* one rollback, and whichever is taken first, a pair that is there matches.
THEOREM SoloRollbackPairMatches ==
  ASSUME Solo
  PROVE  Spec => []RollbackPairMatches
<1>1. SoloInv => RollbackPairMatches
  BY DEF Solo, SoloInv, SoloOK, RollbackPairMatches
<1>2. SoloInv /\ [Next]_vars => SoloInv'
  BY SoloStep
<1> QED BY <1>1, <1>2, InitSolo, PTL DEF Spec

\* The chain below a snapshot, for the parents p.
Under(p, id) == Chain(p, id, MaxDiffDepth)[MaxDiffDepth]

\* The only caller, when the ring keeps K and the diffs have the parents p.
RootOK(label, l, K, p, last, root) ==
  /\ label = "create" => l.base \in {None, last}
  /\ label = "current" => l.snap \in K
  /\ label = "latest" => root \in Under(p, l.snap) /\ root \in K
  /\ label \notin {"current", "latest"} /\ last # None => root \in Under(p, last) /\ root \in K

RootInv == RInv /\ \A t \in Threads : RootOK(pc[t], loc[t], Store!Kept, parent, latest, current)

LEMMA RootMoves ==
  ASSUME Solo, RootInv, RInv', NEW t \in Threads, NEW label, NEW l, Moves(t, label, l),
         RootOK(label, l, Store!Kept', parent', latest', current')
  PROVE  RootInv'
<1>1. \A u \in Threads : u = t /\ pc'[u] = label /\ loc'[u] = l
  BY DEF Solo, RootInv, RInv, Moves
<1> QED BY <1>1 DEF RootInv

\* A step that takes no snapshot and writes neither slot.
LEMMA RootStays ==
  ASSUME Solo, RootInv, RInv', NEW t \in Threads, pc[t] \notin {"current", "latest"},
         UNCHANGED <<store, slots>>, NEW label, label \notin {"create", "current", "latest"},
         NEW l, Moves(t, label, l)
  PROVE  RootInv'
<1>1. RootOK(pc[t], loc[t], Store!Kept, parent, latest, current)
  BY DEF RootInv
<1>2. Store!Kept' = Store!Kept /\ parent' = parent /\ latest' = latest /\ current' = current
  BY DEF store, slots, Store!Kept
<1>3. RootOK(label, l, Store!Kept', parent', latest', current')
  BY <1>1, <1>2 DEF RootOK
<1> QED BY <1>3, RootMoves

LEMMA RootStep ==
  ASSUME Solo, ~Manual, ~Persist, RootInv, [Next]_vars
  PROVE  RootInv'
<1>1. RInv /\ RInv'
  BY NextRInv DEF RootInv
<1>2. CASE UNCHANGED vars
  <2>1. /\ Store!Kept' = Store!Kept /\ parent' = parent /\ latest' = latest /\ current' = current
        /\ pc' = pc /\ loc' = loc
    BY <1>2 DEF vars, store, slots, Store!Kept
  <2> QED BY <1>1, <2>1 DEF RootInv
<1>3. SUFFICES ASSUME NEW t \in Threads, Call(t) \/ Step(t) PROVE RootInv'
  BY <1>2 DEF Next
<1>4. /\ RootOK(pc[t], loc[t], Store!Kept, parent, latest, current) /\ loc[t] \in Locals
      /\ pc \in [Threads -> Labels] /\ loc \in [Threads -> Locals]
  BY LocOf DEF RootInv, RInv
<1>5. CASE Call(t)
  <2>1. UNCHANGED <<store, slots>> /\ pc[t] = "idle"
    BY <1>5 DEF Call, ExecuteTool, ExecuteToolFromSnapshot, ManualRollback, Rollback, Begin,
                ManualSnapshot, TakeRollbackMemory, TakeRollbackState
  <2>2. \E label \in {"run", "memory", "error", "idle"} : \E l : Moves(t, label, l)
    <3>1. CASE pc' = pc /\ loc' = loc
      <4>1. Moves(t, "idle", loc[t])
        BY <1>4, <2>1, <3>1 DEF Moves
      <4> QED BY <4>1
    <3>2. CASE ~(pc' = pc /\ loc' = loc)
      <4>1. PICK label, l : label \in {"run", "memory", "error"} /\ Goto(t, label) /\ Set(t, l)
        BY <1>5, <3>2 DEF Call, ExecuteTool, ExecuteToolFromSnapshot, ManualRollback, Rollback,
                  ManualSnapshot, TakeRollbackMemory, TakeRollbackState
      <4> QED BY <4>1 DEF Moves, Goto, Set
    <3> QED BY <3>1, <3>2
  <2> QED BY <1>1, <2>1, <2>2, RootStays
<1>6. CASE CacheMemory(t) \/ CacheState(t) \/ Refuse(t) \/ CreateFails(t) \/ Record(t)
  <2>1. UNCHANGED <<store, slots>> /\ pc[t] \notin {"current", "latest"}
    BY <1>6 DEF CacheMemory, CacheState, Refuse, CreateFails, Record
  <2>2. \E label \in {"state", "record", "run", "return", "error", "trace", "output"} : Moves(t, label, loc[t])
    BY <1>4, <1>6 DEF CacheMemory, CacheState, AfterRollback, Refuse, CreateFails, Record, Goto, Moves
  <2> QED BY <1>1, <2>1, <2>2, RootStays
<1>7. CASE Output(t) \/ Return(t)
  <2>1. UNCHANGED <<store, slots>> /\ pc[t] \notin {"current", "latest"} /\ Moves(t, "idle", Quiet)
    BY <1>7 DEF Output, Return, Goto, Set, Moves
  <2> QED BY <1>1, <2>1, RootStays
<1>8. CASE Verdict(t) \/ RollbackOwn(t) \/ ReadTrace(t)
  <2>1. UNCHANGED <<store, slots>> /\ pc[t] \notin {"current", "latest"}
    BY <1>8 DEF Verdict, RollbackOwn, ReadTrace
  <2>2. \E label \in {"rollback", "record", "memory", "output"} : \E l : Moves(t, label, l)
    <3>1. loc' = loc => loc' = [loc EXCEPT ![t] = loc[t]]
      BY <1>4
    <3>2. \E label \in {"rollback", "record", "memory", "output"} : \E l : Goto(t, label) /\ (Set(t, l) \/ loc' = loc)
      <4>1. CASE Verdict(t)
        BY <4>1 DEF Verdict
      <4>2. CASE RollbackOwn(t)
        BY <4>2 DEF RollbackOwn
      <4>3. CASE ReadTrace(t)
        BY <4>3 DEF ReadTrace
      <4> QED BY <1>8, <4>1, <4>2, <4>3
    <3> QED BY <3>1, <3>2 DEF Goto, Set, Moves
  <2> QED BY <1>1, <2>1, <2>2, RootStays
<1>9. ASSUME NEW mode \in Modes, Run(t, mode) PROVE RootInv'
  <2>1. UNCHANGED <<store, slots>> /\ pc[t] \notin {"current", "latest"}
    BY <1>9 DEF Run
  <2>2. \E label \in {"base", "verdict"} : \E l : Moves(t, label, l)
    BY <1>9 DEF Run, Goto, Set, Moves
  <2> QED BY <1>1, <2>1, <2>2, RootStays
<1>10. CASE ReadLatest(t)
  <2> DEFINE l == [loc[t] EXCEPT !.base = IF Differential THEN latest ELSE None]
  <2>1. Moves(t, "create", l) /\ UNCHANGED <<store, slots>> /\ pc[t] = "base"
    BY <1>10 DEF ReadLatest, Goto, Set, Moves
  <2>2. l.base \in {None, latest}
    BY <1>4 DEF Locals
  <2>3. Store!Kept' = Store!Kept /\ parent' = parent /\ latest' = latest /\ current' = current
    BY <2>1 DEF store, slots, Store!Kept
  <2> HIDE DEF l
  <2>4. RootOK("create", l, Store!Kept', parent', latest', current')
    BY <1>4, <2>1, <2>2, <2>3 DEF RootOK
  <2> QED BY <1>1, <2>1, <2>4, RootMoves
<1>11. CASE CreateFull(t)
  <2> DEFINE l == [loc[t] EXCEPT !.snap = NewId]
  <2>1. Moves(t, "current", l) /\ Store!TakeFull(NewId)
    BY <1>11 DEF CreateFull, Created, Goto, Set, Moves
  <2>2. l.snap = NewId /\ NewId \in Store!Kept'
    BY <1>1, <1>4, <2>1, KeptStep DEF Locals, RInv
  <2> HIDE DEF l, NewId
  <2>3. RootOK("current", l, Store!Kept', parent', latest', current')
    BY <2>2 DEF RootOK
  <2> QED BY <1>1, <2>1, <2>3, RootMoves
<1>12. CASE CreateDiff(t)
  <2> DEFINE l == [loc[t] EXCEPT !.snap = NewId]
  <2>1. /\ Moves(t, "latest", l) /\ Store!TakeDiff(NewId, loc[t].base) /\ UNCHANGED slots
        /\ pc[t] = "create"
    BY <1>12 DEF CreateDiff, Created, Goto, Set, Moves
  <2>2. l.snap = NewId
    BY <1>4 DEF Locals
  <2>3. loc[t].base = latest /\ latest # None /\ latest \in known
    BY <1>1, <1>4, <1>12, LocOf DEF CreateDiff, NeedsFull, RootOK, LocalOK
  <2>4. current \in Under(parent, latest) /\ current \in Store!Kept
    BY <1>4, <2>1, <2>3 DEF RootOK
  <2>5. Store!Depth(latest, MaxDiffDepth) + 1 <= MaxDiffDepth
    <3>1. Store!Depth(latest, MaxDiffDepth) \in Int
      <4>1. Store!Depth(latest, MaxDiffDepth)
                  = Cardinality(Chain(parent, latest, MaxDiffDepth)[MaxDiffDepth]) - 1
        BY BelowIsChain, SameCardinality DEF Store!Depth
      <4>2. Cardinality(Chain(parent, latest, MaxDiffDepth)[MaxDiffDepth]) \in Nat
        BY ChainEnds
      <4> QED BY <4>1, <4>2
    <3>2. ~(Store!Depth(latest, MaxDiffDepth) + 1 > MaxDiffDepth)
      BY <1>12, <2>3 DEF CreateDiff, NeedsFull
    <3> QED BY <3>1, <3>2
  <2>6. PICK id : id = NewId
    OBVIOUS
  <2>7. current \in Under(parent', id)
    <3>1. StoreOK /\ Store!TakeDiff(id, latest)
      BY <1>1, <2>1, <2>3, <2>6 DEF RInv
    <3>2. Store!Below(id, MaxDiffDepth)' = {id} \cup Store!Below(latest, MaxDiffDepth)
      BY <2>3, <2>5, <2>6, <3>1, DiffIsLive
    <3> QED BY <2>4, <3>2, BelowIsChain, BelowIsChainNext DEF Under
  <2>8. Store!Kept' = Store!Kept /\ latest' = latest /\ current' = current
    BY <2>1 DEF Store!TakeDiff, Store!Kept, slots
  <2> HIDE DEF l, NewId
  <2>9. RootOK("latest", l, Store!Kept', parent', latest', current')
    BY <2>2, <2>4, <2>6, <2>7, <2>8 DEF RootOK
  <2> QED BY <1>1, <2>1, <2>9, RootMoves
<1>13. CASE SetCurrent(t)
  <2>1. /\ Moves(t, "latest", loc[t]) /\ UNCHANGED store /\ current' = loc[t].snap /\ latest' = latest
        /\ pc[t] = "current"
    BY <1>4, <1>13 DEF SetCurrent, Goto, Moves
  <2>2. Store!Kept' = Store!Kept /\ parent' = parent
    BY <2>1 DEF store, Store!Kept
  <2>3. loc[t].snap \in Under(parent, loc[t].snap) /\ loc[t].snap \in Store!Kept
    BY <1>4, <2>1, ChainHasTop DEF RootOK, Under
  <2>4. RootOK("latest", loc[t], Store!Kept', parent', latest', current')
    BY <2>1, <2>2, <2>3 DEF RootOK
  <2> QED BY <1>1, <2>1, <2>4, RootMoves
<1>14. CASE SetLatest(t)
  <2>1. /\ Moves(t, "verdict", loc[t]) /\ UNCHANGED store /\ latest' = loc[t].snap /\ current' = current
        /\ pc[t] = "latest"
    BY <1>4, <1>14 DEF SetLatest, Goto, Moves
  <2>2. Store!Kept' = Store!Kept /\ parent' = parent
    BY <2>1 DEF store, Store!Kept
  <2>3. RootOK("verdict", loc[t], Store!Kept', parent', latest', current')
    BY <1>4, <2>1, <2>2 DEF RootOK
  <2> QED BY <1>1, <2>1, <2>3, RootMoves
<1>15. ~CreateFullFails(t)
  BY DEF CreateFullFails
<1> QED BY <1>3, <1>5, <1>6, <1>7, <1>8, <1>9, <1>10, <1>11, <1>12, <1>13, <1>14, <1>15 DEF Step

\* Executions one at a time, no snapshot taken behind the hypervisor's back
\* and no file to fail: current_snapshot is the full snapshot at the bottom of
\* the chain that the next diff extends, and the ring still has it, for every
\* capacity (promotion by max_diff_depth replaces both together).
THEOREM SoloCurrentIsRoot ==
  ASSUME Solo, ~Manual, ~Persist
  PROVE  Spec => []CurrentIsRoot
<1>1. Init => RootInv
  <2> SUFFICES ASSUME Init, NEW t \in Threads PROVE RootOK(pc[t], loc[t], Store!Kept, parent, latest, current)
    BY InitRInv DEF RootInv
  <2>1. pc[t] = "idle" /\ latest = None
    BY DEF Init
  <2> QED BY <2>1 DEF RootOK
<1>2. RootInv => CurrentIsRoot
  <2> SUFFICES ASSUME RootInv, \A t \in Threads : pc[t] \notin {"current", "latest"}, latest # None
               PROVE  current \in Store!Below(latest, MaxDiffDepth) /\ current \in Store!Kept
    BY DEF CurrentIsRoot
  <2>1. current \in Under(parent, latest) /\ current \in Store!Kept
    BY DEF Solo, RootInv, RootOK
  <2> QED BY <2>1, BelowIsChain DEF Under
<1>3. RootInv /\ [Next]_vars => RootInv'
  BY RootStep
<1> QED BY <1>1, <1>2, <1>3, PTL DEF Spec
=============================================================================
