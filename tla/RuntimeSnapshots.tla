-------------------------- MODULE RuntimeSnapshots --------------------------
(***************************************************************************)
(* The hypervisor's execution path around the snapshot manager: a run, the *)
(* snapshot of its pre-call memory, the verdict, the rollback of a failed  *)
(* run, and the slots in which the hypervisor remembers all this           *)
(* (latest_runtime_snapshot, current_snapshot, last_rollback_memory and    *)
(* last_rollback_execution_state, each behind a lock of its own).          *)
(*                                                                         *)
(* The manager appears as the abstract store it implements; one action is  *)
(* one manager call or one write of a slot, so concurrent executions of    *)
(* the same hypervisor interleave between them as they do in the code.     *)
(***************************************************************************)
EXTENDS Integers, Sequences, FiniteSets

CONSTANTS
  Threads,       \* concurrent callers of the hypervisor
  Differential,  \* snapshot_strategy is Differential, not Full
  Capacity,      \* snapshot_capacity
  MaxDiffDepth,  \* max_diff_depth of the manager
  Sizes,         \* sizes of the tools' linear memories; 0: none is exported
  Persist,       \* enable_persistence: snapshots are also written to disk
  Manual,        \* callers may also take snapshots in the manager themselves
  MaxIds,        \* bound: snapshots ever taken
  MaxCalls       \* bound: calls ever made

ASSUME CapacityAssumption == Capacity \in Nat /\ MaxDiffDepth \in Nat
ASSUME SizesAssumption    == Sizes \subseteq Nat
ASSUME FlagsAssumption    == Differential \in BOOLEAN /\ Manual \in BOOLEAN
                             /\ Persist \in BOOLEAN
ASSUME ThreadsAssumption  == IsFiniteSet(Threads)
ASSUME BoundAssumption    == MaxIds \in Nat /\ MaxCalls \in Nat

VARIABLES
  retained, parent, known,  \* the store (module SnapshotStore)
  size,        \* the size of the memory each snapshot holds
  latest,      \* latest_runtime_snapshot
  current,     \* current_snapshot
  rbMemory,    \* last_rollback_memory: the snapshot it came from
  rbState,     \* last_rollback_execution_state: likewise
  recorded,    \* executions in the telemetry
  answered,    \* history: executions answered with a ToolOutput
  calls,       \* calls made
  pc,          \* where each thread is
  loc          \* the local variables of its call

Ids  == 1 .. MaxIds
None == 0

Store == INSTANCE SnapshotStore
store == <<retained, parent, known, size>>
cache == <<rbMemory, rbState>>
slots == <<latest, current>>
tally == <<recorded, answered, calls>>
vars  == <<store, slots, cache, tally, pc, loc>>

NewId == Cardinality(known) + 1
Restorable(id) == Store!Restorable(id, MaxDiffDepth)

Quiet == [kind |-> "none", size |-> 0, base |-> None, snap |-> None,
          from |-> None, mode |-> "none", back |-> FALSE, trace |-> None]

Goto(t, label)  == pc' = [pc EXCEPT ![t] = label]
Set(t, record)  == loc' = [loc EXCEPT ![t] = record]

Init ==
  /\ Store!Init
  /\ size = [id \in Ids |-> 0]
  /\ latest = None /\ current = None
  /\ rbMemory = None /\ rbState = None
  /\ recorded = 0 /\ answered = 0 /\ calls = 0
  /\ pc = [t \in Threads |-> "idle"]
  /\ loc = [t \in Threads |-> Quiet]

Begin(t) ==
  /\ pc[t] = "idle"
  /\ calls < MaxCalls
  /\ calls' = calls + 1
  /\ UNCHANGED <<store, slots, cache, recorded, answered>>

\* execute_tool, execute_tool_traced
ExecuteTool(t, kind, bytes) ==
  /\ Begin(t)
  /\ Set(t, [Quiet EXCEPT !.kind = kind, !.size = bytes])
  /\ Goto(t, "run")

\* rollback_snapshot: as a full snapshot or as a diff, else the call fails
Rollback(t, kind, bytes, id) ==
  /\ Begin(t)
  /\ Set(t, [Quiet EXCEPT !.kind = kind, !.size = bytes, !.from = id])
  /\ Goto(t, IF Restorable(id) THEN "memory" ELSE "error")

\* execute_tool_from_snapshot starts with a rollback
ExecuteToolFromSnapshot(t, bytes, id) == Rollback(t, "fork", bytes, id)
ManualRollback(t, id) == Rollback(t, "manual", 0, id)

\* cache_rollback_result: two slots, two locks.  `from` names the snapshot
\* that was rolled back to.
CacheMemory(t) ==
  /\ pc[t] = "memory"
  /\ rbMemory' = loc[t].from
  /\ Goto(t, "state")
  /\ UNCHANGED <<store, slots, rbState, tally, loc>>

\* The failed run that was rolled back is recorded, a forked run starts
AfterRollback(l) ==
  IF l.back THEN "record" ELSE IF l.kind = "fork" THEN "run" ELSE "return"

\* Mutant of CacheState: a state that was not taken yet is kept
CacheStateOnce(t) ==
  /\ pc[t] = "state"
  /\ rbState' = IF rbState = None THEN loc[t].from ELSE rbState
  /\ Goto(t, AfterRollback(loc[t]))
  /\ UNCHANGED <<store, slots, rbMemory, tally, loc>>

CacheState(t) ==
  /\ pc[t] = "state"
  /\ rbState' = loc[t].from
  /\ Goto(t, AfterRollback(loc[t]))
  /\ UNCHANGED <<store, slots, rbMemory, tally, loc>>

\* take_rollback_memory, take_rollback_execution_state
TakeRollbackMemory(t) ==
  /\ pc[t] = "idle"
  /\ rbMemory' = None
  /\ UNCHANGED <<store, slots, rbState, tally, pc, loc>>

TakeRollbackState(t) ==
  /\ pc[t] = "idle"
  /\ rbState' = None
  /\ UNCHANGED <<store, slots, rbMemory, tally, pc, loc>>

\* The sandbox ran the tool.  Which outcomes leave a pre-call memory: a
\* module that does not load and a timeout never do, a missing entry point
\* is found after the capture.  A trap stands for every failure that the
\* worker reports after the capture, a timeout for every one without a
\* report of the guest (restore errors and a lost worker are host errors).
Modes    == {"success", "trap", "no_entry", "invalid", "timeout"}
Captured == {"success", "trap", "no_entry"}

\* The caller's tokens do not cover the tool (checked again after the
\* rollback of a forked run), or its input cannot be serialized
Refuse(t) ==
  /\ pc[t] = "run"
  /\ Goto(t, "error")
  /\ UNCHANGED <<store, slots, cache, tally, loc>>

\* restore_memory grows the memory of a forked run to the snapshot's size
MemorySize(t) ==
  LET restored == IF loc[t].kind = "fork" THEN size[loc[t].from] ELSE 0
  IN  IF loc[t].size > 0 /\ restored > loc[t].size THEN restored ELSE loc[t].size

Run(t, mode) ==
  /\ pc[t] = "run"
  /\ Set(t, [loc[t] EXCEPT !.mode = mode, !.size = MemorySize(t)])
  /\ Goto(t, IF mode \in Captured /\ loc[t].size > 0 THEN "base" ELSE "verdict")
  /\ UNCHANGED <<store, slots, cache, tally>>

\* create_runtime_snapshot: the base of a differential snapshot is the latest
\* one of any execution
ReadLatest(t) ==
  /\ pc[t] = "base"
  /\ Set(t, [loc[t] EXCEPT !.base = IF Differential THEN latest ELSE None])
  /\ Goto(t, "create")
  /\ UNCHANGED <<store, slots, cache, tally>>

Created(t, id, label) ==
  /\ size' = [size EXCEPT ![id] = loc[t].size]
  /\ Set(t, [loc[t] EXCEPT !.snap = id])
  /\ Goto(t, label)
  /\ UNCHANGED <<slots, cache, tally>>

\* create_snapshot, or the promotion of a chain that is deep enough
NeedsFull(t) == \/ loc[t].base = None
                \/ Store!Depth(loc[t].base, MaxDiffDepth) + 1 > MaxDiffDepth
\* Mutant of CreateFull: the promotion of a chain leaves current_snapshot
CreateFullPromotesQuietly(t) ==
  /\ pc[t] = "create"
  /\ NeedsFull(t)
  /\ Store!TakeFull(NewId)
  /\ Created(t, NewId, IF loc[t].base = None THEN "current" ELSE "latest")

CreateFull(t) ==
  /\ pc[t] = "create"
  /\ NeedsFull(t)
  /\ Store!TakeFull(NewId)
  /\ Created(t, NewId, "current")

\* The snapshot is in the ring already when writing its file fails
CreateFullFails(t) ==
  /\ pc[t] = "create"
  /\ NeedsFull(t)
  /\ Persist
  /\ Store!TakeFull(NewId)
  /\ Created(t, NewId, "error")

\* create_diff_snapshot against a base that is still there and as large
CanDiff(t) == Restorable(loc[t].base) /\ size[loc[t].base] = loc[t].size
CreateDiff(t) ==
  /\ pc[t] = "create"
  /\ ~NeedsFull(t)
  /\ CanDiff(t)
  /\ Store!TakeDiff(NewId, loc[t].base)
  /\ Created(t, NewId, "latest")

\* ... otherwise the whole execution returns the manager's error
CreateFails(t) ==
  /\ pc[t] = "create"
  /\ ~NeedsFull(t)
  /\ ~CanDiff(t)
  /\ Goto(t, "error")
  /\ UNCHANGED <<store, slots, cache, tally, loc>>

SetCurrent(t) ==
  /\ pc[t] = "current"
  /\ current' = loc[t].snap
  /\ Goto(t, "latest")
  /\ UNCHANGED <<store, latest, cache, tally, loc>>

SetLatest(t) ==
  /\ pc[t] = "latest"
  /\ latest' = loc[t].snap
  /\ Goto(t, "verdict")
  /\ UNCHANGED <<store, current, cache, tally, loc>>

\* FailureMode::requires_rollback
RequiresRollback(mode) == mode \notin {"success", "no_entry", "invalid"}

\* The host's own checks can turn a success into a HostError
Verdict(t) ==
  /\ pc[t] = "verdict"
  /\ \E mode \in {loc[t].mode} \cup (IF loc[t].mode = "success" THEN {"host"} ELSE {}) :
       /\ Set(t, [loc[t] EXCEPT !.mode = mode])
       /\ Goto(t, IF RequiresRollback(mode) /\ loc[t].snap # None
                  THEN "rollback" ELSE "record")
  /\ UNCHANGED <<store, slots, cache, tally>>

\* Mutants of RollbackOwn: only the latest snapshot is rolled back to; only
\* a full one
RollbackOwnLatest(t) ==
  /\ pc[t] = "rollback"
  /\ IF loc[t].snap = latest /\ Restorable(loc[t].snap)
     THEN /\ Set(t, [loc[t] EXCEPT !.back = TRUE, !.from = loc[t].snap])
          /\ Goto(t, "memory")
     ELSE Goto(t, "record") /\ UNCHANGED loc
  /\ UNCHANGED <<store, slots, cache, tally>>

RollbackOwnFull(t) ==
  /\ pc[t] = "rollback"
  /\ IF loc[t].snap \in Store!Kept
     THEN /\ Set(t, [loc[t] EXCEPT !.back = TRUE, !.from = loc[t].snap])
          /\ Goto(t, "memory")
     ELSE Goto(t, "record") /\ UNCHANGED loc
  /\ UNCHANGED <<store, slots, cache, tally>>

\* rollback_runtime_snapshot; a refusal is only logged
RollbackOwn(t) ==
  /\ pc[t] = "rollback"
  /\ IF Restorable(loc[t].snap)
     THEN /\ Set(t, [loc[t] EXCEPT !.back = TRUE, !.from = loc[t].snap])
          /\ Goto(t, "memory")
     ELSE Goto(t, "record") /\ UNCHANGED loc
  /\ UNCHANGED <<store, slots, cache, tally>>

\* telemetry.record_success or record_failure, and the ToolOutput
Record(t) ==
  /\ pc[t] = "record"
  /\ recorded' = recorded + 1
  /\ Goto(t, IF loc[t].kind = "traced" THEN "trace" ELSE "output")
  /\ UNCHANGED <<store, slots, cache, answered, calls, loc>>

\* execute_tool_traced takes its checkpoint from current_snapshot, also when the
\* execution took no snapshot or only a differential one
ReadTrace(t) ==
  /\ pc[t] = "trace"
  /\ Set(t, [loc[t] EXCEPT !.trace = current])
  /\ Goto(t, "output")
  /\ UNCHANGED <<store, slots, cache, tally>>

Output(t) ==
  /\ pc[t] = "output"
  /\ answered' = answered + 1
  /\ Goto(t, "idle")
  /\ Set(t, Quiet)
  /\ UNCHANGED <<store, slots, cache, recorded, calls>>

\* Mutant of Return: failed calls are recorded too
ReturnRecords(t) ==
  /\ pc[t] \in {"return", "error"}
  /\ recorded' = recorded + 1
  /\ Goto(t, "idle")
  /\ Set(t, Quiet)
  /\ UNCHANGED <<store, slots, cache, answered, calls>>

\* A manual rollback or a failed call returns: no ToolOutput
Return(t) ==
  /\ pc[t] \in {"return", "error"}
  /\ Goto(t, "idle")
  /\ Set(t, Quiet)
  /\ UNCHANGED <<store, slots, cache, tally>>

\* snapshot_manager().create_snapshot by a caller of the library
ManualSnapshot(t, bytes) ==
  /\ Manual
  /\ pc[t] = "idle"
  /\ Store!TakeFull(NewId)
  /\ size' = [size EXCEPT ![NewId] = bytes]
  /\ UNCHANGED <<slots, cache, tally, pc, loc>>

Step(t) ==
  \/ CacheMemory(t) \/ CacheState(t) \/ Refuse(t)
  \/ \E mode \in Modes : Run(t, mode)
  \/ ReadLatest(t) \/ CreateFull(t) \/ CreateFullFails(t)
  \/ CreateDiff(t) \/ CreateFails(t)
  \/ SetCurrent(t) \/ SetLatest(t) \/ Verdict(t) \/ RollbackOwn(t)
  \/ Record(t) \/ ReadTrace(t) \/ Output(t) \/ Return(t)

\* Bound: a call that may take a snapshot starts only when an id is left
IdLeft == NewId + Cardinality({t \in Threads : pc[t] \in {"memory", "state", "run",
                                        "base", "create"} /\ ~loc[t].back}) <= MaxIds

Call(t) ==
  \/ /\ IdLeft
     /\ \E bytes \in Sizes :
          \/ \E kind \in {"plain", "traced"} : ExecuteTool(t, kind, bytes)
          \/ \E id \in known : ExecuteToolFromSnapshot(t, bytes, id)
          \/ ManualSnapshot(t, bytes)
  \/ \E id \in known : ManualRollback(t, id)
  \/ TakeRollbackMemory(t) \/ TakeRollbackState(t)

Next == \E t \in Threads : Call(t) \/ Step(t)

Spec == Init /\ [][Next]_vars

(***************************************************************************)
(* Properties.                                                             *)
(***************************************************************************)
\* The telemetry has exactly one record for every execution that produced an
\* output, and none for the calls that returned an error.
TelemetryExact ==
  recorded = answered + Cardinality({t \in Threads : pc[t] \in {"trace", "output"}})

\* A failed execution that reports no rollback although it had a snapshot
\* could not have been rolled back later either: its snapshot is gone for
\* good, evicted by executions that overtook it.
UnrestoredIsLost ==
  \A t \in Threads :
    /\ pc[t] \in {"record", "trace", "output"}
    /\ RequiresRollback(loc[t].mode) /\ loc[t].snap # None /\ ~loc[t].back
    => ~Restorable(loc[t].snap)

\* One caller at a time
Solo == \E t \in Threads : Threads = {t}

\* Executions one at a time: a failed run is always rolled back to the
\* snapshot it has just taken, whatever the capacity.
RollbackNeverRefused ==
  \A t \in Threads :
    pc[t] \in {"record", "output"} /\ RequiresRollback(loc[t].mode)
      => loc[t].snap = None \/ loc[t].back

\* Executions one at a time: current_snapshot is the full snapshot at the
\* bottom of the chain that the next differential snapshot extends, so that
\* chain can always be restored.
CurrentIsRoot ==
  (\A t \in Threads : pc[t] \notin {"current", "latest"}) /\ latest # None =>
    /\ current \in Store!Below(latest, MaxDiffDepth)
    /\ current \in Store!Kept

\* Executions one at a time: the two rollback slots, when both are there and
\* no rollback is being stored, come from the same snapshot, whichever of
\* them was taken before.
RollbackPairMatches ==
  (\A t \in Threads : pc[t] # "state") /\ rbMemory # None /\ rbState # None =>
    rbMemory = rbState

\* With a full base in place, later executions get a differential snapshot:
\* an execution is not lost to the state of the snapshot chain.
DiffsKeepWorking ==
  \A t \in Threads : pc[t] = "create" => NeedsFull(t) \/ CanDiff(t)
=============================================================================
