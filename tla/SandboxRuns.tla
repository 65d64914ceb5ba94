---------------------------- MODULE SandboxRuns ------------------------------
(***************************************************************************)
(* Runs of one WasmSandbox: every call reserves an epoch deadline, spawns  *)
(* a worker thread, and waits for its reply or for the time limit; a       *)
(* timeout advances the sandbox's epoch to the call's deadline, which      *)
(* interrupts the worker.  SandboxEpoch.current and wasmtime's own epoch   *)
(* are two counters, read and written one after the other.                 *)
(*                                                                         *)
(* With a SandboxPool a call also holds a permit until it returns, and its *)
(* worker holds one of the pooling allocator's instances until it stops:   *)
(* a worker that outlives its call keeps the instance.                     *)
(*                                                                         *)
(* Time limits fire at any moment; all calls share one limit, of Ticks.    *)
(***************************************************************************)
EXTENDS Integers, FiniteSets

CONSTANTS
  Runs,           \* calls; each is made once
  Ticks,          \* epoch_ticks_for_time_limit
  Permits,        \* max_concurrency
  TotalInstances, \* total_instances
  Nothing         \* no reply, no result

ASSUME SandboxAssumption ==
  /\ Ticks \in Nat \ {0} /\ Permits \in Nat \ {0}
  /\ TotalInstances \in Nat /\ Permits <= TotalInstances
  /\ IsFiniteSet(Runs) /\ Nothing \notin {"interrupted", "answered", "timeout"}

VARIABLES
  inPool,         \* the sandbox is a SandboxPool's
  wasi,           \* the calls that are WASI runs
  current,        \* SandboxEpoch.current
  next_deadline,  \* SandboxEpoch.next_deadline
  engineEpoch,    \* the epoch of the wasmtime engine
  permits,        \* the semaphore
  run             \* run -> its call and its worker

sandboxConfig == <<inPool, wasi>>
sandboxVars == <<sandboxConfig, current, next_deadline, engineEpoch, permits, run>>

\* rel and trap are the worker's, seen the caller's local variables; base,
\* late and raced are history: what the epochs did while the store was armed.
Fresh == [caller |-> "idle", deadline |-> 0, seen |-> 0, cancel |-> FALSE, result |-> Nothing,
          worker |-> "none", rel |-> 0, trap |-> 0, reply |-> Nothing,
          base |-> 0, late |-> FALSE, raced |-> FALSE]

\* A pool makes no WASI runs; a sandbox of its own has no permits and no
\* limit on instances.
SandboxInit ==
  /\ inPool \in BOOLEAN /\ wasi \in SUBSET Runs /\ (inPool => wasi = {})
  /\ current = 0 /\ next_deadline = 1 /\ engineEpoch = 0 /\ permits = Permits
  /\ run = [r \in Runs |-> Fresh]

Held == {r \in Runs : run[r].worker = "inside"}

\* A caller that gave up dropped the receiver: the reply of its worker is lost.
Listening(r) == run[r].caller = "wait"
Out(r, reply) ==
  [run EXCEPT ![r].worker = "out", ![r].rel = 0, ![r].trap = 0, ![r].base = 0,
              ![r].reply = IF Listening(r) THEN reply ELSE Nothing,
              ![r].late = Listening(r) /\ @, ![r].raced = Listening(r) /\ @]
AtLeast(a, b) == IF a >= b THEN a ELSE b

-----------------------------------------------------------------------------
\* What a call that got its answer, whatever it is, leaves behind.
Answered == [Fresh EXCEPT !.caller = "done", !.result = "answered", !.worker = "out"]

\* SandboxPool::acquire, and then reserve_deadline's fetch_add; a module that
\* does not compile gives the permit back.
AcquireSlot(r) ==
  /\ run[r].caller = "idle" /\ (inPool => permits > 0)
  /\ \/ /\ permits' = IF inPool THEN permits - 1 ELSE permits
        /\ next_deadline' = next_deadline + Ticks
        /\ run' = [run EXCEPT ![r].caller = "check", ![r].deadline = next_deadline]
     \/ /\ run' = [run EXCEPT ![r] = Answered]
        /\ UNCHANGED <<permits, next_deadline>>
  /\ UNCHANGED <<sandboxConfig, current, engineEpoch>>

\* A deadline ahead of the epoch is taken and the worker is spawned.
CheckDeadline(r) ==
  /\ run[r].caller = "check"
  /\ IF run[r].deadline > current
     THEN run' = [run EXCEPT ![r].caller = "wait", ![r].worker = "born"]
     ELSE run' = [run EXCEPT ![r].caller = "adjust", ![r].seen = current + Ticks]
  /\ UNCHANGED <<sandboxConfig, current, next_deadline, engineEpoch, permits>>

\* compare_exchange: on failure the value found there is tried next.
AdjustDeadline(r) ==
  /\ run[r].caller = "adjust"
  /\ IF next_deadline = run[r].deadline + Ticks
     THEN /\ next_deadline' = run[r].seen + 1
          /\ run' = [run EXCEPT ![r].caller = "wait", ![r].worker = "born",
                                ![r].deadline = run[r].seen, ![r].seen = 0]
     ELSE /\ run' = [run EXCEPT ![r].caller = "check", ![r].deadline = next_deadline, ![r].seen = 0]
          /\ UNCHANGED next_deadline
  /\ UNCHANGED <<sandboxConfig, current, engineEpoch, permits>>

-----------------------------------------------------------------------------
\* A WASI worker looks at the cancel flag between its steps.
Cancelled(r) == r \in wasi /\ run[r].cancel

\* A cancelled worker ends at the next check, without a reply.
WorkerStops(r) ==
  /\ run[r].worker \in {"born", "loaded", "armed", "inside"} /\ Cancelled(r)
  /\ run' = Out(r, Nothing)
  /\ UNCHANGED <<sandboxConfig, current, next_deadline, engineEpoch, permits>>

\* Mutant of RelativeTicksUntil: the ticks of one call, whatever was reserved.
RelativeTicksFixed(deadline) == Ticks

\* relative_ticks_until.
RelativeTicksUntil(deadline) == AtLeast(deadline - current, 1)

\* Bumps of the engine's epoch that callers still owe it.
Owed == Cardinality({q \in Runs : run[q].caller = "bump"})

LoadEpoch(r) ==
  /\ run[r].worker = "born" /\ ~Cancelled(r)
  /\ run' = [run EXCEPT ![r].worker = "loaded", ![r].rel = RelativeTicksUntil(run[r].deadline),
                        ![r].late = current >= run[r].deadline,
                        ![r].base = engineEpoch, ![r].raced = Owed > 0]
  /\ UNCHANGED <<sandboxConfig, current, next_deadline, engineEpoch, permits>>

\* configure_epoch_deadline: relative to the engine's epoch as it is now.
ArmStore(r) ==
  /\ run[r].worker = "loaded" /\ ~Cancelled(r)
  /\ run' = [run EXCEPT ![r].worker = "armed", ![r].trap = engineEpoch + run[r].rel,
                        ![r].raced = @ \/ engineEpoch # run[r].base,
                        ![r].rel = 0, ![r].base = 0]
  /\ UNCHANGED <<sandboxConfig, current, next_deadline, engineEpoch, permits>>

\* instantiate: fails for a bad module and when no instance is left.
Instantiate(r) ==
  /\ run[r].worker = "armed" /\ ~Cancelled(r)
  /\ \/ run' = Out(r, "ended")
     \/ inPool /\ Cardinality(Held) = TotalInstances /\ run' = Out(r, "no_instance")
     \/ (inPool => Cardinality(Held) < TotalInstances) /\ run' = [run EXCEPT ![r].worker = "inside"]
  /\ UNCHANGED <<sandboxConfig, current, next_deadline, engineEpoch, permits>>

\* The state is restored, the memory captured, the input written, and the
\* guest returns; or one of these steps fails, it traps, runs out of fuel, or
\* the thread panics and the channel closes.
GuestEnds(r) ==
  /\ run[r].worker = "inside" /\ ~Cancelled(r)
  /\ run' = Out(r, "ended")
  /\ UNCHANGED <<sandboxConfig, current, next_deadline, engineEpoch, permits>>

\* Trap::Interrupt, at the guest's next epoch check.
Interrupt(r) ==
  /\ run[r].worker = "inside" /\ ~Cancelled(r) /\ engineEpoch >= run[r].trap
  /\ run' = Out(r, "interrupted")
  /\ UNCHANGED <<sandboxConfig, current, next_deadline, engineEpoch, permits>>

-----------------------------------------------------------------------------
\* The pooled call drops its permit as it returns.
Returns ==
  /\ permits' = IF inPool THEN permits + 1 ELSE permits
  /\ UNCHANGED <<sandboxConfig, current, next_deadline, engineEpoch>>

\* recv_timeout yields the reply, or finds the worker gone.
ReceiveReply(r) ==
  /\ run[r].caller = "wait" /\ run[r].worker = "out"
  /\ run' = [run EXCEPT ![r] = Answered]
  /\ Returns

\* recv_timeout expires.
LimitReached(r) ==
  /\ run[r].caller = "wait"
  /\ run' = [run EXCEPT ![r].caller = "advance", ![r].cancel = TRUE, ![r].reply = Nothing]
  /\ UNCHANGED <<sandboxConfig, current, next_deadline, engineEpoch, permits>>

\* Mutant of AdvanceDone: one tick short of the deadline.
AdvanceDoneEarly(r) == current + 1 >= run[r].deadline

\* advance_to: the loop's test, and its compare_exchange, whose failure only
\* loads again; the engine's epoch follows in a step of its own.
AdvanceDone(r) == current >= run[r].deadline

AdvanceEpoch(r) ==
  /\ run[r].caller = "advance" /\ ~AdvanceDone(r)
  /\ current' = current + 1
  /\ run' = [run EXCEPT ![r].caller = "bump"]
  /\ UNCHANGED <<sandboxConfig, next_deadline, engineEpoch, permits>>

IncrementEngine(r) ==
  /\ run[r].caller = "bump"
  /\ engineEpoch' = engineEpoch + 1
  /\ run' = [run EXCEPT ![r].caller = "advance"]
  /\ UNCHANGED <<sandboxConfig, current, next_deadline, permits>>

\* join_with_timeout: joined, or the grace is over; either way a timeout with
\* no memory and no fuel is reported.
JoinWorker(r) ==
  /\ run[r].caller = "advance" /\ AdvanceDone(r)
  /\ run' = [run EXCEPT ![r].caller = "done", ![r].result = "timeout"]
  /\ Returns

SandboxNext ==
  \E r \in Runs :
    \/ AcquireSlot(r) \/ CheckDeadline(r) \/ AdjustDeadline(r)
    \/ LoadEpoch(r) \/ ArmStore(r) \/ Instantiate(r) \/ GuestEnds(r) \/ Interrupt(r) \/ WorkerStops(r)
    \/ ReceiveReply(r) \/ LimitReached(r) \/ AdvanceEpoch(r)
    \/ IncrementEngine(r) \/ JoinWorker(r)

SandboxSpec == SandboxInit /\ [][SandboxNext]_sandboxVars

-----------------------------------------------------------------------------
TimedOut == {r \in Runs : run[r].caller \in {"advance", "bump"}
                          \/ run[r].result = "timeout"}

\* A timeout interrupts its own worker and those of calls that reserved an
\* earlier deadline; a later call is interrupted only if its store was armed
\* while the two epochs were apart or moving.
TimeoutsAreIsolated ==
  \A r \in Runs : run[r].reply = "interrupted" =>
    run[r].raced \/ \E q \in TimedOut : run[q].deadline >= run[r].deadline

\* Once a timeout's epoch was advanced and no bump is owed, its worker will be
\* interrupted at its next check, unless it was armed during an advance or
\* after its own deadline.
TimedOutWorkerStops ==
  \A r \in Runs :
    (/\ run[r].caller = "done" /\ r \in TimedOut /\ Owed = 0
     /\ run[r].worker \in {"armed", "inside"})
    => run[r].raced \/ run[r].late \/ engineEpoch >= run[r].trap

=============================================================================
