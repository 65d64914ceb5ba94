---------------------------- MODULE AdaptiveFuel ----------------------------
(***************************************************************************)
(* Adaptive fuel budgets: every execution leaves a sample of the fuel its  *)
(* tool consumed, and the budget of the next call is the 95th percentile   *)
(* of the retained samples with a headroom of one half.                    *)
(*                                                                         *)
(* The hypervisor has one sandbox, behind a RwLock.  A call computes its   *)
(* budget, takes the write lock to install a sandbox with that limit, lets *)
(* go of it, and takes a read lock to run: between the two another call    *)
(* can install a limit of its own.  Each of the four is one action.        *)
(***************************************************************************)
EXTENDS Integers, Sequences, FiniteSets, SequencesExt

CONSTANTS
  Callers,     \* concurrent executions
  Tools,       \* tool names
  MaxFuel,     \* sandbox_config.max_fuel, also the policy's fallback
  Floor,       \* MIN_FUEL_FLOOR
  MinSamples,  \* MIN_SAMPLES
  MaxSamples,  \* MAX_SAMPLES
  Percent,     \* the percentile of the budget, 95 in the code
  Demands      \* fuel the guests' runs would take if they were let finish

ASSUME FuelAssumption    == MaxFuel \in Nat \ {0} /\ Floor \in Nat \ {0, 1}
ASSUME SamplesAssumption == /\ MinSamples \in Nat \ {0}
                            /\ MaxSamples \in Nat /\ MinSamples <= MaxSamples
ASSUME PercentAssumption == Percent \in 1 .. 100
ASSUME DemandsAssumption == Demands \subseteq Nat

VARIABLES
  samples,  \* FuelBudgetPolicy.profiles: the samples of each tool
  limit,    \* max_fuel of the sandbox that is installed
  peak,     \* history: the largest limit a run ever had
  stage,    \* where each caller is
  call      \* its tool, its budget, whether it rebuilt the sandbox, the limit
            \* it ran under and the fuel it consumed

fuelVars == <<samples, limit, peak, stage, call>>

Max2(a, b) == IF a >= b THEN a ELSE b
Min2(a, b) == IF a <= b THEN a ELSE b

(***************************************************************************)
(* FuelProfile and FuelBudgetPolicy.                                       *)
(***************************************************************************)
\* FuelProfile::push: a ring of MAX_SAMPLES
PushSample(profile, fuel) ==
  Append(IF Len(profile) >= MaxSamples THEN Tail(profile) ELSE profile, fuel)

\* percentile: nearest rank, ceil(pct / 100 * N).  The sample at that rank of
\* the sorted ones is the least that so many samples do not exceed
Rank(n, pct) == Max2(1, (pct * n + 99) \div 100)
UpTo(profile, x) == {i \in DOMAIN profile : profile[i] <= x}
Percentile(profile, pct) ==
  Min({x \in Range(profile) : Cardinality(UpTo(profile, x)) >= Rank(Len(profile), pct)})

\* Mutant of Headroom: the percentile itself
HeadroomNone(p95) == p95

\* p95 * 1.5, truncated
Headroom(p95) == (3 * p95) \div 2

\* Mutant of BudgetFor: twice the percentile
BudgetForDoubles(tool) ==
  IF Len(samples[tool]) >= MinSamples
  THEN Max2(2 * Percentile(samples[tool], Percent), Floor)
  ELSE MaxFuel

\* FuelBudgetPolicy::budget_for
BudgetFor(tool) ==
  IF Len(samples[tool]) >= MinSamples
  THEN Max2(Headroom(Percentile(samples[tool], Percent)), Floor)
  ELSE MaxFuel

(***************************************************************************)
(* Executions.                                                             *)
(***************************************************************************)
NoCall == [tool |-> CHOOSE t \in Tools : TRUE, swapped |-> FALSE,
           budget |-> 0, limit |-> 0, used |-> 0]

Advance(c, label) == stage' = [stage EXCEPT ![c] = label]
SetCall(c, record) == call' = [call EXCEPT ![c] = record]

\* The read lock of the sandbox is held for the whole run
Running(c) == stage[c] = "running"

FuelInit ==
  /\ samples = [t \in Tools |-> << >>]
  /\ limit = MaxFuel
  /\ peak = MaxFuel
  /\ stage = [c \in Callers |-> "idle"]
  /\ call = [c \in Callers |-> NoCall]

\* execute_tool_inner, authorized: the budget is read from the policy
Start(c, tool) ==
  /\ stage[c] = "idle"
  /\ SetCall(c, [NoCall EXCEPT !.tool = tool, !.budget = BudgetFor(tool)])
  /\ Advance(c, "swap")
  /\ UNCHANGED <<samples, limit, peak>>

\* The WASI paths go straight to the installed sandbox
StartWasi(c, tool) ==
  /\ stage[c] = "idle"
  /\ SetCall(c, [NoCall EXCEPT !.tool = tool])
  /\ Advance(c, "run")
  /\ UNCHANGED <<samples, limit, peak>>

\* Under the write lock: a budget other than the configured max_fuel gets a
\* sandbox of its own; one equal to it leaves whatever is installed
Swap(c) ==
  /\ stage[c] = "swap"
  /\ \A d \in Callers : ~Running(d)
  /\ limit' = IF call[c].budget # MaxFuel THEN call[c].budget ELSE limit
  /\ SetCall(c, [call[c] EXCEPT !.swapped = TRUE])
  /\ Advance(c, "run")
  /\ UNCHANGED <<samples, peak>>

\* WasmSandbox::new fails: the old sandbox stays
SwapFails(c) ==
  /\ stage[c] = "swap"
  /\ \A d \in Callers : ~Running(d)
  /\ call[c].budget # MaxFuel
  /\ Advance(c, "run")
  /\ UNCHANGED <<samples, limit, peak, call>>

\* The read lock is taken: the run has the limit that is installed now
RunTool(c) ==
  /\ stage[c] = "run"
  /\ SetCall(c, [call[c] EXCEPT !.limit = limit])
  /\ peak' = Max2(peak, limit)
  /\ Advance(c, "running")
  /\ UNCHANGED <<samples, limit>>

\* The guest finishes or runs out of fuel
Finish(c, demand) ==
  /\ Running(c)
  /\ SetCall(c, [call[c] EXCEPT !.used = Min2(demand, call[c].limit)])
  /\ Advance(c, "record")
  /\ UNCHANGED <<samples, limit, peak>>

\* A timeout, a module that does not compile or a worker that is lost: the
\* result says 0 fuel
FinishUnmetered(c) ==
  /\ Running(c)
  /\ SetCall(c, [call[c] EXCEPT !.used = 0])
  /\ Advance(c, "record")
  /\ UNCHANGED <<samples, limit, peak>>

\* The sample goes to the policy, and the caller gets its answer
RecordFuel(c) ==
  /\ stage[c] = "record"
  /\ samples' = [samples EXCEPT ![call[c].tool] = PushSample(@, call[c].used)]
  /\ Advance(c, "idle")
  /\ SetCall(c, NoCall)
  /\ UNCHANGED <<limit, peak>>

StartCall(c) == \E tool \in Tools : Start(c, tool) \/ StartWasi(c, tool)
Proceed(c) == \/ Swap(c) \/ SwapFails(c) \/ RunTool(c) \/ RecordFuel(c)
              \/ FinishUnmetered(c) \/ \E demand \in Demands : Finish(c, demand)

FuelNext == \E c \in Callers : StartCall(c) \/ Proceed(c)

FuelSpec == FuelInit /\ [][FuelNext]_fuelVars

\* Callers come back for another run, and calls under way proceed
Fairness == \A c \in Callers : WF_fuelVars(Proceed(c)) /\ WF_fuelVars(StartCall(c))
FairSpec == FuelSpec /\ Fairness

(***************************************************************************)
(* Properties.                                                             *)
(***************************************************************************)
\* Runaway growth is geometric at worst: no budget, and so no later run,
\* exceeds one and a half times the largest limit any run had before,
\* although max_fuel itself is no ceiling.
GrowthBounded ==
  /\ \A t \in Tools : BudgetFor(t) <= Max2(Floor, Headroom(peak))
  /\ limit <= Max2(Floor, Headroom(peak))
  /\ \A c \in Callers : call[c].used <= peak

\* A run that went through the swap has the fuel budget that the policy
\* recommended for its tool.
RunsWithinOwnBudget ==
  \A c \in Callers : Running(c) /\ call[c].swapped => call[c].limit = call[c].budget

\* A tool whose budget was driven down by unmetered runs works its way up
\* again: if from some time on it is called without WASI, the sandbox can be
\* rebuilt and every run is metered, runs with the full demand keep happening.
Metered ==
  \A c \in Callers : /\ ~SwapFails(c) /\ ~FinishUnmetered(c)
                     /\ \A tool \in Tools : ~StartWasi(c, tool)
FullRun == \E c \in Callers : stage[c] = "record" /\ call[c].used \in Demands
BudgetRecovers == <>[][Metered]_fuelVars => []<>FullRun
=============================================================================
