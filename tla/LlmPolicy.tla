------------------------------ MODULE LlmPolicy ------------------------------
(***************************************************************************)
(* LLMPolicy::recover: sanitise, take a call from the per-minute budget,   *)
(* ask the model.  The budget is a window start and a count, two atomics   *)
(* that the callers of one process read and write one at a time.           *)
(*                                                                         *)
(* Time counts whole windows of 60 s.                                      *)
(***************************************************************************)
EXTENDS Integers

CONSTANTS
  Advisors,        \* threads whose recovery policy has an LLM layer
  LlmBudget,       \* max_calls_per_minute
  MaxMinutes,      \* bound on time
  MaxConsults      \* bound: times the policy is consulted

ASSUME LlmAssumption == LlmBudget \in Nat /\ MaxMinutes \in Nat /\ MaxConsults \in Nat

VARIABLES
  minute,          \* the clock
  rl_window_start, rl_count,
  advisor,         \* thread -> [at, now]: where it is and the time it read
  consults,        \* times consulted
  granted,         \* history: minute -> calls let through in it
  prompt,          \* history: those of them that began in the same minute
  resets           \* history: minute -> times the count was set to 0 in it

llmVars == <<minute, rl_window_start, rl_count, advisor, consults, granted, prompt, resets>>

At(a, where) == advisor' = [advisor EXCEPT ![a].at = where]

LlmInit ==
  /\ minute = 0 /\ rl_window_start = 0 /\ rl_count = 0 /\ consults = 0
  /\ advisor = [a \in Advisors |-> [at |-> "idle", now |-> 0]]
  /\ granted = [m \in 0 .. MaxMinutes |-> 0] /\ prompt = granted /\ resets = granted

\* sanitize_for_prompt may refuse the description; then the clock is read.
Consult(a) ==
  /\ advisor[a].at = "idle" /\ consults < MaxConsults
  /\ consults' = consults + 1
  /\ \/ advisor' = [advisor EXCEPT ![a] = [at |-> "load", now |-> minute]]
     \/ UNCHANGED advisor
  /\ UNCHANGED <<minute, rl_window_start, rl_count, granted, prompt, resets>>

\* rate_limit_check, one atomic operation at a time.
LoadWindow(a) ==
  /\ advisor[a].at = "load"
  /\ At(a, IF advisor[a].now - rl_window_start >= 1 THEN "window" ELSE "count")
  /\ UNCHANGED <<minute, rl_window_start, rl_count, consults, granted, prompt, resets>>

StoreWindow(a) ==
  /\ advisor[a].at = "window"
  /\ rl_window_start' = advisor[a].now
  /\ At(a, "zero")
  /\ UNCHANGED <<minute, rl_count, consults, granted, prompt, resets>>

StoreCount(a) ==
  /\ advisor[a].at = "zero"
  /\ rl_count' = 0 /\ resets' = [resets EXCEPT ![minute] = @ + 1]
  /\ At(a, "count")
  /\ UNCHANGED <<minute, rl_window_start, consults, granted, prompt>>

\* Mutant of WithinBudget: one call too many.
WithinBudgetOff(count) == count <= LlmBudget

WithinBudget(count) == count < LlmBudget

\* fetch_add; a call over the budget gives no advice.  One within it recalls
\* memories, builds the prompt and asks; an error of the model is no advice.
FetchAdd(a) ==
  /\ advisor[a].at = "count"
  /\ rl_count' = rl_count + 1
  /\ granted' = IF WithinBudget(rl_count) THEN [granted EXCEPT ![minute] = @ + 1] ELSE granted
  /\ prompt' = IF WithinBudget(rl_count) /\ advisor[a].now = minute
               THEN [prompt EXCEPT ![minute] = @ + 1] ELSE prompt
  /\ At(a, "idle")
  /\ UNCHANGED <<minute, rl_window_start, consults, resets>>

MinutePasses ==
  /\ minute < MaxMinutes /\ minute' = minute + 1
  /\ UNCHANGED <<rl_window_start, rl_count, advisor, consults, granted, prompt, resets>>

LlmNext ==
  \/ \E a \in Advisors : Consult(a) \/ LoadWindow(a) \/ StoreWindow(a) \/ StoreCount(a) \/ FetchAdd(a)
  \/ MinutePasses

LlmSpec == LlmInit /\ [][LlmNext]_llmVars

-----------------------------------------------------------------------------
\* What the module's header and LlmBudget say: a "per-process budget caps the
\* maximum number of LLM calls per minute", and excess calls get no advice.  Even
\* of the calls that begin and are let through within one minute there are more.
BudgetPerMinute == \A m \in 0 .. MaxMinutes : prompt[m] <= LlmBudget

\* What the code does keep: more than max_calls_per_minute calls go out in one minute only when
\* racing threads set the count to zero again within it, each reset being
\* worth at most one more budget.
OverrunNeedsReset == \A m \in 0 .. MaxMinutes : granted[m] <= LlmBudget * (resets[m] + 1)
=============================================================================
