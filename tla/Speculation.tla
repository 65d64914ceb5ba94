----------------------------- MODULE Speculation -----------------------------
(***************************************************************************)
(* fork_and_race over execute_tool_from_snapshot: the branches are futures *)
(* of one task, polled in order.  Without a pool a branch runs to its end  *)
(* in the poll that starts it.  With one it waits for a permit and then    *)
(* for a task on the blocking pool, and dropping the future, by a timeout  *)
(* or because another branch won, does not stop that task.                 *)
(***************************************************************************)
EXTENDS Integers, Sequences, FiniteSets

CONSTANTS
  Branches,     \* the branches raced, 1 .. n after the cap on max_branches
  Slots         \* permits of the pool

ASSUME RaceAssumption == Branches \in Nat \ {0} /\ Slots \in Nat \ {0}

VARIABLES
  pooled,       \* pool_config is set
  waitAll,      \* selection_strategy is WaitAll, not FirstSuccess
  exporting,    \* branches whose module exports its memory
  branch,       \* branch -> the state of its future
  job,          \* branch -> its blocking task: none, running, done
  free,         \* permits left
  completed,    \* outcomes in completion order: <<branch, succeeded>>
  winner,       \* 0 while racing, the winner, or -1: every branch failed
  slot          \* the branch whose snapshot current_snapshot holds; 0: none

raceConfig == <<pooled, waitAll, exporting>>
raceVars == <<raceConfig, branch, job, free, completed, winner, slot>>
Bs == 1 .. Branches

RaceInit ==
  /\ pooled \in BOOLEAN /\ waitAll \in BOOLEAN /\ exporting \in SUBSET Bs
  /\ branch = [b \in Bs |-> "queued"] /\ job = [b \in Bs |-> "none"]
  /\ free = Slots /\ completed = <<>> /\ winner = 0 /\ slot = 0

\* Futures are first polled in the order they were pushed.
NextToPoll(b) == branch[b] = "queued" /\ \A a \in 1 .. b - 1 : branch[a] # "queued"

\* Mutant of Wins: a branch that finished without success wins too.
WinsAnyway(success) == ~waitAll

\* A success ends the race at once under FirstSuccess.
Wins(success) == success /\ ~waitAll

\* running.next() yields the outcome of b.
Yield(b, success) ==
  /\ completed' = Append(completed, <<b, success>>)
  /\ winner' = IF Wins(success) THEN b ELSE 0

\* The run of b is over: rollback, snapshot, verdict and telemetry follow
\* without another await.  A run that gave an output leaves a snapshot in the
\* slot if its memory is exported, and its output may still be rejected.
Finish(b) ==
  /\ branch' = [branch EXCEPT ![b] = "completed"]
  /\ \/ Yield(b, TRUE) /\ slot' = IF b \in exporting THEN b ELSE slot
     \/ Yield(b, FALSE) /\ slot' \in {slot} \cup ({b} \cap exporting)

\* The first poll of b: its base snapshot is gone, or the run starts.
Poll(b) ==
  /\ winner = 0 /\ NextToPoll(b)
  /\ \/ /\ branch' = [branch EXCEPT ![b] = "completed"] /\ Yield(b, FALSE)
        /\ UNCHANGED <<raceConfig, job, free, slot>>
     \/ ~pooled /\ Finish(b) /\ UNCHANGED <<raceConfig, job, free>>
     \/ /\ pooled /\ branch' = [branch EXCEPT ![b] = "acquire"]
        /\ UNCHANGED <<raceConfig, job, free, completed, winner, slot>>

\* SandboxPool::acquire, and spawn_blocking with the permit moved into it.
Spawn(b) ==
  /\ winner = 0 /\ branch[b] = "acquire" /\ free > 0
  /\ branch' = [branch EXCEPT ![b] = "join"] /\ job' = [job EXCEPT ![b] = "running"]
  /\ free' = free - 1
  /\ UNCHANGED <<raceConfig, completed, winner, slot>>

\* The blocking task returns and drops the permit, whoever waits for it.
TaskEnds(b) ==
  /\ job[b] = "running"
  /\ job' = [job EXCEPT ![b] = "done"]
  /\ free' = free + 1
  /\ UNCHANGED <<raceConfig, branch, completed, winner, slot>>

\* The await on the task is over.
Resume(b) ==
  /\ winner = 0 /\ branch[b] = "join" /\ job[b] = "done"
  /\ Finish(b)
  /\ UNCHANGED <<raceConfig, job, free>>

\* tokio::time::timeout: only a branch that is waiting can be cut off.
TimeOut(b) ==
  /\ winner = 0
  /\ \/ branch[b] = "acquire"
     \/ branch[b] = "join" /\ job[b] = "running"
  /\ branch' = [branch EXCEPT ![b] = "completed"]
  /\ Yield(b, FALSE)
  /\ UNCHANGED <<raceConfig, job, free, slot>>

\* No branch is left: the first success in completion order, or an error.
Conclude ==
  /\ winner = 0 /\ \A b \in Bs : branch[b] = "completed"
  /\ LET won == {n \in DOMAIN completed : completed[n][2]}
     IN  winner' = IF won = {} THEN -1
                   ELSE completed[CHOOSE n \in won : \A m \in won : n <= m][1]
  /\ UNCHANGED <<raceConfig, branch, job, free, completed, slot>>

RaceNext ==
  \/ \E b \in Bs : Poll(b) \/ Spawn(b) \/ TaskEnds(b) \/ Resume(b) \/ TimeOut(b)
  \/ Conclude

RaceSpec == RaceInit /\ [][RaceNext]_raceVars

-----------------------------------------------------------------------------
\* When a race is won at once, the winner ran last: if its memory is exported,
\* the snapshot the hypervisor holds is the winner's, whatever the losers did
\* before; a losing branch that is still running never touches it again.
WinnerHoldsSlot == winner \in exporting /\ ~waitAll => slot = winner

=============================================================================
