--------------------------- MODULE SnapshotStore ---------------------------
(***************************************************************************)
(* What the snapshot manager promises its callers: a window of the newest  *)
(* full snapshots, in the order they were taken, and a forest of diffs     *)
(* over everything that was ever taken.  A snapshot can be restored while  *)
(* the full snapshot at the bottom of its chain is in the window.          *)
(***************************************************************************)
EXTENDS Integers, Sequences, FiniteSets

CONSTANTS
  Ids,       \* snapshot ids
  Capacity   \* full snapshots to keep

VARIABLES
  retained,  \* the full snapshots that are kept, oldest first
  parent,    \* diff -> the snapshot it is based on
  known      \* ids that have been given to a snapshot

store == <<retained, parent, known>>

\* The newest snapshot is always kept
Limit == IF Capacity = 0 THEN 1 ELSE Capacity

Init ==
  /\ retained = << >>
  /\ parent = [id \in {} |-> 0]
  /\ known = {}

TakeFull(id) ==
  /\ id \in Ids \ known
  /\ known' = known \cup {id}
  /\ retained' = LET all == Append(retained, id)
                 IN  IF Len(all) > Limit THEN Tail(all) ELSE all
  /\ UNCHANGED parent

TakeDiff(id, base) ==
  /\ id \in Ids \ known
  /\ base \in known
  /\ known' = known \cup {id}
  /\ parent' = [d \in DOMAIN parent \cup {id} |->
                  IF d = id THEN base ELSE parent[d]]
  /\ UNCHANGED retained

\* The process ends: nothing is kept, and no id is given out again
Lose ==
  /\ retained' = << >>
  /\ parent' = [id \in {} |-> 0]
  /\ known \subseteq known' /\ known' \subseteq Ids

Next == \/ \E id \in Ids : TakeFull(id) \/ \E base \in known : TakeDiff(id, base)
        \/ Lose

Spec == Init /\ [][Next]_store

(***************************************************************************)
(* Chains.                                                                 *)
(***************************************************************************)
Kept == {retained[i] : i \in DOMAIN retained}

\* The snapshots at and below `id`, up to n steps down
Below(id, n) ==
  LET down[k \in 0 .. n] ==
        IF k = 0 THEN {id}
        ELSE down[k - 1] \cup {parent[d] : d \in down[k - 1] \cap DOMAIN parent}
  IN  down[n]

\* How many diffs lie between `id` and the full snapshot below it
Depth(id, n) == Cardinality(Below(id, n)) - 1

\* The walk of rollback_to_diff and reconstruct_memory_for finds a full
\* snapshot
Restorable(id, n) == Below(id, n) \cap Kept # {}
=============================================================================
