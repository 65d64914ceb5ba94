--------------------------- MODULE SnapshotLineage ---------------------------
(***************************************************************************)
(* LineageStore: head updates of one agent, made on several nodes from the *)
(* heads they see, arrive everywhere in any order and any number of times. *)
(* Timestamps come from hybrid logical clocks over physical clocks that    *)
(* may disagree and jump back.                                             *)
(***************************************************************************)
EXTENDS Integers, Sequences, FiniteSets

CONSTANTS
  Sites,          \* nodes with a LineageStore
  MaxHeads,       \* bound: updates made; digests are 1 .. MaxHeads
  MaxMillis,      \* bound on the physical clocks
  MaxLogical      \* bound on the logical clocks

ASSUME LineageAssumption == MaxHeads \in Nat /\ MaxMillis \in Nat /\ MaxLogical \in Nat

VARIABLES
  made,           \* digest -> the update: its parent (0: none) and its hlc
  lineage,        \* site -> [nodes, heads, forks]
  hlc,            \* site -> HlcTimestamp: <<physical, logical>>
  seenHlc         \* history: site -> the greatest timestamp it issued or saw

lineageVars == <<made, lineage, hlc, seenHlc>>

LineageInit ==
  /\ made = <<>>
  /\ lineage = [s \in Sites |-> [nodes |-> {}, heads |-> {}, forks |-> {}]]
  /\ hlc = [s \in Sites |-> <<0, 0>>] /\ seenHlc = [s \in Sites |-> <<0, 0>>]

Before(x, y) == x[1] < y[1] \/ (x[1] = y[1] /\ x[2] < y[2])

\* HlcTimestamp::tick, with the physical clock at now.
Tick(h, now) == IF now > h[1] THEN <<now, 0>> ELSE <<h[1], h[2] + 1>>

Greater(x, y) == IF x >= y THEN x ELSE y

\* Mutant of Update: an observed timestamp ahead of the clock keeps its count.
UpdateStale(h, seen, now) ==
  LET p == Greater(now, Greater(h[1], seen[1]))
  IN  <<p, IF p = h[1] /\ p = seen[1] THEN Greater(h[2], seen[2]) + 1
           ELSE IF p = h[1] THEN h[2] + 1 ELSE IF p = seen[1] THEN seen[2] ELSE 0>>

\* HlcTimestamp::update.
Update(h, seen, now) ==
  LET p == Greater(now, Greater(h[1], seen[1]))
  IN  <<p, IF p = h[1] /\ p = seen[1] THEN Greater(h[2], seen[2]) + 1
           ELSE IF p = h[1] THEN h[2] + 1 ELSE IF p = seen[1] THEN seen[2] + 1 ELSE 0>>

-----------------------------------------------------------------------------
\* is_ancestor_digest: parent links, as far as the store knows them.
Ancestors(updates, nodes, d) ==
  LET Walk[e \in 0 .. MaxHeads] ==
        IF e = 0 THEN {} ELSE IF e \notin nodes THEN {e} ELSE {e} \cup Walk[updates[e].parent]
  IN  Walk[d]

\* Mutant of Visible: a new head is shown even above a known descendant.
VisibleAlways(new, descendants) == {new}

\* A head is shown only when no shown head descends from it.
Visible(new, descendants) == IF descendants = {} THEN {new} ELSE {}

\* apply_head.
ApplyHead(updates, store, d) ==
  LET nodes == store.nodes \cup {d}
      replaced == {h \in store.heads : h \in Ancestors(updates, nodes, d)}
      descendants == {h \in store.heads \ replaced : d \in Ancestors(updates, nodes, h)}
      forked == store.heads \ (replaced \cup descendants)
  IN  IF d \in store.nodes THEN store
      ELSE [nodes |-> nodes,
            heads |-> (store.heads \ replaced) \cup Visible(d, descendants),
            forks |-> store.forks \cup {{h, d} : h \in forked}]

Later(x, y) == IF Before(x, y) THEN y ELSE x

\* A site takes a snapshot on top of one of its heads, or the first it knows.
Make(s, parent, now) ==
  /\ Len(made) < MaxHeads
  /\ parent \in IF lineage[s].heads = {} THEN {0} ELSE lineage[s].heads
  /\ hlc' = [hlc EXCEPT ![s] = Tick(@, now)]
  /\ seenHlc' = [seenHlc EXCEPT ![s] = Later(@, hlc[s])]
  /\ made' = Append(made, [parent |-> parent, hlc |-> hlc'[s]])
  /\ lineage' = [lineage EXCEPT ![s] = ApplyHead(made', @, Len(made'))]

\* An update arrives: in any order, and perhaps again.
Deliver(s, d, now) ==
  /\ hlc' = [hlc EXCEPT ![s] = Update(@, made[d].hlc, now)]
  /\ seenHlc' = [seenHlc EXCEPT ![s] = Later(@, Later(hlc[s], made[d].hlc))]
  /\ lineage' = [lineage EXCEPT ![s] = ApplyHead(made, @, d)]
  /\ UNCHANGED made

\* logical is a u64 that saturates; the bound keeps the model finite.
LineageNext ==
  \E s \in Sites, now \in 0 .. MaxMillis :
    /\ hlc[s][2] < MaxLogical
    /\ \/ \E parent \in 0 .. MaxHeads : Make(s, parent, now)
       \/ \E d \in DOMAIN made : Deliver(s, d, now)

LineageSpec == LineageInit /\ [][LineageNext]_lineageVars

-----------------------------------------------------------------------------
\* In whatever order the updates of a lineage arrive, the heads a store shows
\* are exactly the updates nothing it knows descends from, and any two of them
\* were surfaced as a fork.
HeadsAreLeaves ==
  \A s \in Sites :
    LET known == lineage[s].nodes
    IN  /\ lineage[s].heads = {d \in known : \A e \in known \ {d} : d \notin Ancestors(made, known, e)}
        /\ \A d, e \in lineage[s].heads : d = e \/ {d, e} \in lineage[s].forks

\* A site's timestamp is later than every one it issued or observed before,
\* although its physical clock may stand still or go back.
HlcCausal == \A s \in Sites : hlc[s] = <<0, 0>> \/ Before(seenHlc[s], hlc[s])
=============================================================================
