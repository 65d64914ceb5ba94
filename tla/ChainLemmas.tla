---------------------------- MODULE ChainLemmas -----------------------------
(***************************************************************************)
(* Facts that the proofs about chains share.  A statement about every      *)
(* natural number is proved by looking at the least one that violates it   *)
(* (LeastNat); a recursive function is shown to satisfy its own equation   *)
(* by looking at the least domain on which no function does.               *)
(*                                                                         *)
(* Chain(parent, id, n) is the walk of SnapshotStore for any parent        *)
(* function: Chain(parent, id, n)[k] are the snapshots at and up to k      *)
(* steps below `id'.                                                       *)
(***************************************************************************)
EXTENDS Integers, FiniteSets, FiniteSetTheorems, WellFoundedInduction, TLAPS

\* Every set of natural numbers with an element has a least one.
LEMMA LeastNat ==
  ASSUME NEW T \in SUBSET Nat, T # {}
  PROVE  \E n \in T : \A m \in T : n <= m
<1>1. \E n \in T : \A m \in T : ~(<<m, n>> \in OpToRel(<, Nat))
  BY NatLessThanWellFounded, WFMin
<1>2. \E n \in T : \A m \in T : ~(m < n)
  BY <1>1 DEF OpToRel
<1> QED BY <1>2

\* A set of natural numbers that holds 0 and the successor of every member
\* below n holds everything up to n.
LEMMA NatUpTo ==
  ASSUME NEW n \in Nat, NEW S, 0 \in S, \A k \in 0 .. n : k # n /\ k \in S => k + 1 \in S
  PROVE  \A k \in 0 .. n : k \in S
<1> DEFINE Bad == {k \in 0 .. n : k \notin S}
<1>1. SUFFICES ASSUME Bad # {} PROVE FALSE
  OBVIOUS
<1>2. PICK k \in Bad : \A j \in Bad : k <= j
  <2>1. Bad \in SUBSET Nat
    OBVIOUS
  <2> QED BY <1>1, <2>1, LeastNat
<1>3. k \in 0 .. n /\ k \notin S /\ k # 0
  BY <1>2
<1>4. k - 1 \in 0 .. n /\ k - 1 # n /\ k - 1 \notin Bad
  BY <1>2, <1>3
<1>5. (k - 1) + 1 \in S
  BY <1>4
<1> QED BY <1>3, <1>5

\* A set that holds a number as soon as it holds all smaller ones holds
\* everything up to n.
LEMMA NatStrong ==
  ASSUME NEW n \in Nat, NEW S,
         \A k \in 0 .. n : (\A j \in 0 .. n : j < k => j \in S) => k \in S
  PROVE  \A k \in 0 .. n : k \in S
<1> DEFINE Bad == {k \in 0 .. n : k \notin S}
<1>1. SUFFICES ASSUME Bad # {} PROVE FALSE
  OBVIOUS
<1>2. PICK k \in Bad : \A j \in Bad : k <= j
  <2>1. Bad \in SUBSET Nat
    OBVIOUS
  <2> QED BY <1>1, <2>1, LeastNat
<1>3. \A j \in 0 .. n : j < k => j \in S
  BY <1>2
<1> QED BY <1>2, <1>3

\* A set of numbers up to n with an element has a greatest one.
LEMMA GreatestUpTo ==
  ASSUME NEW n \in Nat, NEW T \in SUBSET (0 .. n), T # {}
  PROVE  \E k \in T : \A j \in T : j <= k
<1> DEFINE U == {n - k : k \in T}
<1>1. U \in SUBSET Nat /\ U # {}
  <2>1. \A k \in T : n - k \in Nat
    OBVIOUS
  <2>2. PICK k : k \in T
    OBVIOUS
  <2>3. n - k \in U
    BY <2>2
  <2> QED BY <2>1, <2>3, Zenon
<1>2. PICK u \in U : \A v \in U : u <= v
  BY <1>1, LeastNat
<1>3. PICK k \in T : u = n - k
  BY <1>2
<1>4. ASSUME NEW j \in T PROVE j <= k
  <2>1. n - j \in U
    OBVIOUS
  <2> QED BY <1>2, <1>3, <2>1, SMTT(30)
<1> QED BY <1>4

-----------------------------------------------------------------------------
\* One step down: a set of snapshots and their parents.
Parents(parent, S) == {parent[d] : d \in S \cap DOMAIN parent}

Chain(parent, id, n) ==
  LET down[k \in 0 .. n] ==
        IF k = 0 THEN {id} ELSE down[k - 1] \cup Parents(parent, down[k - 1])
  IN  down

\* g satisfies the equation of the walk up to n.
WalkOf(parent, id, n, g) ==
  g = [k \in 0 .. n |-> IF k = 0 THEN {id}
                        ELSE g[k - 1] \cup Parents(parent, g[k - 1])]

LEMMA ChainWalks ==
  ASSUME NEW parent, NEW id, NEW n \in Nat
  PROVE  WalkOf(parent, id, n, Chain(parent, id, n))
<1> DEFINE Bad == {m \in Nat : ~ \E g : WalkOf(parent, id, m, g)}
<1>1. Bad = {}
  <2>1. SUFFICES ASSUME Bad # {} PROVE FALSE
    OBVIOUS
  <2>2. PICK m \in Bad : \A k \in Bad : m <= k
    BY <2>1, LeastNat
  <2>3. CASE m = 0
    <3> DEFINE g == [k \in 0 .. 0 |-> {id}]
    <3>1. WalkOf(parent, id, 0, g)
      BY DEF WalkOf
    <3> QED BY <2>2, <2>3, <3>1
  <2>4. CASE m # 0
    <3>1. m \in Nat /\ m - 1 \in Nat /\ m - 1 \notin Bad
      BY <2>2, <2>4
    <3>2. PICK g : WalkOf(parent, id, m - 1, g)
      BY <3>1
    <3> DEFINE h == [k \in 0 .. m |-> IF k = 0 THEN {id} ELSE g[k - 1] \cup Parents(parent, g[k - 1])]
    <3>3. \A k \in 0 .. m - 1 : h[k] = g[k]
      <4>1. g = [k \in 0 .. m - 1 |-> IF k = 0 THEN {id} ELSE g[k - 1] \cup Parents(parent, g[k - 1])]
        BY <3>2 DEF WalkOf
      <4>2. \A k \in 0 .. m - 1 : k \in 0 .. m
        BY <3>1
      <4> QED BY <4>1, <4>2, Zenon
    <3>4. \A k \in 0 .. m : k # 0 => k - 1 \in 0 .. m - 1
      BY <3>1
    <3> HIDE DEF h
    <3>5. \A k \in 0 .. m : (IF k = 0 THEN {id} ELSE h[k - 1] \cup Parents(parent, h[k - 1]))
                            = (IF k = 0 THEN {id} ELSE g[k - 1] \cup Parents(parent, g[k - 1]))
      BY <3>3, <3>4
    <3>6. WalkOf(parent, id, m, h)
      BY <3>5, Zenon DEF WalkOf, h
    <3> QED BY <2>2, <3>6
  <2> QED BY <2>3, <2>4
<1>2. \E g : WalkOf(parent, id, n, g)
  BY <1>1
<1> QED BY <1>2, Zenon DEF WalkOf, Chain

\* The equation, point by point.
LEMMA ChainStep ==
  ASSUME NEW parent, NEW id, NEW n \in Nat
  PROVE  /\ Chain(parent, id, n)[0] = {id}
         /\ \A k \in 0 .. n : k # n =>
              Chain(parent, id, n)[k + 1] =
                Chain(parent, id, n)[k] \cup Parents(parent, Chain(parent, id, n)[k])
<1> DEFINE D == Chain(parent, id, n)
<1>1. D = [k \in 0 .. n |-> IF k = 0 THEN {id} ELSE D[k - 1] \cup Parents(parent, D[k - 1])]
  BY ChainWalks DEF WalkOf
<1> HIDE DEF D
<1>2. D[0] = {id}
  BY <1>1
<1>3. ASSUME NEW k \in 0 .. n, k # n PROVE D[k + 1] = D[k] \cup Parents(parent, D[k])
  <2>1. k + 1 \in 0 .. n /\ k + 1 # 0 /\ (k + 1) - 1 = k
    BY <1>3
  <2> QED BY <1>1, <2>1
<1> QED BY <1>2, <1>3 DEF D

\* A snapshot is at the top of its own chain.
LEMMA ChainHasTop ==
  ASSUME NEW parent, NEW id, NEW n \in Nat, NEW k \in 0 .. n
  PROVE  id \in Chain(parent, id, n)[k]
<1> DEFINE S == {j \in 0 .. n : id \in Chain(parent, id, n)[j]}
<1>1. 0 \in S
  BY ChainStep
<1>2. \A j \in 0 .. n : j # n /\ j \in S => j + 1 \in S
  BY ChainStep
<1>3. \A j \in 0 .. n : j \in S
  <2> HIDE DEF S
  <2> QED BY <1>1, <1>2, NatUpTo
<1> QED BY <1>3

\* q has the parents of p on K, and they are in K again.
Agree(p, q, K) ==
  /\ \A d \in K : d \in DOMAIN p <=> d \in DOMAIN q
  /\ \A d \in K : d \in DOMAIN p => p[d] \in K /\ q[d] = p[d]

\* Then the two have the same chains there, and they stay in the set.
LEMMA ChainStable ==
  ASSUME NEW p, NEW q, NEW K, NEW id \in K, NEW n \in Nat, NEW k \in 0 .. n, Agree(p, q, K)
  PROVE  Chain(q, id, n)[k] = Chain(p, id, n)[k] /\ Chain(p, id, n)[k] \subseteq K
<1> DEFINE S == {j \in 0 .. n : /\ Chain(q, id, n)[j] = Chain(p, id, n)[j]
                                /\ Chain(p, id, n)[j] \subseteq K}
<1>1. 0 \in S
  <2>1. Chain(q, id, n)[0] = {id} /\ Chain(p, id, n)[0] = {id}
    BY ChainStep
  <2> QED BY <2>1
<1>2. ASSUME NEW j \in 0 .. n, j # n, j \in S PROVE j + 1 \in S
  <2> DEFINE D == Chain(p, id, n)[j]
  <2>1. D \subseteq K /\ Chain(q, id, n)[j] = D
    BY <1>2
  <2>2. Parents(q, D) = Parents(p, D) /\ Parents(p, D) \subseteq K
    <3> HIDE DEF D
    <3> QED BY <2>1 DEF Parents, Agree
  <2>3. /\ Chain(p, id, n)[j + 1] = D \cup Parents(p, D)
        /\ Chain(q, id, n)[j + 1] = D \cup Parents(q, D)
    BY <1>2, <2>1, ChainStep
  <2>4. j + 1 \in 0 .. n
    BY <1>2
  <2> QED BY <2>1, <2>2, <2>3, <2>4
<1>3. \A j \in 0 .. n : j \in S
  <2> HIDE DEF S
  <2> QED BY <1>1, <1>2, NatUpTo
<1> QED BY <1>3

\* The chain of a diff is the diff on top of the chain of its parent.
LEMMA ChainOfDiff ==
  ASSUME NEW p, NEW id, id \in DOMAIN p, NEW n \in Nat, NEW k \in 0 .. n, k # n
  PROVE  Chain(p, id, n)[k + 1] = {id} \cup Chain(p, p[id], n)[k]
<1> DEFINE D == Chain(p, id, n)
           B == Chain(p, p[id], n)
           S == {j \in 0 .. n : j # n => D[j + 1] = {id} \cup B[j]}
<1>1. /\ D[0] = {id} /\ B[0] = {p[id]}
      /\ \A j \in 0 .. n : j # n => /\ D[j + 1] = D[j] \cup Parents(p, D[j])
                                    /\ B[j + 1] = B[j] \cup Parents(p, B[j])
      /\ \A j \in 0 .. n : p[id] \in B[j]
  <2>1. D[0] = {id} /\ B[0] = {p[id]}
    BY ChainStep
  <2>2. \A j \in 0 .. n : j # n => /\ D[j + 1] = D[j] \cup Parents(p, D[j])
                                   /\ B[j + 1] = B[j] \cup Parents(p, B[j])
    BY ChainStep
  <2>3. \A j \in 0 .. n : p[id] \in B[j]
    BY ChainHasTop
  <2> QED BY <2>1, <2>2, <2>3
<1> HIDE DEF D, B
<1>2. 0 \in S
  <2>1. Parents(p, {id}) = {p[id]}
    BY DEF Parents
  <2>2. 0 \in 0 .. n
    OBVIOUS
  <2>3. 0 # n => D[0 + 1] = D[0] \cup Parents(p, D[0])
    BY <1>1, <2>2, Zenon
  <2>4. 0 # n => D[0 + 1] = {id} \cup B[0]
    BY <1>1, <2>1, <2>3, Zenon
  <2> QED BY <2>2, <2>4, Zenon
<1>3. ASSUME NEW j \in 0 .. n, j # n, j \in S PROVE j + 1 \in S
  <2>1. j + 1 \in 0 .. n
    BY <1>3
  <2>2. SUFFICES ASSUME j + 1 # n PROVE D[(j + 1) + 1] = {id} \cup B[j + 1]
    BY <2>1
  <2>3. D[j + 1] = {id} \cup B[j]
    BY <1>3
  <2>4. D[(j + 1) + 1] = D[j + 1] \cup Parents(p, D[j + 1])
    BY <1>1, <2>1, <2>2
  <2>5. Parents(p, {id} \cup B[j]) = {p[id]} \cup Parents(p, B[j])
    BY DEF Parents
  <2>6. B[j + 1] = B[j] \cup Parents(p, B[j]) /\ p[id] \in B[j]
    BY <1>1, <1>3
  <2> QED BY <2>3, <2>4, <2>5, <2>6
<1>4. \A j \in 0 .. n : j \in S
  <2> HIDE DEF S
  <2> QED BY <1>2, <1>3, NatUpTo
<1> QED BY <1>4 DEF D, B

\* A chain is finite, and it has ended by the time it is no longer than the
\* number of its steps: the last step has added nothing.
LEMMA ChainEnds ==
  ASSUME NEW p, NEW id, NEW n \in Nat
  PROVE  /\ IsFiniteSet(Chain(p, id, n)[n])
         /\ Cardinality(Chain(p, id, n)[n]) \in Nat \ {0}
         /\ Cardinality(Chain(p, id, n)[n]) <= n =>
              n # 0 /\ Chain(p, id, n)[n - 1] = Chain(p, id, n)[n]
<1> DEFINE D == Chain(p, id, n)
<1>1. /\ D[0] = {id}
      /\ \A j \in 0 .. n : j # n => D[j + 1] = D[j] \cup Parents(p, D[j])
      /\ id \in D[n]
  BY ChainStep, ChainHasTop
<1> HIDE DEF D
<1>2. \A j \in 0 .. n : IsFiniteSet(D[j])
  <2> DEFINE S == {j \in 0 .. n : IsFiniteSet(D[j])}
  <2>1. 0 \in S
    BY <1>1, FS_Singleton
  <2>2. ASSUME NEW j \in 0 .. n, j # n, j \in S PROVE j + 1 \in S
    <3>1. IsFiniteSet(D[j] \cap DOMAIN p)
      BY <2>2, FS_Subset
    <3>2. IsFiniteSet(Parents(p, D[j]))
      <4> DEFINE f == [d \in D[j] \cap DOMAIN p |-> p[d]]
      <4>1. Range(f) = Parents(p, D[j])
        BY DEF Range, Parents
      <4>2. f \in Surjection(D[j] \cap DOMAIN p, Parents(p, D[j]))
        BY <4>1 DEF Surjection, Range, Parents
      <4> QED BY <3>1, <4>2, FS_Surjection
    <3>3. IsFiniteSet(D[j] \cup Parents(p, D[j]))
      BY <2>2, <3>2, FS_Union
    <3> QED BY <1>1, <2>2, <3>3
  <2>3. \A j \in 0 .. n : j \in S
    <3> HIDE DEF S
    <3> QED BY <2>1, <2>2, NatUpTo
  <2> QED BY <2>3
<1>3. IsFiniteSet(D[n]) /\ Cardinality(D[n]) \in Nat /\ Cardinality(D[n]) # 0
  BY <1>1, <1>2, FS_CardinalityType, FS_EmptySet
\* Once a step has added nothing, no later one adds anything.
<1>4. ASSUME NEW i \in 0 .. n, i # n, D[i + 1] = D[i]
      PROVE  \A j \in 0 .. n : j >= i => D[j] = D[i]
  <2> DEFINE S == {j \in 0 .. n : j >= i => D[j] = D[i]}
  <2>1. 0 \in S
    BY <1>4
  <2>2. ASSUME NEW j \in 0 .. n, j # n, j \in S PROVE j + 1 \in S
    <3>1. CASE j < i
      BY <2>2, <3>1
    <3>2. CASE j >= i
      <4>1. D[j] = D[i]
        BY <2>2, <3>2
      <4>2. D[j + 1] = D[i] \cup Parents(p, D[i]) /\ D[i + 1] = D[i] \cup Parents(p, D[i])
        BY <1>1, <1>4, <2>2, <4>1
      <4> QED BY <1>4, <2>2, <4>2
    <3> QED BY <2>2, <3>1, <3>2
  <2>3. \A j \in 0 .. n : j \in S
    <3> HIDE DEF S
    <3> QED BY <2>1, <2>2, NatUpTo
  <2> QED BY <2>3
\* While every step adds something, the chain is longer than its steps.
<1>5. ASSUME n # 0, D[n - 1] # D[n]
      PROVE  Cardinality(D[n]) >= n + 1
  <2> DEFINE S == {j \in 0 .. n : Cardinality(D[j]) >= j + 1}
  <2>1. 0 \in S
    BY <1>1, FS_Singleton
  <2>2. ASSUME NEW j \in 0 .. n, j # n, j \in S PROVE j + 1 \in S
    <3>1. D[j + 1] # D[j]
      <4>1. n - 1 \in 0 .. n /\ n - 1 >= j /\ n >= j
        BY <1>5, <2>2
      <4>2. D[j + 1] = D[j] => D[n - 1] = D[j] /\ D[n] = D[j]
        BY <1>4, <2>2, <4>1
      <4> QED BY <1>5, <4>2
    <3>2. D[j] \subseteq D[j + 1] /\ j + 1 \in 0 .. n
      BY <1>1, <2>2
    <3>3. /\ Cardinality(D[j]) \in Nat /\ Cardinality(D[j + 1]) \in Nat
          /\ Cardinality(D[j]) <= Cardinality(D[j + 1])
          /\ Cardinality(D[j]) # Cardinality(D[j + 1])
      BY <1>2, <3>1, <3>2, FS_Subset, FS_CardinalityType
    <3> QED BY <2>2, <3>2, <3>3
  <2>3. \A j \in 0 .. n : j \in S
    <3> HIDE DEF S
    <3> QED BY <2>1, <2>2, NatUpTo
  <2> QED BY <2>3
<1>6. ASSUME Cardinality(D[n]) <= n PROVE n # 0 /\ D[n - 1] = D[n]
  <2>1. n # 0
    BY <1>3, <1>6
  <2> QED BY <1>3, <1>5, <1>6, <2>1
<1> QED BY <1>3, <1>6 DEF D
=============================================================================
