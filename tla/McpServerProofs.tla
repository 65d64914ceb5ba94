-------------------------- MODULE McpServerProofs ---------------------------
(***************************************************************************)
(* Capability tokens and the calls of the MCP server, for any clients,     *)
(* requests, environments and capabilities, any number of tokens and any   *)
(* depth of attenuation.                                                   *)
(*                                                                         *)
(* Containment of capabilities is transitive except through a namespace of *)
(* memory, so what a token is accepted for, every ancestor of it grants;   *)
(* and a chain of at most MaxChainDepth links, whose depths fall by one,   *)
(* reaches the token that was issued.  What a call runs with and what its  *)
(* capsule claims follow from its own record, stage by stage, which no     *)
(* other call writes; that it stays inside the operator's policy follows   *)
(* from what every token ever signed allows.                               *)
(***************************************************************************)
EXTENDS McpServer, WasiMounts, ChainLemmas, SequenceTheorems

\* g is what normalize_lexical_path has after each of the first n components.
NormalizedUpTo(path, n, g) ==
  g = [i \in 0 .. n |->
        IF i = 0 THEN <<>>
        ELSE IF path[i] # ".." THEN Append(g[i - 1], path[i])
        ELSE IF g[i - 1] = <<>> THEN <<>> ELSE Front(g[i - 1])]

LEMMA FrontIsPath ==
  ASSUME NEW S, NEW s \in Seq(S), s # <<>>
  PROVE  Front(s) \in Seq(S)
BY SubSeqProperties DEF Front

LEMMA NormalizeWalks ==
  ASSUME NEW path, NEW n \in Nat
  PROVE  \E g : NormalizedUpTo(path, n, g)
<1> DEFINE S == {m \in 0 .. n : \E g : NormalizedUpTo(path, m, g)}
<1>1. 0 \in S
  <2> DEFINE g == [i \in 0 .. 0 |-> <<>>]
  <2>1. NormalizedUpTo(path, 0, g)
    BY DEF NormalizedUpTo
  <2> QED BY <2>1
<1>2. ASSUME NEW m \in 0 .. n, m # n, m \in S PROVE m + 1 \in S
  <2>1. PICK g : NormalizedUpTo(path, m, g)
    BY <1>2
  <2> DEFINE h == [i \in 0 .. m + 1 |->
                    IF i = 0 THEN <<>>
                    ELSE IF path[i] # ".." THEN Append(g[i - 1], path[i])
                    ELSE IF g[i - 1] = <<>> THEN <<>> ELSE Front(g[i - 1])]
  <2>2. \A i \in 0 .. m : i \in 0 .. m + 1
    OBVIOUS
  <2>3. \A i \in 0 .. m : h[i] = g[i]
    BY <2>1, <2>2, Zenon DEF NormalizedUpTo
  <2> HIDE DEF h
  <2>4. \A i \in 0 .. m + 1 : i # 0 => h[i - 1] = g[i - 1]
    BY <2>3
  <2>5. \A i \in 0 .. m + 1 :
           (IF i = 0 THEN <<>>
            ELSE IF path[i] # ".." THEN Append(g[i - 1], path[i])
            ELSE IF g[i - 1] = <<>> THEN <<>> ELSE Front(g[i - 1]))
         = (IF i = 0 THEN <<>>
            ELSE IF path[i] # ".." THEN Append(h[i - 1], path[i])
            ELSE IF h[i - 1] = <<>> THEN <<>> ELSE Front(h[i - 1]))
    BY <2>4, Zenon
  <2>6. NormalizedUpTo(path, m + 1, h)
    BY <2>5, Zenon DEF NormalizedUpTo, h
  <2> QED BY <1>2, <2>6
<1>3. \A m \in 0 .. n : m \in S
  <2> HIDE DEF S
  <2> QED BY <1>1, <1>2, NatUpTo
<1> QED BY <1>3

\* A normalized path is a path.
LEMMA NormalizeType ==
  ASSUME NEW path \in Seq(STRING)
  PROVE  NormalizePath(path) \in Seq(STRING)
<1>0. Len(path) \in Nat /\ \A i \in 1 .. Len(path) : path[i] \in STRING
  OBVIOUS
<1>1. PICK g : NormalizedUpTo(path, Len(path), g)
  BY <1>0, NormalizeWalks
<1> DEFINE u == CHOOSE f : NormalizedUpTo(path, Len(path), f)
<1>2. NormalizedUpTo(path, Len(path), u)
  BY <1>1, Zenon
<1>3. NormalizePath(path) = u[Len(path)]
  BY Zenon DEF NormalizePath, NormalizedUpTo
<1> HIDE DEF u
<1> DEFINE S == {n \in 0 .. Len(path) : u[n] \in Seq(STRING)}
<1>4. \A i \in 0 .. Len(path) :
        u[i] = IF i = 0 THEN <<>>
               ELSE IF path[i] # ".." THEN Append(u[i - 1], path[i])
               ELSE IF u[i - 1] = <<>> THEN <<>> ELSE Front(u[i - 1])
  BY <1>2, Zenon DEF NormalizedUpTo
<1>5. 0 \in S
  <2>1. 0 \in 0 .. Len(path) /\ <<>> \in Seq(STRING)
    BY <1>0
  <2>2. u[0] = <<>>
    BY <1>4, <2>1, Zenon
  <2> QED BY <2>1, <2>2, Zenon
<1>6. ASSUME NEW n \in 0 .. Len(path), n # Len(path), n \in S PROVE n + 1 \in S
  <2>1. PICK m : m = n + 1
    OBVIOUS
  <2>2. m \in 0 .. Len(path) /\ m # 0 /\ m - 1 = n /\ path[m] \in STRING
    BY <1>0, <1>6, <2>1
  <2>3. u[m] = IF path[m] # ".." THEN Append(u[n], path[m])
               ELSE IF u[n] = <<>> THEN <<>> ELSE Front(u[n])
    BY <1>4, <2>2
  <2>4. u[n] \in Seq(STRING)
    BY <1>6
  <2>5. u[n] # <<>> => Front(u[n]) \in Seq(STRING)
    BY <2>4, FrontIsPath
  <2>6. Append(u[n], path[m]) \in Seq(STRING) /\ <<>> \in Seq(STRING)
    BY <2>2, <2>4
  <2>7. u[m] \in Seq(STRING)
    BY <2>3, <2>5, <2>6
  <2> QED BY <2>1, <2>2, <2>7
<1>7. \A n \in 0 .. Len(path) : n \in S
  <2> HIDE DEF S
  <2> QED BY <1>0, <1>5, <1>6, NatUpTo
<1> QED BY <1>0, <1>3, <1>7

LEMMA PrefixIsTransitive ==
  ASSUME NEW p \in Seq(STRING), NEW q \in Seq(STRING), NEW r \in Seq(STRING), IsPrefix(p, q), IsPrefix(q, r)
  PROVE  IsPrefix(p, r)
<1>1. \A i \in 1 .. Len(p) : p[i] = q[i]
  <2> SUFFICES ASSUME NEW i \in 1 .. Len(p) PROVE p[i] = q[i]
    OBVIOUS
  <2>1. SubSeq(p, 1, Len(p))[i] = p[i] /\ SubSeq(q, 1, Len(p))[i] = q[i]
    BY DEF IsPrefix
  <2> QED BY <2>1 DEF IsPrefix
<1>2. \A i \in 1 .. Len(q) : q[i] = r[i]
  <2> SUFFICES ASSUME NEW i \in 1 .. Len(q) PROVE q[i] = r[i]
    OBVIOUS
  <2>1. SubSeq(q, 1, Len(q))[i] = q[i] /\ SubSeq(r, 1, Len(q))[i] = r[i]
    BY DEF IsPrefix
  <2> QED BY <2>1 DEF IsPrefix
<1>3. Len(p) <= Len(q) /\ Len(q) <= Len(r) /\ Len(p) \in Nat /\ Len(q) \in Nat /\ Len(r) \in Nat
  BY DEF IsPrefix
<1>4. \A i \in 1 .. Len(p) : p[i] = r[i]
  BY <1>1, <1>2, <1>3
<1>5. SubSeq(p, 1, Len(p)) = SubSeq(r, 1, Len(p))
  BY <1>3, <1>4
<1> QED BY <1>3, <1>5 DEF IsPrefix

LEMMA ContainsIsTransitive ==
  ASSUME NEW p \in Seq(STRING), NEW q \in Seq(STRING), NEW r \in Seq(STRING),
         PathContains(p, q), PathContains(q, r)
  PROVE  PathContains(p, r)
<1>1. PICK x \in Seq(STRING) : x = NormalizePath(p)
  BY NormalizeType
<1>2. PICK y \in Seq(STRING) : y = NormalizePath(q)
  BY NormalizeType
<1>3. PICK z \in Seq(STRING) : z = NormalizePath(r)
  BY NormalizeType
<1> QED BY <1>1, <1>2, <1>3, PrefixIsTransitive DEF PathContains

FileKinds == {"read_file", "write_file", "list_dir"}
MemoryKinds == {"read_memory", "write_memory"}
ExactKinds == {"http_get", "http_post", "execute", "mount_tmpfs", "memory_preview", "memory_recall"}

\* A scope inside one that is inside a third is inside that, unless the one in
\* the middle is a namespace.
LEMMA ScopeIsTransitive ==
  ASSUME NEW p, NEW q, NEW r, q.scope \in {"agent", "session"}, ScopeSubset(r, q), ScopeSubset(q, p)
  PROVE  ScopeSubset(r, p)
<1>1. \A s, t : /\ s.scope = "session" /\ t.scope = "session" => (ScopeSubset(s, t) <=> s = t)
                /\ s.scope = "agent" /\ t.scope = "session" => ~ScopeSubset(s, t)
                /\ ~(s.scope = "session" /\ t.scope = "session") /\ ~(s.scope = "agent" /\ t.scope = "session")
                   => (ScopeSubset(s, t) <=> s.agent = t.agent)
  BY DEF ScopeSubset
<1> QED BY <1>1

\* What p allows to a holder of q, it allows to p's holder as well.
LEMMA AllowsIsTransitive ==
  ASSUME NEW p, NEW q, NEW r, CapabilityOK(p), CapabilityOK(q), CapabilityOK(r), ~Namespaced(q),
         Allows(p, q), Allows(q, r)
  PROVE  Allows(p, r)
<1>1. CASE p.kind = "all"
  BY <1>1 DEF Allows
<1>2. CASE p.kind \in ExactKinds
  <2>1. p = q
    BY <1>2 DEF Allows, ExactKinds
  <2> QED BY <2>1
<1>3. CASE p.kind \in FileKinds
  <2>1. q.kind \in FileKinds /\ p.at \in Seq(STRING) /\ q.at \in Seq(STRING)
    BY <1>3 DEF Allows, FileKinds, CapabilityOK
  <2>2. r.kind \in FileKinds /\ r.at \in Seq(STRING)
    BY <2>1 DEF Allows, FileKinds, CapabilityOK
  <2>3. \A a, b : PathEq(a, b) => NormalizePath(a) = NormalizePath(b)
    BY DEF PathEq
  <2>4. PathEq(p.at, q.at) => (PathContains(q.at, r.at) => PathContains(p.at, r.at))
    BY DEF PathEq, PathContains
  <2>5. PathContains(p.at, q.at) /\ PathContains(q.at, r.at) => PathContains(p.at, r.at)
    BY <2>1, <2>2, ContainsIsTransitive
  <2>6. PathEq(p.at, q.at) /\ PathEq(q.at, r.at) => PathEq(p.at, r.at)
    BY DEF PathEq
  <2> QED BY <1>3, <2>1, <2>2, <2>4, <2>5, <2>6 DEF Allows, FileKinds
<1>4. CASE p.kind \in MemoryKinds
  <2>1. q.kind \in MemoryKinds /\ q.at.scope \in {"agent", "session"}
    BY <1>4 DEF Allows, MemoryKinds, CapabilityOK, Namespaced
  <2>2. ScopeSubset(q.at, p.at) /\ ScopeSubset(r.at, q.at)
    BY <1>4, <2>1 DEF Allows, MemoryKinds
  <2>3. ScopeSubset(r.at, p.at)
    BY <2>1, <2>2, ScopeIsTransitive
  <2> QED BY <1>4, <2>1, <2>3 DEF Allows, MemoryKinds
<1>5. p.kind = "all" \/ p.kind \in ExactKinds \cup FileKinds \cup MemoryKinds
  BY DEF Allows, ExactKinds, FileKinds, MemoryKinds
<1> QED BY <1>1, <1>2, <1>3, <1>4, <1>5

\* What a child allows its parent allows.
LEMMA SubsetAllows ==
  ASSUME NEW p, NEW q, NEW r, CapabilityOK(p), CapabilityOK(q), CapabilityOK(r), ~Namespaced(q),
         IsSubsetOf(q, p), Allows(q, r)
  PROVE  Allows(p, r)
<1>1. CASE q.kind = "none"
  BY <1>1 DEF Allows
<1>2. CASE p.kind = "all"
  BY <1>2 DEF Allows
<1>3. CASE Allows(p, q)
  BY <1>3, AllowsIsTransitive
<1> QED BY <1>1, <1>2, <1>3 DEF IsSubsetOf

-----------------------------------------------------------------------------
\* A token's parent is an older token that contains it and is one less deep.
TokenOK(tokens, id) ==
  LET t == tokens[id]
  IN  /\ CapabilityOK(t.cap) /\ t.depth \in 0 .. MaxChainDepth /\ t.parent \in 0 .. (id - 1)
      /\ t.parent = Root <=> t.depth = 0
      /\ t.parent # Root => /\ t.depth = tokens[t.parent].depth + 1
                            /\ IsSubsetOf(t.cap, tokens[t.parent].cap)

TokensOK(tokens) ==
  /\ DOMAIN tokens = 1 .. Len(tokens) /\ Len(tokens) \in Nat
  /\ \A id \in DOMAIN tokens : TokenOK(tokens, id)

TokenInv == minted \in Seq(Range(minted)) /\ TokensOK(minted) /\ active \subseteq TokenIds

\* The walk of validate_chain over the parents of the tokens.
ParentOf == [i \in TokenIds |-> minted[i].parent]

LEMMA AncestorsAreChain ==
  ASSUME NEW id
  PROVE  \E up : /\ WalkOf(ParentOf, id, MaxChainDepth, up)
                 /\ Ancestors(id) = up[MaxChainDepth] \ {id, Root}
<1> DEFINE Eq(up) == up = [n \in 0..MaxChainDepth |->
                            IF n = 0 THEN {id}
                            ELSE LET below == up[n - 1]
                                 IN below \cup {minted[i].parent : i \in below \cap TokenIds}]
<1>1. \A S : Parents(ParentOf, S) = {minted[i].parent : i \in S \cap TokenIds}
  BY DEF Parents, ParentOf
<1>2. \A up : WalkOf(ParentOf, id, MaxChainDepth, up) <=> Eq(up)
  BY <1>1, Zenon DEF WalkOf
<1>3. WalkOf(ParentOf, id, MaxChainDepth, Chain(ParentOf, id, MaxChainDepth))
  BY TokenBounds, ChainWalks
<1>4. \E up : Eq(up)
  BY <1>2, <1>3
<1>5. Eq(CHOOSE up : Eq(up))
  BY <1>4, Zenon
<1>6. Ancestors(id) = (CHOOSE up : Eq(up))[MaxChainDepth] \ {id, Root}
  BY Zenon DEF Ancestors
<1> QED BY <1>2, <1>5, <1>6, Zenon

\* Each step of a walk adds the parents, so nothing is lost on the way.
LEMMA WalkSteps ==
  ASSUME NEW parent, NEW id, NEW n \in Nat, NEW up, WalkOf(parent, id, n, up)
  PROVE  /\ up[0] = {id}
         /\ \A k \in 0 .. n : k # n => up[k + 1] = up[k] \cup Parents(parent, up[k])
         /\ \A k \in 0 .. n : up[k] \subseteq up[n]
<1>1. up[0] = {id}
  BY DEF WalkOf
<1>2. ASSUME NEW k \in 0 .. n, k # n PROVE up[k + 1] = up[k] \cup Parents(parent, up[k])
  <2>1. PICK j : j = k + 1
    OBVIOUS
  <2>2. j \in 0 .. n /\ j # 0 /\ j - 1 = k
    BY <1>2, <2>1
  <2>3. up[j] = IF j = 0 THEN {id} ELSE up[j - 1] \cup Parents(parent, up[j - 1])
    BY <2>2, Zenon DEF WalkOf
  <2> QED BY <2>1, <2>2, <2>3
<1>3. \A k \in 0 .. n : up[k] \subseteq up[n]
  <2> DEFINE S == {j \in 0 .. n : \A k \in 0 .. j : up[k] \subseteq up[j]}
  <2>1. 0 \in S
    OBVIOUS
  <2>2. ASSUME NEW j \in 0 .. n, j # n, j \in S PROVE j + 1 \in S
    <3>1. up[j] \subseteq up[j + 1]
      BY <1>2, <2>2
    <3>2. ASSUME NEW k \in 0 .. j + 1 PROVE up[k] \subseteq up[j + 1]
      <4>1. CASE k = j + 1
        BY <4>1
      <4>2. CASE k # j + 1
        BY <2>2, <3>1, <4>2
      <4> QED BY <4>1, <4>2
    <3> QED BY <2>2, <3>2
  <2>3. \A j \in 0 .. n : j \in S
    <3> HIDE DEF S
    <3> QED BY <2>1, <2>2, NatUpTo
  <2> QED BY <2>3
<1> QED BY <1>1, <1>2, <1>3

ChainOf(id) == {id} \cup Ancestors(id)

\* What holds of a token, and of the parent of each link it holds of, holds
\* of its whole chain.
LEMMA ChainInduction ==
  ASSUME TokenInv, NEW id \in TokenIds, NEW Q, id \in Q,
         \A a \in ChainOf(id) \cap Q : Token(a).parent # Root => Token(a).parent \in Q
  PROVE  ChainOf(id) \subseteq Q
<1> USE TokenBounds
<1>1. PICK up : WalkOf(ParentOf, id, MaxChainDepth, up) /\ Ancestors(id) = up[MaxChainDepth] \ {id, Root}
  BY AncestorsAreChain, Zenon
<1>2. PICK p : p = ParentOf
  OBVIOUS
<1>3. /\ up[0] = {id}
      /\ \A k \in 0 .. MaxChainDepth : k # MaxChainDepth => up[k + 1] = up[k] \cup Parents(p, up[k])
      /\ \A k \in 0 .. MaxChainDepth : up[k] \subseteq up[MaxChainDepth]
  <2>1. WalkOf(p, id, MaxChainDepth, up) /\ MaxChainDepth \in Nat
    BY <1>1, <1>2
  <2> QED BY <2>1, WalkSteps
<1> DEFINE S == {k \in 0 .. MaxChainDepth : up[k] \ {Root} \subseteq Q}
<1>4. 0 \in S
  BY <1>3
<1>5. ASSUME NEW k \in 0 .. MaxChainDepth, k # MaxChainDepth, k \in S PROVE k + 1 \in S
  <2>1. ASSUME NEW a \in up[k] \cap TokenIds, Token(a).parent # Root PROVE Token(a).parent \in Q
    <3>1. a # Root
      BY DEF TokenInv, TokensOK, TokenIds, Root
    <3>2. a \in ChainOf(id) /\ a \in Q
      BY <1>1, <1>3, <1>5, <3>1 DEF ChainOf
    <3> QED BY <2>1, <3>2
  <2>2. up[k + 1] = up[k] \cup {Token(a).parent : a \in up[k] \cap TokenIds}
    BY <1>2, <1>3, <1>5 DEF Parents, ParentOf, Token
  <2> QED BY <1>5, <2>1, <2>2
<1>6. \A k \in 0 .. MaxChainDepth : k \in S
  <2> HIDE DEF S
  <2> QED BY <1>4, <1>5, NatUpTo
<1> QED BY <1>1, <1>6 DEF ChainOf

\* A chain consists of tokens.
LEMMA ChainTokens ==
  ASSUME TokenInv, NEW id \in TokenIds
  PROVE  ChainOf(id) \subseteq TokenIds
<1>1. ASSUME NEW a \in TokenIds, Token(a).parent # Root PROVE Token(a).parent \in TokenIds
  BY <1>1 DEF TokenInv, TokensOK, TokenOK, TokenIds, Token, Root
<1> QED BY <1>1, ChainInduction

\* Its last link was issued: each step up is one less deep, and the token is no
\* deeper than the steps that are taken.
LEMMA ChainHasRoot ==
  ASSUME TokenInv, NEW id \in TokenIds
  PROVE  \E a \in ChainOf(id) : Token(a).parent = Root
<1> USE TokenBounds
<1>1. PICK up : WalkOf(ParentOf, id, MaxChainDepth, up) /\ Ancestors(id) = up[MaxChainDepth] \ {id, Root}
  BY AncestorsAreChain, Zenon
<1>2. PICK p : p = ParentOf
  OBVIOUS
<1>3. /\ up[0] = {id}
      /\ \A k \in 0 .. MaxChainDepth : k # MaxChainDepth => up[k + 1] = up[k] \cup Parents(p, up[k])
      /\ \A k \in 0 .. MaxChainDepth : up[k] \subseteq up[MaxChainDepth]
  <2>1. WalkOf(p, id, MaxChainDepth, up) /\ MaxChainDepth \in Nat
    BY <1>1, <1>2
  <2> QED BY <2>1, WalkSteps
<1>4. ASSUME NEW a \in TokenIds
      PROVE  /\ Token(a).depth \in 0 .. MaxChainDepth
             /\ Token(a).depth = 0 => Token(a).parent = Root
             /\ Token(a).parent # Root => /\ Token(a).parent \in TokenIds
                                          /\ Token(a).depth = Token(Token(a).parent).depth + 1
  BY DEF TokenInv, TokensOK, TokenOK, TokenIds, Token, Root
<1> DEFINE S == {k \in 0 .. MaxChainDepth : \E a \in up[k] \cap TokenIds :
                   Token(a).parent = Root \/ Token(a).depth + k <= Token(id).depth}
<1>5. 0 \in S
  <2>1. Token(id).depth + 0 <= Token(id).depth
    BY <1>4
  <2> QED BY <1>3, <2>1
<1>6. ASSUME NEW k \in 0 .. MaxChainDepth, k # MaxChainDepth, k \in S PROVE k + 1 \in S
  <2>1. PICK a \in up[k] \cap TokenIds : Token(a).parent = Root \/ Token(a).depth + k <= Token(id).depth
    BY <1>6
  <2>2. up[k + 1] = up[k] \cup {Token(b).parent : b \in up[k] \cap TokenIds}
    BY <1>2, <1>3, <1>6 DEF Parents, ParentOf, Token
  <2>3. CASE Token(a).parent = Root
    BY <1>6, <2>1, <2>2, <2>3
  <2>4. CASE Token(a).parent # Root
    <3>1. PICK b : b = Token(a).parent
      OBVIOUS
    <3>2. b \in TokenIds /\ b \in up[k + 1] /\ Token(a).depth = Token(b).depth + 1
      BY <1>4, <2>1, <2>2, <2>4, <3>1
    <3>3. Token(b).depth + (k + 1) <= Token(id).depth
      BY <1>4, <2>1, <2>4, <3>2
    <3> QED BY <1>6, <3>2, <3>3
  <2> QED BY <2>3, <2>4
<1>7. MaxChainDepth \in S
  <2> HIDE DEF S
  <2>1. \A k \in 0 .. MaxChainDepth : k \in S
    BY <1>5, <1>6, NatUpTo
  <2> QED BY <2>1
<1>8. PICK a \in up[MaxChainDepth] \cap TokenIds :
        Token(a).parent = Root \/ Token(a).depth + MaxChainDepth <= Token(id).depth
  BY <1>7
<1>9. Token(a).parent = Root
  BY <1>4, <1>8
<1>10. a # Root
  BY DEF TokenInv, TokensOK, TokenIds, Root
<1> QED BY <1>1, <1>8, <1>9, <1>10 DEF ChainOf

\* What is above a token that was issued: nothing.
LEMMA RootIsAlone ==
  ASSUME TokenInv, NEW id \in TokenIds, Token(id).parent = Root
  PROVE  ChainOf(id) = {id}
<1>1. ChainOf(id) \subseteq {id}
  BY ChainInduction
<1> QED BY <1>1 DEF ChainOf

\* What a token is accepted for, every link of its chain grants.
LEMMA ChainGrants ==
  ASSUME TokenInv, NEW id \in TokenIds, NEW c, CapabilityOK(c), Allows(Token(id).cap, c),
         \A a \in ChainOf(id) : ~Namespaced(Token(a).cap)
  PROVE  \A a \in ChainOf(id) : Allows(Token(a).cap, c)
<1> DEFINE Q == {a \in TokenIds : Allows(Token(a).cap, c)}
<1>1. ASSUME NEW a \in ChainOf(id) \cap Q, Token(a).parent # Root PROVE Token(a).parent \in Q
  <2>1. PICK p : p = Token(a).parent
    OBVIOUS
  <2>2. p \in TokenIds /\ IsSubsetOf(Token(a).cap, Token(p).cap)
    BY <1>1, <2>1 DEF TokenInv, TokensOK, TokenOK, TokenIds, Token, Root
  <2>3. CapabilityOK(Token(a).cap) /\ CapabilityOK(Token(p).cap)
    BY <2>2 DEF TokenInv, TokensOK, TokenOK, TokenIds, Token
  <2>4. Allows(Token(p).cap, c)
    BY <2>2, <2>3, SubsetAllows
  <2> QED BY <2>1, <2>2, <2>4
<1>2. ChainOf(id) \subseteq Q
  <2> HIDE DEF Q
  <2>1. id \in Q
    BY DEF Q
  <2> QED BY <1>1, <2>1, ChainInduction
<1> QED BY <1>2

LEMMA LiveRoot == TokenInv => AuthorityFromLiveRoot
<1> SUFFICES ASSUME TokenInv, NEW id \in TokenIds, NEW c \in Caps, Validate(id, c)
             PROVE  /\ (\A a \in ChainOf(id) : ~Namespaced(Token(a).cap)) => Allows(Token(RootOf(id)).cap, c)
                    /\ \A a \in ChainOf(id) : a \notin revoked /\ now < Token(a).exp
  BY Zenon DEF AuthorityFromLiveRoot, ChainOf
<1>1. \A a \in ChainOf(id) : a \notin revoked /\ now < Token(a).exp
  <2>1. id \notin revoked /\ now < Token(id).exp
    BY DEF Validate, IsValid
  <2>2. CASE Token(id).parent = Root
    BY <2>1, <2>2, RootIsAlone
  <2>3. CASE Token(id).parent # Root
    BY <2>1, <2>3 DEF Validate, ValidChain, IsValid, ChainOf
  <2> QED BY <2>2, <2>3
<1>2. RootOf(id) \in ChainOf(id)
  BY ChainHasRoot, Zenon DEF RootOf, ChainOf
<1>3. CapabilityOK(c) /\ Allows(Token(id).cap, c)
  BY CapsAssumption DEF Validate
<1> QED BY <1>1, <1>2, <1>3, ChainGrants

-----------------------------------------------------------------------------
\* A token that is being signed: issued, or a child of one that was.
NewTokenOK(t) ==
  /\ CapabilityOK(t.cap)
  /\ \/ t.parent = Root /\ t.depth = 0
     \/ /\ t.parent \in TokenIds /\ t.depth = Token(t.parent).depth + 1 /\ t.depth <= MaxChainDepth
        /\ IsSubsetOf(t.cap, Token(t.parent).cap)

LEMMA MintKeeps ==
  ASSUME TokenInv, NEW tokens, tokens \in Seq(Range(tokens)), Mint(tokens),
         \A i \in DOMAIN tokens : NewTokenOK(tokens[i])
  PROVE  /\ TokenInv'
         /\ TokenIds' = 1 .. Len(minted) + Len(tokens) /\ TokenIds \subseteq TokenIds'
         /\ \A id \in TokenIds : minted'[id] = minted[id]
         /\ \A i \in DOMAIN tokens : minted'[Len(minted) + i] = tokens[i]
<1> USE TokenBounds
<1> DEFINE m == Len(minted)
           n == Len(tokens)
           R == Range(minted) \cup Range(tokens)
<1>1. minted \in Seq(R) /\ tokens \in Seq(R)
  BY DEF TokenInv
<1>2. minted' = minted \o tokens
  BY DEF Mint
<1> HIDE DEF R
<1>3. m \in Nat /\ n \in Nat /\ DOMAIN minted = 1 .. m /\ DOMAIN tokens = 1 .. n
  BY <1>1
<1>4. /\ minted' \in Seq(R) /\ Len(minted') = m + n /\ DOMAIN minted' = 1 .. m + n
      /\ \A i \in 1 .. m + n : minted'[i] = IF i <= m THEN minted[i] ELSE tokens[i - m]
  BY <1>1, <1>2
<1> HIDE DEF m, n
<1>5. \A id \in TokenIds : id \in 1 .. m + n /\ minted'[id] = minted[id]
  BY <1>3, <1>4 DEF TokenIds
<1>6. \A i \in DOMAIN tokens : m + i \in 1 .. m + n /\ minted'[m + i] = tokens[i]
  BY <1>3, <1>4
<1>7. ASSUME NEW id \in 1 .. m + n PROVE TokenOK(minted', id)
  <2>1. CASE id <= m
    <3>1. id \in TokenIds /\ TokenOK(minted, id)
      BY <1>3, <2>1 DEF TokenInv, TokensOK, TokenIds
    <3>2. minted'[id] = minted[id]
      BY <1>5, <3>1
    <3>3. minted[id].parent # Root => minted[id].parent \in TokenIds
      BY <1>3, <2>1, <3>1 DEF TokenOK, TokenIds, Root
    <3>4. minted[id].parent # Root => minted'[minted[id].parent] = minted[minted[id].parent]
      BY <1>5, <3>3
    <3> QED BY <3>1, <3>2, <3>4 DEF TokenOK
  <2>2. CASE ~(id <= m)
    <3>1. PICK t : t = tokens[id - m]
      OBVIOUS
    <3>2. id - m \in DOMAIN tokens /\ minted'[id] = t
      BY <1>3, <1>4, <2>2, <3>1
    <3>3. NewTokenOK(t)
      BY <3>1, <3>2
    <3>4. CASE t.parent = Root /\ t.depth = 0
      <4>1. t.parent \in 0 .. (id - 1) /\ t.depth \in 0 .. MaxChainDepth
        BY <1>3, <3>4 DEF Root
      <4> QED BY <3>2, <3>3, <3>4, <4>1 DEF TokenOK, NewTokenOK
    <3>5. CASE t.parent \in TokenIds
      <4>1. PICK q \in TokenIds : q = t.parent
        BY <3>5
      <4>2. minted'[q] = Token(q) /\ q \in 1 .. m /\ Token(q).depth \in 0 .. MaxChainDepth
        BY <1>3, <1>5 DEF Token, TokenIds, TokenInv, TokensOK, TokenOK
      <4>3. q # Root /\ q \in 0 .. (id - 1)
        BY <1>3, <2>2, <4>2 DEF Root
      <4>4. t.depth = Token(q).depth + 1 /\ t.depth <= MaxChainDepth /\ IsSubsetOf(t.cap, Token(q).cap)
        BY <3>3, <4>1, <4>3 DEF NewTokenOK
      <4>5. t.depth \in 0 .. MaxChainDepth /\ t.depth # 0
        BY <4>2, <4>4
      <4> QED BY <3>2, <3>3, <4>1, <4>2, <4>3, <4>4, <4>5 DEF TokenOK, NewTokenOK
    <3> QED BY <3>3, <3>4, <3>5 DEF NewTokenOK
  <2> QED BY <2>1, <2>2
<1>8. TokensOK(minted')
  <2>1. PICK f : f = minted'
    OBVIOUS
  <2>2. TokensOK(f)
    BY <1>3, <1>4, <1>7, <2>1 DEF TokensOK
  <2> QED BY <2>1, <2>2
<1>9. minted' \in Seq(Range(minted'))
  <2>1. \A i \in 1 .. Len(minted') : minted'[i] \in Range(minted')
    BY <1>4 DEF Range
  <2> QED BY <1>4, <2>1
<1>10. active' \subseteq TokenIds'
  <2>1. active' = active \cup (m + 1 .. m + n)
    BY DEF Mint, NextId, m, n
  <2> QED BY <1>3, <1>4, <2>1 DEF TokenInv, TokenIds
<1> QED BY <1>3, <1>4, <1>5, <1>6, <1>8, <1>9, <1>10 DEF TokenInv, TokenIds, m, n

\* The one token of an issue or an attenuation.
LEMMA OneToken ==
  ASSUME NEW t
  PROVE  <<t>> \in Seq(Range(<<t>>)) /\ DOMAIN <<t>> = {1} /\ Len(<<t>>) = 1 /\ <<t>>[1] = t
BY DEF Range

LEMMA IssuedIsOK ==
  ASSUME NEW cap, CapabilityOK(cap), NEW validity
  PROVE  NewTokenOK(IssuedToken(cap, validity))
BY DEF NewTokenOK, IssuedToken

LEMMA ChildIsOK ==
  ASSUME TokenInv, NEW cap, CapabilityOK(cap), NEW pid, CanAttenuate(pid, cap), NEW validity
  PROVE  NewTokenOK(ChildToken(pid, cap, validity))
BY DEF NewTokenOK, ChildToken, CanAttenuate, TokenInv

LEMMA TokenUnchanged ==
  ASSUME TokenInv, UNCHANGED minted, active' \subseteq active
  PROVE  TokenInv'
<1>1. TokensOK(minted')
  <2>1. PICK f : f = minted'
    OBVIOUS
  <2>2. TokensOK(f)
    BY <2>1 DEF TokenInv
  <2> QED BY <2>1, <2>2
<1> QED BY <1>1 DEF TokenInv, TokenIds

LEMMA TokenFirst == TokenInit => TokenInv
<1> SUFFICES ASSUME TokenInit PROVE TokenInv
  OBVIOUS
<1>1. minted = <<>> /\ Len(minted) = 0 /\ DOMAIN minted = {} /\ active = {}
  BY DEF TokenInit
<1> QED BY <1>1 DEF TokenInv, TokensOK

LEMMA TokenStep == TokenInv /\ [TokenNext]_tokenVars => TokenInv'
<1> SUFFICES ASSUME TokenInv, [TokenNext]_tokenVars PROVE TokenInv'
  OBVIOUS
<1>1. CASE UNCHANGED tokenVars
  BY <1>1, TokenUnchanged DEF tokenVars
<1>2. CASE Issue
  <2>1. PICK cap \in Caps, validity \in 1..MaxTime + 1 : Mint(<<IssuedToken(cap, validity)>>)
    BY <1>2 DEF Issue
  <2>2. PICK t : t = IssuedToken(cap, validity)
    OBVIOUS
  <2>3. NewTokenOK(t)
    BY <2>2, CapsAssumption, IssuedIsOK
  <2> QED BY <2>1, <2>2, <2>3, OneToken, MintKeeps
<1>3. CASE Attenuate
  <2>1. PICK pid \in active, cap \in Caps, validity \in 1..MaxTime + 1 :
          CanAttenuate(pid, cap) /\ Mint(<<ChildToken(pid, cap, validity)>>)
    BY <1>3 DEF Attenuate
  <2>2. PICK t : t = ChildToken(pid, cap, validity)
    OBVIOUS
  <2>3. NewTokenOK(t)
    BY <2>1, <2>2, CapsAssumption, ChildIsOK
  <2> QED BY <2>1, <2>2, <2>3, OneToken, MintKeeps
<1>4. CASE Revoke
  BY <1>4, TokenUnchanged DEF Revoke, RevokeToken
<1>5. CASE TokenTick
  BY <1>5, TokenUnchanged DEF TokenTick
<1> QED BY <1>1, <1>2, <1>3, <1>4, <1>5 DEF TokenNext

\* For any capabilities, any number of tokens, any depth and any revocations:
\* what CapabilityManager::validate accepts a token for, the root of its chain
\* grants, unless the chain goes through a namespace, and no link of the chain
\* is revoked or expired.
THEOREM AuthorityAlwaysFromRoot == TokenSpec => []AuthorityFromLiveRoot
<1> QED BY TokenFirst, TokenStep, LiveRoot, PTL DEF TokenSpec

-----------------------------------------------------------------------------
(***************************************************************************)
(* A call of the MCP server.  Calls share the tokens, the clock and the    *)
(* rate limiter, but what a call runs with, what its capsule claims and    *)
(* what it answers depend on its own record and on the configuration only: *)
(* CallOK is what is known of a record s under the configuration g.        *)
(***************************************************************************)
CallFields == {"at", "req", "pid", "toks", "need", "tried", "round", "rounds", "recall", "ran",
               "capsule", "preview", "answer", "timeline"}
BeforeRun == {"gate", "mint", "fork", "run", "create", "issue", "attenuate", "read", "limit",
              "recall", "tokens", "rollback", "authorize", "negotiate", "inner"}
ProofTools == {"aeon_execute_timeline", "iq_execute"}

\* What is left of the requirements after a negotiation, and that one is under
\* way only while nothing was given up yet.
NeedOK(s) ==
  /\ s.rounds \in Nat
  /\ IF s.rounds = 0 THEN s.need = Required(s.req)
     ELSE /\ s.rounds <= MaxRounds /\ s.req.tool \in ProofTools
          /\ s.need # {} /\ s.need \subseteq Required(s.req) /\ s.need # Required(s.req)
  /\ s.at \in BeforeRun \ {"inner", "run"} => s.rounds = 0
  /\ s.at = "negotiate" => s.round \in 1 .. MaxRounds /\ s.req.tool \in ProofTools

\* Where a call stands with its run, its evidence and its answer.
EvidenceOK(s, g) ==
  /\ s.at \in BeforeRun \cup {"capsule", "answer", "deliver", "done"}
  /\ s.at \in BeforeRun => s.ran = FALSE /\ s.capsule = NoCapsule
  /\ Attested(s.recall) => g.aeon.hmac /\ s.req.query
  /\ g.aeon.vkey /\ Attested(s.capsule.mode) =>
       Attested(s.recall) /\ s.capsule.evidence = "recall" /\ s.req.query
  /\ s.at = "answer" /\ Attested(s.recall) /\ s.capsule.evidence # "recall" =>
       s.rounds # 0 /\ s.capsule.evidence = "hits"
  /\ s.at = "capsule" => s.capsule = NoCapsule
  /\ s.at \in {"deliver", "done"} /\ s.capsule # NoCapsule /\ s.answer # "ok" =>
       /\ s.req.tool = "iq_execute" /\ s.rounds # 0
       /\ Attested(s.recall) /\ s.capsule.evidence = "hits"

CallOK(s, g) == DOMAIN s = CallFields /\ NeedOK(s) /\ EvidenceOK(s, g)

CallInv == DOMAIN call = Clients /\ \A c \in Clients : call[c] = Idle \/ CallOK(call[c], cfg)

LEMMA NotAttested == ~Attested(Absent) /\ ~Attested(NoCapsule.mode) /\ NoCapsule.evidence = Absent
BY ServerBounds DEF Attested, NoCapsule

LEMMA IdleHasNoStep == Idle.at = "idle" /\ "idle" \notin BeforeRun \cup {"capsule", "answer", "deliver", "done"}
BY DEF Idle, BeforeRun

\* A call that takes a step is not idle.
LEMMA StepIsBusy ==
  ASSUME CallInv, NEW c \in Clients, call[c].at # "idle"
  PROVE  CallOK(call[c], cfg) /\ c \in DOMAIN call
BY IdleHasNoStep DEF CallInv

\* One call changes, to a record that is again in order.
LEMMA OneCall ==
  ASSUME CallInv, NEW c \in Clients, NEW t, t = Idle \/ CallOK(t, cfg),
         call' = [call EXCEPT ![c] = t], cfg' = cfg
  PROVE  CallInv'
BY DEF CallInv

\* A call goes to another step before it ran, keeping what it knows.
LEMMA MovesOn ==
  ASSUME NEW g, NEW s, CallOK(s, g), s.at \in BeforeRun, NEW at, at \in BeforeRun \ {"negotiate"},
         s.at \in {"inner", "run"} => at = "run"
  PROVE  CallOK([s EXCEPT !.at = at], g)
<1> DEFINE t == [s EXCEPT !.at = at]
<1>1. /\ DOMAIN t = CallFields /\ t.at = at /\ t.req = s.req /\ t.need = s.need
      /\ t.rounds = s.rounds /\ t.recall = s.recall /\ t.ran = s.ran /\ t.capsule = s.capsule
  BY DEF CallOK, CallFields
<1> HIDE DEF t
<1>2. NeedOK(t)
  BY <1>1 DEF CallOK, NeedOK, BeforeRun
<1>3. EvidenceOK(t, g)
  BY <1>1 DEF CallOK, EvidenceOK, BeforeRun
<1> QED BY <1>1, <1>2, <1>3 DEF CallOK, t

\* A call that has not run ends, or goes to the timeline, with any answer.
LEMMA EndsUnrun ==
  ASSUME NEW g, NEW s, CallOK(s, g), s.at \in BeforeRun, NEW a, NEW at \in {"deliver", "done"}
  PROVE  CallOK([s EXCEPT !.at = at, !.answer = a], g)
<1> DEFINE t == [s EXCEPT !.at = at, !.answer = a]
<1>1. /\ DOMAIN t = CallFields /\ t.at = at /\ t.req = s.req /\ t.need = s.need
      /\ t.rounds = s.rounds /\ t.recall = s.recall /\ t.ran = s.ran /\ t.capsule = s.capsule
  BY DEF CallOK, CallFields
<1> HIDE DEF t
<1>2. NeedOK(t)
  BY <1>1 DEF CallOK, NeedOK, BeforeRun
<1>3. EvidenceOK(t, g)
  BY <1>1 DEF CallOK, EvidenceOK, BeforeRun
<1> QED BY <1>1, <1>2, <1>3 DEF CallOK, t

LEMMA DeniedIsOK ==
  ASSUME NEW g, NEW s, CallOK(s, g), s.at \in BeforeRun
  PROVE  CallOK(Denied(s), g)
BY EndsUnrun DEF Denied

\* Answer, Advance and Deny as changes of one record.
LEMMA AnswerStep ==
  ASSUME CallInv, NEW c \in Clients, call[c].at \in BeforeRun, NEW a, Answer(c, a), cfg' = cfg
  PROVE  CallInv'
<1>1. CallOK(call[c], cfg)
  BY StepIsBusy, IdleHasNoStep
<1>2. CallOK([call[c] EXCEPT !.at = "done", !.answer = a], cfg)
  BY <1>1, EndsUnrun
<1>3. call' = [call EXCEPT ![c] = [call[c] EXCEPT !.at = "done", !.answer = a]]
  BY DEF Answer
<1> QED BY <1>2, <1>3, OneCall

LEMMA AdvanceStep ==
  ASSUME CallInv, NEW c \in Clients, call[c].at \in BeforeRun, NEW at,
         at \in BeforeRun \ {"negotiate"}, call[c].at \in {"inner", "run"} => at = "run",
         Advance(c, at), cfg' = cfg
  PROVE  CallInv'
<1>1. CallOK(call[c], cfg)
  BY StepIsBusy, IdleHasNoStep
<1>2. CallOK([call[c] EXCEPT !.at = at], cfg)
  BY <1>1, MovesOn
<1>3. call' = [call EXCEPT ![c] = [call[c] EXCEPT !.at = at]]
  BY DEF Advance
<1> QED BY <1>2, <1>3, OneCall

LEMMA DenyStep ==
  ASSUME CallInv, NEW c \in Clients, call[c].at \in BeforeRun, Deny(c), cfg' = cfg
  PROVE  CallInv'
<1>1. CallOK(call[c], cfg)
  BY StepIsBusy, IdleHasNoStep
<1>2. CallOK(Denied(call[c]), cfg)
  BY <1>1, DeniedIsOK
<1>3. call' = [call EXCEPT ![c] = Denied(call[c])]
  BY DEF Deny
<1> QED BY <1>2, <1>3, OneCall

-----------------------------------------------------------------------------
LEMMA FirstIsEarly == \A tool : FirstStep(tool) \in BeforeRun \ {"negotiate"}
BY DEF FirstStep, BeforeRun

LEMMA StartedIsOK ==
  ASSUME NEW g, NEW r, NEW pid, NEW at, at \in BeforeRun \ {"negotiate"}
  PROVE  CallOK(Started(r, pid, at), g) /\ Started(r, pid, at).at = at
<1> DEFINE t == Started(r, pid, at)
<1>1. /\ DOMAIN t = CallFields /\ t.at = at /\ t.req = r /\ t.need = Required(r)
      /\ t.rounds = 0 /\ t.recall = Absent /\ t.ran = FALSE /\ t.capsule = NoCapsule
  BY DEF Started, CallFields
<1> HIDE DEF t
<1>2. NeedOK(t)
  BY <1>1 DEF NeedOK
<1>3. EvidenceOK(t, g)
  BY <1>1, NotAttested DEF EvidenceOK, BeforeRun
<1> QED BY <1>1, <1>2, <1>3 DEF CallOK, t

LEMMA CallStep ==
  ASSUME CallInv, NEW c \in Clients, Call(c)
  PROVE  CallInv'
<1>1. PICK r \in Requests : \E pid, fits : call' = [call EXCEPT ![c] = Opened(r, pid, fits)]
  BY DEF Call
<1>2. PICK pid, fits : call' = [call EXCEPT ![c] = Opened(r, pid, fits)]
  BY <1>1
<1> DEFINE s == Started(r, pid, FirstStep(r.tool))
           t == Opened(r, pid, fits)
<1>3. CallOK(s, cfg) /\ s.at \in BeforeRun
  BY FirstIsEarly, StartedIsOK
<1>4. /\ CallOK(Denied(s), cfg)
      /\ \A why : CallOK([s EXCEPT !.at = "done", !.answer = why], cfg)
  BY <1>3, DeniedIsOK, EndsUnrun
<1>5. \/ t = s \/ t = Denied(s)
      \/ \E why : t = [s EXCEPT !.at = "done", !.answer = why]
  BY DEF Opened
<1>6. CallOK(t, cfg) /\ cfg' = cfg
  BY <1>3, <1>4, <1>5 DEF Call
<1> QED BY <1>2, <1>6, OneCall

\* A call gets a token: its record knows nothing else new.
LEMMA MintOneStep ==
  ASSUME CallInv, NEW c \in Clients, MintOne(c)
  PROVE  CallInv'
<1>1. call[c].at = "mint" /\ call[c].at \in BeforeRun /\ cfg' = cfg
  BY DEF MintOne, BeforeRun
<1>2. \/ \E a : Answer(c, a)
      \/ call' = [call EXCEPT ![c] = [call[c] EXCEPT !.toks = Append(call[c].toks, NextId)]]
  BY DEF MintOne
<1>3. CallOK(call[c], cfg)
  BY <1>1, StepIsBusy, IdleHasNoStep
<1>4. CallOK([call[c] EXCEPT !.toks = Append(call[c].toks, NextId)], cfg)
  <2>1. PICK s, toks : s = call[c] /\ toks = Append(call[c].toks, NextId)
    OBVIOUS
  <2> DEFINE t == [s EXCEPT !.toks = toks]
  <2>2. /\ DOMAIN t = CallFields /\ t.at = s.at /\ t.req = s.req /\ t.need = s.need
        /\ t.rounds = s.rounds /\ t.recall = s.recall /\ t.ran = s.ran /\ t.capsule = s.capsule
        /\ t.answer = s.answer
    BY <1>3, <2>1 DEF CallOK, CallFields
  <2> HIDE DEF t
  <2>3. NeedOK(t)
    BY <1>1, <1>3, <2>1, <2>2 DEF CallOK, NeedOK
  <2>4. EvidenceOK(t, cfg)
    BY <1>1, <1>3, <2>1, <2>2 DEF CallOK, EvidenceOK
  <2> QED BY <2>1, <2>2, <2>3, <2>4 DEF CallOK, t
<1> QED BY <1>1, <1>2, <1>4, OneCall, AnswerStep

LEMMA CheckTokensStep ==
  ASSUME CallInv, NEW c \in Clients, CheckTokens(c)
  PROVE  CallInv'
<1>1. call[c].at = "mint" /\ call[c].at \in BeforeRun /\ cfg' = cfg
  BY DEF CheckTokens, BeforeRun
<1>2. Answer(c, "error") \/ Advance(c, "rollback") \/ Advance(c, "authorize")
  BY DEF CheckTokens
<1> QED BY <1>1, <1>2, AnswerStep, AdvanceStep DEF BeforeRun

LEMMA ToolSteps ==
  ASSUME CallInv, NEW c \in Clients,
         GiveToken(c) \/ CreateSnapshot(c) \/ ForkBase(c) \/ Read(c)
  PROVE  CallInv'
<1>1. call[c].at \in BeforeRun /\ cfg' = cfg
  BY DEF GiveToken, CreateSnapshot, ForkBase, Read, BeforeRun
<1>2. (\E a : Answer(c, a)) \/ Advance(c, "run")
  BY DEF GiveToken, CreateSnapshot, ForkBase, Read
<1> QED BY <1>1, <1>2, AnswerStep, AdvanceStep DEF BeforeRun

LEMMA IqSteps ==
  ASSUME CallInv, NEW c \in Clients, IqGate(c) \/ IqLimit(c)
  PROVE  CallInv'
<1>1. call[c].at \in {"gate", "limit"} /\ call[c].at \in BeforeRun /\ cfg' = cfg
  BY DEF IqGate, IqLimit, BeforeRun
<1>2. (\E a : Answer(c, a)) \/ Advance(c, "limit") \/ Advance(c, "recall")
  BY DEF IqGate, IqLimit
<1> QED BY <1>1, <1>2, AnswerStep, AdvanceStep DEF BeforeRun

LEMMA RollbackSnapshotStep ==
  ASSUME CallInv, NEW c \in Clients, RollbackSnapshot(c)
  PROVE  CallInv'
<1>1. call[c].at = "rollback" /\ call[c].at \in BeforeRun /\ cfg' = cfg
  BY DEF RollbackSnapshot, BeforeRun
<1>2. CallOK(call[c], cfg)
  BY <1>1, StepIsBusy, IdleHasNoStep
<1>3. PICK s, seen : s = call[c] /\ (Answer(c, "error") \/ call' = [call EXCEPT ![c] =
        [s EXCEPT !.at = "done", !.answer = "ok", !.ran = TRUE, !.preview = seen]])
  <2>1. PICK seen : seen = (call[c].req.restore /\ \E id \in Held(c) :
                              IsValid(Token(id)) /\ Allows(Token(id).cap, [kind |-> "memory_preview"]))
    OBVIOUS
  <2>2. Answer(c, "error") \/ call' = [call EXCEPT ![c] =
          [call[c] EXCEPT !.at = "done", !.answer = "ok", !.ran = TRUE, !.preview = seen]]
    BY <2>1 DEF RollbackSnapshot
  <2> QED BY <2>2
<1> DEFINE t == [s EXCEPT !.at = "done", !.answer = "ok", !.ran = TRUE, !.preview = seen]
<1>4. /\ DOMAIN t = CallFields /\ t.at = "done" /\ t.req = s.req /\ t.need = s.need
      /\ t.rounds = s.rounds /\ t.recall = s.recall /\ t.ran = TRUE /\ t.capsule = s.capsule
      /\ t.answer = "ok"
  BY <1>2, <1>3 DEF CallOK, CallFields
<1>5. Answer(c, "error") \/ call' = [call EXCEPT ![c] = t]
  BY <1>3
<1> HIDE DEF t
<1>6. NeedOK(t)
  BY <1>1, <1>2, <1>3, <1>4 DEF CallOK, NeedOK, BeforeRun
<1>7. EvidenceOK(t, cfg)
  BY <1>1, <1>2, <1>3, <1>4 DEF CallOK, EvidenceOK, BeforeRun
<1> QED BY <1>1, <1>4, <1>5, <1>6, <1>7, OneCall, AnswerStep DEF CallOK

\* A recall answers Absent without a MAC key to check it with, so an attested
\* one is the answer to a query under that key.
LEMMA RecallStep ==
  ASSUME CallInv, NEW c \in Clients, Recall(c)
  PROVE  CallInv'
<1>1. call[c].at = "recall" /\ call[c].at \in BeforeRun /\ cfg' = cfg
  BY DEF Recall, BeforeRun
<1>2. CallOK(call[c], cfg)
  BY <1>1, StepIsBusy, IdleHasNoStep
<1>3. PICK s, mode, at, a :
        /\ s = call[c] /\ mode \in RecallOutcomes(s.req.query) /\ at \in {"done", "run", "tokens"}
        /\ call' = [call EXCEPT ![c] = [s EXCEPT !.recall = mode, !.at = at, !.answer = a]]
  <2>1. PICK mode \in RecallOutcomes(call[c].req.query) :
          call' = [call EXCEPT ![c] = [call[c] EXCEPT !.recall = mode,
            !.at = IF ~Parses(call[c].req) THEN "done"
                   ELSE IF call[c].need = {} THEN "run" ELSE "tokens",
            !.answer = IF Parses(call[c].req) THEN Absent ELSE "error"]]
    BY ZenonT(30) DEF Recall
  <2>2. PICK at, a : /\ at = IF ~Parses(call[c].req) THEN "done"
                             ELSE IF call[c].need = {} THEN "run" ELSE "tokens"
                     /\ a = IF Parses(call[c].req) THEN Absent ELSE "error"
    OBVIOUS
  <2>3. at \in {"done", "run", "tokens"}
    BY <2>2
  <2> QED BY <2>1, <2>2, <2>3
<1> DEFINE t == [s EXCEPT !.recall = mode, !.at = at, !.answer = a]
<1>4. /\ DOMAIN t = CallFields /\ t.at = at /\ t.req = s.req /\ t.need = s.need
      /\ t.rounds = s.rounds /\ t.recall = mode /\ t.ran = s.ran /\ t.capsule = s.capsule
  BY <1>2, <1>3 DEF CallOK, CallFields
<1>5. Attested(mode) => cfg.aeon.hmac /\ s.req.query
  BY <1>3 DEF RecallOutcomes, Attested
<1>6. s.ran = FALSE /\ s.capsule = NoCapsule
  BY <1>1, <1>2, <1>3 DEF CallOK, EvidenceOK
<1>7. call' = [call EXCEPT ![c] = t]
  BY <1>3
<1> HIDE DEF t
<1>8. NeedOK(t)
  BY <1>1, <1>2, <1>3, <1>4 DEF CallOK, NeedOK, BeforeRun
<1>9. EvidenceOK(t, cfg)
  BY <1>3, <1>4, <1>5, <1>6, NotAttested DEF EvidenceOK, BeforeRun
<1> QED BY <1>1, <1>4, <1>7, <1>8, <1>9, OneCall DEF CallOK

LEMMA IqTokensStep ==
  ASSUME CallInv, NEW c \in Clients, IqTokens(c)
  PROVE  CallInv'
<1>1. call[c].at = "tokens" /\ call[c].at \in BeforeRun /\ cfg' = cfg
  BY DEF IqTokens, BeforeRun
<1>2. CallOK(call[c], cfg)
  BY <1>1, StepIsBusy, IdleHasNoStep
<1>3. PICK toks, s : /\ s = [call[c] EXCEPT !.toks = toks]
                     /\ \/ call' = [call EXCEPT ![c] = [s EXCEPT !.at = "authorize"]]
                        \/ call' = [call EXCEPT ![c] = Denied(s)]
  BY DEF IqTokens
<1>4. /\ DOMAIN s = CallFields /\ s.at = "tokens" /\ s.req = call[c].req /\ s.need = call[c].need
      /\ s.rounds = call[c].rounds /\ s.recall = call[c].recall /\ s.ran = call[c].ran
      /\ s.capsule = call[c].capsule
  BY <1>1, <1>2, <1>3 DEF CallOK, CallFields
<1>5. NeedOK(s)
  BY <1>1, <1>2, <1>4 DEF CallOK, NeedOK, BeforeRun
<1>6. EvidenceOK(s, cfg)
  BY <1>1, <1>2, <1>4 DEF CallOK, EvidenceOK, BeforeRun
<1>7. CallOK(s, cfg) /\ s.at \in BeforeRun
  BY <1>1, <1>4, <1>5, <1>6 DEF CallOK
<1>8. CallOK([s EXCEPT !.at = "authorize"], cfg) /\ CallOK(Denied(s), cfg)
  BY <1>4, <1>7, MovesOn, DeniedIsOK DEF BeforeRun
<1> QED BY <1>1, <1>3, <1>8, OneCall

-----------------------------------------------------------------------------
LEMMA HypervisorAuthorizeStep ==
  ASSUME CallInv, NEW c \in Clients, HypervisorAuthorize(c)
  PROVE  CallInv'
<1>1. call[c].at = "authorize" /\ call[c].at \in BeforeRun /\ cfg' = cfg
  BY DEF HypervisorAuthorize, BeforeRun
<1>2. CallOK(call[c], cfg)
  BY <1>1, StepIsBusy, IdleHasNoStep
<1>3. PICK s : s = call[c]
  OBVIOUS
<1>4. \/ Advance(c, "inner") \/ Advance(c, "run") \/ Deny(c)
      \/ /\ s.req.tool \in ProofTools
         /\ ~(s.need = {})
         /\ call' = [call EXCEPT ![c] = [s EXCEPT !.at = "negotiate", !.round = 1]]
  BY <1>3 DEF HypervisorAuthorize, Proving, ProofTools
<1>5. CASE /\ s.req.tool \in ProofTools
           /\ call' = [call EXCEPT ![c] = [s EXCEPT !.at = "negotiate", !.round = 1]]
  <2> DEFINE t == [s EXCEPT !.at = "negotiate", !.round = 1]
  <2>1. /\ DOMAIN t = CallFields /\ t.at = "negotiate" /\ t.req = s.req /\ t.need = s.need
        /\ t.rounds = s.rounds /\ t.recall = s.recall /\ t.ran = s.ran /\ t.capsule = s.capsule
        /\ t.round = 1
    BY <1>2, <1>3 DEF CallOK, CallFields
  <2> HIDE DEF t
  <2>2. s.rounds = 0
    BY <1>1, <1>2, <1>3 DEF CallOK, NeedOK
  <2>3. NeedOK(t)
    BY <1>2, <1>3, <1>5, <2>1, <2>2 DEF CallOK, NeedOK, MaxRounds
  <2>4. EvidenceOK(t, cfg)
    BY <1>1, <1>2, <1>3, <2>1 DEF CallOK, EvidenceOK, BeforeRun
  <2> QED BY <1>1, <1>5, <2>1, <2>3, <2>4, OneCall DEF CallOK, t
<1> QED BY <1>1, <1>4, <1>5, AdvanceStep, DenyStep DEF BeforeRun

LEMMA NextRoundIsOK ==
  ASSUME NEW c, CallOK(call[c], cfg), call[c].at = "negotiate"
  PROVE  CallOK(NextRound(c), cfg)
<1>1. call[c].at \in BeforeRun
  BY DEF BeforeRun
<1>2. CASE call[c].round < MaxRounds
  <2>1. PICK s : s = call[c]
    OBVIOUS
  <2> DEFINE t == [s EXCEPT !.round = s.round + 1]
  <2>2. /\ DOMAIN t = CallFields /\ t.at = "negotiate" /\ t.req = s.req /\ t.need = s.need
        /\ t.rounds = s.rounds /\ t.recall = s.recall /\ t.ran = s.ran /\ t.capsule = s.capsule
        /\ t.round = s.round + 1
    BY <2>1 DEF CallOK, CallFields
  <2>3. NextRound(c) = t
    BY <1>2, <2>1 DEF NextRound
  <2> HIDE DEF t
  <2>4. NeedOK(t)
    BY <1>2, <2>1, <2>2 DEF CallOK, NeedOK, MaxRounds, BeforeRun
  <2>5. EvidenceOK(t, cfg)
    BY <2>1, <2>2 DEF CallOK, EvidenceOK, BeforeRun
  <2> QED BY <2>2, <2>3, <2>4, <2>5 DEF CallOK
<1>3. CASE ~(call[c].round < MaxRounds)
  BY <1>1, <1>3, DeniedIsOK DEF NextRound
<1> QED BY <1>2, <1>3

\* `tried' is what the next round compares with, nothing else depends on it.
LEMMA TriedIsFree ==
  ASSUME NEW g, NEW s, CallOK(s, g), NEW tried
  PROVE  CallOK([s EXCEPT !.tried = tried], g)
<1> DEFINE t == [s EXCEPT !.tried = tried]
<1>1. /\ DOMAIN t = CallFields /\ t.at = s.at /\ t.req = s.req /\ t.need = s.need
      /\ t.rounds = s.rounds /\ t.recall = s.recall /\ t.ran = s.ran /\ t.capsule = s.capsule
      /\ t.round = s.round /\ t.answer = s.answer
  BY DEF CallOK, CallFields
<1> HIDE DEF t
<1>2. NeedOK(t)
  BY <1>1 DEF CallOK, NeedOK
<1>3. EvidenceOK(t, g)
  BY <1>1 DEF CallOK, EvidenceOK
<1> QED BY <1>1, <1>2, <1>3 DEF CallOK, t

\* What a round grants is a part of the requirements, not empty and not all.
LEMMA NegotiateStep ==
  ASSUME CallInv, NEW c \in Clients, Negotiate(c)
  PROVE  CallInv'
<1>1. call[c].at = "negotiate" /\ call[c].at \in BeforeRun /\ cfg' = cfg
  BY DEF Negotiate, BeforeRun
<1>2. CallOK(call[c], cfg)
  BY <1>1, StepIsBusy, IdleHasNoStep
<1>3. PICK s, candidates, narrowed :
        /\ s = call[c] /\ narrowed = StrictIntersection(s.need, candidates)
        /\ \/ call' = [call EXCEPT ![c] = NextRound(c)]
           \/ /\ narrowed # {}
              /\ call' = [call EXCEPT ![c] =
                   [s EXCEPT !.at = "inner", !.need = narrowed, !.tried = narrowed, !.rounds = s.round]]
           \/ call' = [call EXCEPT ![c] = [NextRound(c) EXCEPT !.tried = narrowed]]
  BY DEF Negotiate
<1>4. CallOK(NextRound(c), cfg) /\ CallOK([NextRound(c) EXCEPT !.tried = narrowed], cfg)
  BY <1>1, <1>2, NextRoundIsOK, TriedIsFree
<1>5. CASE /\ narrowed # {}
           /\ call' = [call EXCEPT ![c] =
                [s EXCEPT !.at = "inner", !.need = narrowed, !.tried = narrowed, !.rounds = s.round]]
  <2> DEFINE t == [s EXCEPT !.at = "inner", !.need = narrowed, !.tried = narrowed, !.rounds = s.round]
  <2>1. /\ DOMAIN t = CallFields /\ t.at = "inner" /\ t.req = s.req /\ t.need = narrowed
        /\ t.rounds = s.round /\ t.recall = s.recall /\ t.ran = s.ran /\ t.capsule = s.capsule
    BY <1>2, <1>3 DEF CallOK, CallFields
  <2> HIDE DEF t
  <2>2. s.need = Required(s.req) /\ s.round \in 1 .. MaxRounds /\ s.req.tool \in ProofTools
    BY <1>1, <1>2, <1>3 DEF CallOK, NeedOK, BeforeRun
  <2>3. narrowed \subseteq s.need /\ narrowed # s.need
    BY <1>3, <1>5 DEF StrictIntersection
  <2>4. NeedOK(t)
    BY <1>5, <2>1, <2>2, <2>3 DEF NeedOK, MaxRounds
  <2>5. EvidenceOK(t, cfg)
    BY <1>1, <1>2, <1>3, <2>1 DEF CallOK, EvidenceOK, BeforeRun
  <2> QED BY <1>1, <1>5, <2>1, <2>4, <2>5, OneCall DEF CallOK, t
<1> QED BY <1>1, <1>3, <1>4, <1>5, OneCall

LEMMA InnerAuthorizeStep ==
  ASSUME CallInv, NEW c \in Clients, InnerAuthorize(c)
  PROVE  CallInv'
<1>1. call[c].at \in BeforeRun /\ cfg' = cfg
  BY DEF InnerAuthorize, BeforeRun
<1>2. Advance(c, "run") \/ Deny(c)
  BY DEF InnerAuthorize
<1> QED BY <1>1, <1>2, AdvanceStep, DenyStep DEF BeforeRun

LEMMA RunStep ==
  ASSUME CallInv, NEW c \in Clients, Run(c)
  PROVE  CallInv'
<1>1. call[c].at = "run" /\ call[c].at \in BeforeRun /\ cfg' = cfg
  BY DEF Run, BeforeRun
<1>2. CallOK(call[c], cfg)
  BY <1>1, StepIsBusy, IdleHasNoStep
<1>3. PICK s, at, a :
        /\ s = call[c] /\ at \in {"capsule", "done"}
        /\ \/ Answer(c, "error")
           \/ call' = [call EXCEPT ![c] = [s EXCEPT !.ran = TRUE, !.at = at, !.answer = a]]
  <2> DEFINE proof == Proving(c) \/ call[c].req.tool = "execute_proof"
  <2>1. PICK at, a : /\ at = IF proof THEN "capsule" ELSE "done"
                     /\ a = IF proof THEN Absent ELSE "ok"
    OBVIOUS
  <2>2. \/ Answer(c, "error")
        \/ call' = [call EXCEPT ![c] = [call[c] EXCEPT !.ran = TRUE, !.at = at, !.answer = a]]
        \/ call' = [call EXCEPT ![c] = [call[c] EXCEPT !.ran = TRUE, !.at = "done", !.answer = "error"]]
    BY <2>1 DEF Run
  <2>3. at \in {"capsule", "done"} /\ "done" \in {"capsule", "done"}
    BY <2>1
  <2> QED BY <2>2, <2>3
<1> DEFINE t == [s EXCEPT !.ran = TRUE, !.at = at, !.answer = a]
<1>4. /\ DOMAIN t = CallFields /\ t.at = at /\ t.req = s.req /\ t.need = s.need
      /\ t.rounds = s.rounds /\ t.recall = s.recall /\ t.ran = TRUE /\ t.capsule = s.capsule
      /\ t.answer = a
  BY <1>2, <1>3 DEF CallOK, CallFields
<1>5. Answer(c, "error") \/ call' = [call EXCEPT ![c] = t]
  BY <1>3
<1> HIDE DEF t
<1>6. NeedOK(t)
  BY <1>2, <1>3, <1>4 DEF CallOK, NeedOK, BeforeRun
<1>7. EvidenceOK(t, cfg)
  BY <1>1, <1>2, <1>3, <1>4 DEF CallOK, EvidenceOK, BeforeRun
<1> QED BY <1>1, <1>4, <1>5, <1>6, <1>7, OneCall, AnswerStep DEF CallOK

-----------------------------------------------------------------------------
\* The capsule of a receipt, and of a negotiation that replaced its evidence.
LEMMA CapsuleClaims ==
  ASSUME NEW c, CallOK(call[c], cfg), NEW capsule,
         \/ capsule = ReceiptCapsule(c)
         \/ call[c].rounds > 0 /\ \E m \in NegotiatedEvidence : capsule = NegotiatedCapsule(c, m)
  PROVE  /\ cfg.aeon.vkey /\ Attested(capsule.mode) =>
              Attested(call[c].recall) /\ capsule.evidence = "recall" /\ call[c].req.query
         /\ Attested(call[c].recall) /\ capsule.evidence # "recall" =>
              call[c].rounds # 0 /\ capsule.evidence = "hits"
<1>1. Attested(call[c].recall) => cfg.aeon.hmac /\ call[c].req.query
  BY DEF CallOK, EvidenceOK
<1>2. /\ ReceiptCapsule(c).evidence = IF Attested(call[c].recall) THEN "recall" ELSE Absent
      /\ Attested(ReceiptCapsule(c).mode) => Attested(call[c].recall)
  BY <1>1, NotAttested DEF ReceiptCapsule, HasDigest, Attested
<1>3. CASE capsule = ReceiptCapsule(c)
  BY <1>1, <1>2, <1>3
<1>4. ASSUME call[c].rounds > 0, NEW m \in NegotiatedEvidence, capsule = NegotiatedCapsule(c, m)
      PROVE  /\ cfg.aeon.vkey /\ Attested(capsule.mode) =>
                  Attested(call[c].recall) /\ capsule.evidence = "recall" /\ call[c].req.query
             /\ Attested(call[c].recall) /\ capsule.evidence # "recall" =>
                  call[c].rounds # 0 /\ capsule.evidence = "hits"
  <2>1. \/ m = [mode |-> "Absent", evidence |-> Absent] \/ m = [mode |-> "Degraded", evidence |-> Absent]
        \/ m = [mode |-> "AttestedWithRecall", evidence |-> "hits"]
    BY DEF NegotiatedEvidence
  <2>2. cfg.aeon.vkey => ~Attested(CapUnverified(m.mode))
    BY DEF CapUnverified, Attested
  <2>3. call[c].rounds # 0
    BY <1>4 DEF CallOK, NeedOK
  <2>4. CASE m.evidence # Absent
    <3>1. m.evidence = "hits" /\ DOMAIN m = {"mode", "evidence"}
      BY <2>1, <2>4
    <3>2. capsule.mode = CapUnverified(m.mode) /\ capsule.evidence = "hits"
      BY <1>4, <2>4, <3>1 DEF NegotiatedCapsule
    <3> QED BY <2>2, <2>3, <3>2
  <2>5. CASE m.evidence = Absent /\ HasDigest(c)
    <3>1. capsule = ReceiptCapsule(c)
      BY <1>4, <2>5 DEF NegotiatedCapsule
    <3> QED BY <3>1, <1>1, <1>2
  <2>6. CASE m.evidence = Absent /\ ~HasDigest(c)
    <3>1. DOMAIN ReceiptCapsule(c) = {"mode", "evidence"}
      BY <2>6 DEF ReceiptCapsule
    <3>2. capsule.mode = CapUnverified(m.mode) /\ ~Attested(call[c].recall)
      BY <1>4, <2>6, <3>1 DEF NegotiatedCapsule, HasDigest
    <3> QED BY <2>2, <3>2
  <2> QED BY <2>4, <2>5, <2>6
<1> QED BY <1>3, <1>4

LEMMA EmitCapsuleStep ==
  ASSUME CallInv, NEW c \in Clients, EmitCapsule(c)
  PROVE  CallInv'
<1>1. call[c].at = "capsule" /\ cfg' = cfg
  BY DEF EmitCapsule
<1>2. CallOK(call[c], cfg)
  BY <1>1, StepIsBusy
<1>3. PICK s, capsule :
        /\ s = call[c]
        /\ \/ capsule = ReceiptCapsule(c)
           \/ s.rounds > 0 /\ \E m \in NegotiatedEvidence : capsule = NegotiatedCapsule(c, m)
        /\ call' = [call EXCEPT ![c] = [s EXCEPT !.at = "answer", !.capsule = capsule]]
  BY ZenonT(30) DEF EmitCapsule
<1>4. /\ cfg.aeon.vkey /\ Attested(capsule.mode) =>
           Attested(s.recall) /\ capsule.evidence = "recall" /\ s.req.query
      /\ Attested(s.recall) /\ capsule.evidence # "recall" =>
           s.rounds # 0 /\ capsule.evidence = "hits"
  BY <1>2, <1>3, CapsuleClaims
<1> DEFINE t == [s EXCEPT !.at = "answer", !.capsule = capsule]
<1>5. /\ DOMAIN t = CallFields /\ t.at = "answer" /\ t.req = s.req /\ t.need = s.need
      /\ t.rounds = s.rounds /\ t.recall = s.recall /\ t.ran = s.ran /\ t.capsule = capsule
  BY <1>2, <1>3 DEF CallOK, CallFields
<1>6. call' = [call EXCEPT ![c] = t]
  BY <1>3
<1> HIDE DEF t
<1>7. NeedOK(t)
  BY <1>2, <1>3, <1>5 DEF CallOK, NeedOK, BeforeRun
<1>8. EvidenceOK(t, cfg)
  BY <1>2, <1>3, <1>4, <1>5 DEF CallOK, EvidenceOK, BeforeRun
<1> QED BY <1>1, <1>5, <1>6, <1>7, <1>8, OneCall DEF CallOK

LEMMA RespondStep ==
  ASSUME CallInv, NEW c \in Clients, Respond(c)
  PROVE  CallInv'
<1>1. call[c].at = "answer" /\ cfg' = cfg
  BY DEF Respond
<1>2. CallOK(call[c], cfg)
  BY <1>1, StepIsBusy
<1>3. PICK s, at, a :
        /\ s = call[c] /\ at \in {"deliver", "done"}
        /\ a # "ok" => s.req.tool = "iq_execute" /\ Attested(s.recall) /\ s.capsule.evidence # "recall"
        /\ call' = [call EXCEPT ![c] = [s EXCEPT !.at = at, !.answer = a]]
  <2>1. CASE call[c].req.tool = "iq_execute" /\ HasDigest(c) /\ call[c].capsule.evidence # "recall"
    <3>1. call' = [call EXCEPT ![c] = [call[c] EXCEPT !.at = "done", !.answer = "error"]]
      BY <2>1 DEF Respond, Answer
    <3> QED BY <2>1, <3>1 DEF HasDigest
  <2>2. CASE ~(call[c].req.tool = "iq_execute" /\ HasDigest(c) /\ call[c].capsule.evidence # "recall")
    <3>1. PICK at \in {"deliver", "done"} : at = IF call[c].req.tool = "execute_proof" THEN "done" ELSE "deliver"
      OBVIOUS
    <3>2. call' = [call EXCEPT ![c] = [call[c] EXCEPT !.at = at, !.answer = "ok"]]
      BY <2>2, <3>1 DEF Respond
    <3> QED BY <3>1, <3>2
  <2> QED BY <2>1, <2>2
<1> DEFINE t == [s EXCEPT !.at = at, !.answer = a]
<1>4. /\ DOMAIN t = CallFields /\ t.at = at /\ t.req = s.req /\ t.need = s.need
      /\ t.rounds = s.rounds /\ t.recall = s.recall /\ t.ran = s.ran /\ t.capsule = s.capsule
      /\ t.answer = a
  BY <1>2, <1>3 DEF CallOK, CallFields
<1>5. call' = [call EXCEPT ![c] = t]
  BY <1>3
<1> HIDE DEF t
<1>6. NeedOK(t)
  BY <1>2, <1>3, <1>4 DEF CallOK, NeedOK, BeforeRun
<1>7. EvidenceOK(t, cfg)
  BY <1>1, <1>2, <1>3, <1>4 DEF CallOK, EvidenceOK, BeforeRun
<1> QED BY <1>1, <1>4, <1>5, <1>6, <1>7, OneCall DEF CallOK

LEMMA DeliverStep ==
  ASSUME CallInv, NEW c \in Clients, Deliver(c)
  PROVE  CallInv'
<1>1. call[c].at = "deliver" /\ cfg' = cfg
  BY DEF Deliver
<1>2. CallOK(call[c], cfg)
  BY <1>1, StepIsBusy
<1>3. PICK s, status : s = call[c] /\ call' = [call EXCEPT ![c] = [s EXCEPT !.at = "done", !.timeline = status]]
  BY DEF Deliver
<1> DEFINE t == [s EXCEPT !.at = "done", !.timeline = status]
<1>4. /\ DOMAIN t = CallFields /\ t.at = "done" /\ t.req = s.req /\ t.need = s.need
      /\ t.rounds = s.rounds /\ t.recall = s.recall /\ t.ran = s.ran /\ t.capsule = s.capsule
      /\ t.answer = s.answer
  BY <1>2, <1>3 DEF CallOK, CallFields
<1>5. call' = [call EXCEPT ![c] = t]
  BY <1>3
<1> HIDE DEF t
<1>6. NeedOK(t)
  BY <1>2, <1>3, <1>4 DEF CallOK, NeedOK, BeforeRun
<1>7. EvidenceOK(t, cfg)
  BY <1>1, <1>2, <1>3, <1>4 DEF CallOK, EvidenceOK, BeforeRun
<1> QED BY <1>1, <1>4, <1>5, <1>6, <1>7, OneCall DEF CallOK

LEMMA ReturnStep ==
  ASSUME CallInv, NEW c \in Clients, Return(c)
  PROVE  CallInv'
<1>1. call' = [call EXCEPT ![c] = Idle] /\ cfg' = cfg
  BY DEF Return
<1> QED BY <1>1, OneCall

-----------------------------------------------------------------------------
LEMMA CallInit == ServerInit => CallInv
BY DEF ServerInit, CallInv

LEMMA CallNext == CallInv /\ [ServerNext]_serverVars => CallInv'
<1> SUFFICES ASSUME CallInv, [ServerNext]_serverVars PROVE CallInv'
  OBVIOUS
<1>1. CASE UNCHANGED <<call, cfg>>
  BY <1>1 DEF CallInv
<1>2. ASSUME NEW c \in Clients, Call(c) \/ MintOne(c) \/ CheckTokens(c) \/ GiveToken(c)
                                \/ RollbackSnapshot(c) \/ CreateSnapshot(c) \/ ForkBase(c) \/ Read(c)
      PROVE  CallInv'
  BY <1>2, CallStep, MintOneStep, CheckTokensStep, ToolSteps, RollbackSnapshotStep
<1>3. ASSUME NEW c \in Clients, IqGate(c) \/ IqLimit(c) \/ Recall(c) \/ IqTokens(c)
      PROVE  CallInv'
  BY <1>3, IqSteps, RecallStep, IqTokensStep
<1>4. ASSUME NEW c \in Clients, \/ HypervisorAuthorize(c) \/ Negotiate(c) \/ InnerAuthorize(c) \/ Run(c)
                                \/ EmitCapsule(c) \/ Respond(c) \/ Deliver(c) \/ Return(c)
      PROVE  CallInv'
  BY <1>4, HypervisorAuthorizeStep, NegotiateStep, InnerAuthorizeStep, RunStep, EmitCapsuleStep,
     RespondStep, DeliverStep, ReturnStep
<1> QED BY <1>1, <1>2, <1>3, <1>4 DEF ServerNext, Pass, serverVars

\* For any clients, requests and environments: a call whose requirements were
\* denied runs with a strict, non-empty part of them found within the two
\* rounds, and one that was not runs with all of them
\* (negotiate_capability_denial_with_authorizer).
THEOREM NegotiationAlwaysNarrows == ServerSpec => []NegotiationNarrows
<1>1. CallInv => NegotiationNarrows
  BY DEF CallInv, CallOK, NeedOK, NegotiationNarrows, Busy, Proving, ProofTools
<1> QED BY CallInit, CallNext, <1>1, PTL DEF ServerSpec

\* Under a verifying key no capsule claims an attested memory for anything but
\* the verified recall of its own call, whatever other calls recall meanwhile
\* and whatever a negotiation turned up (cap_unverified_memory_mode).
THEOREM AttestationAlwaysVerified == ServerSpec => []AttestedOnlyVerified
<1>1. CallInv => AttestedOnlyVerified
  BY DEF CallInv, CallOK, EvidenceOK, AttestedOnlyVerified, Busy
<1> QED BY CallInit, CallNext, <1>1, PTL DEF ServerSpec

\* For any clients, requests and environments: a call that has its capsule ends
\* with its output, but for the one case in which the negotiated hits replaced
\* the evidence an iq call compares with.
THEOREM CapsuleAlwaysReachesCaller == ServerSpec => []CapsuleReachesCaller
<1>1. CallInv => CapsuleReachesCaller
  <2> SUFFICES ASSUME CallInv, NEW c \in Busy, call[c].capsule # NoCapsule, call[c].at = "done", call[c].answer # "ok"
               PROVE  /\ call[c].req.tool = "iq_execute" /\ call[c].rounds > 0
                      /\ HasDigest(c) /\ call[c].capsule.evidence = "hits"
    BY DEF CapsuleReachesCaller
  <2>1. CallOK(call[c], cfg)
    BY DEF CallInv, Busy
  <2> QED BY <2>1 DEF CallOK, NeedOK, EvidenceOK, HasDigest
<1> QED BY CallInit, CallNext, <1>1, PTL DEF ServerSpec

-----------------------------------------------------------------------------
(***************************************************************************)
(* The operator's policy.  Every token signed allows only what the         *)
(* operator's allowlist covers, or what some token for a namespace does:   *)
(* an issued token because the allowlist covers it, a child because its    *)
(* parent does.  Tokens never change and are never forgotten here, so this *)
(* stays so, and a call runs with what the tokens it holds allow.          *)
(***************************************************************************)
OpAllows(g, cap) == g.allow # Absent /\ \E a \in g.allow : IsSubsetOf(cap, a)
ProfAllows(g, cap) == g.profile # Absent => \E a \in g.profile.caps : Allows(a, cap)
ByNamespace(tokens, cap) ==
  \E id \in DOMAIN tokens : Namespaced(tokens[id].cap) /\ Allows(tokens[id].cap, cap)
Within(tokens, g, cap) == (OpAllows(g, cap) /\ ProfAllows(g, cap)) \/ ByNamespace(tokens, cap)
PreviewCap == [kind |-> "memory_preview"]

\* What a token allows is covered.
Covered(tokens, g, t) ==
  \A cap : CapabilityOK(cap) /\ Allows(t.cap, cap) => OpAllows(g, cap) \/ ByNamespace(tokens, cap)

ConfigOK(g) ==
  /\ g.allow # Absent => \A a \in g.allow : CapabilityOK(a)
  /\ g.profile # Absent => \A a \in g.profile.caps : CapabilityOK(a)

\* Where a call stands with its tokens and its requirements.
StageOK(s, tokens, g) ==
  /\ s.req \in Requests /\ s.toks \in Seq(DOMAIN tokens)
  /\ s.at \in {"mint", "issue", "attenuate", "tokens"} => Parses(s.req)
  /\ s.at \in {"mint", "issue", "attenuate"} => s.req.tool # "iq_execute"
  /\ s.at \in {"issue", "attenuate"} => s.req.tool \in {"issue_token", "attenuate_token"}
  /\ s.at = "fork" => s.req.tool = "fork_and_race"
  /\ s.at = "rollback" => s.req.tool = "snapshot_rollback"
  /\ s.at \in {"rollback", "authorize", "negotiate", "inner"} =>
       \A i \in DOMAIN s.toks : ProfAllows(g, tokens[s.toks[i]].cap)
  /\ s.at = "run" \/ s.ran => \A cap \in s.need : Within(tokens, g, cap)
  /\ s.preview => OpAllows(g, PreviewCap) /\ ProfAllows(g, PreviewCap)

PolicyInv ==
  /\ CallInv /\ TokenInv /\ ConfigOK(cfg)
  /\ \A id \in TokenIds : Covered(minted, cfg, minted[id])
  /\ \A c \in Clients : call[c] = Idle \/ StageOK(call[c], minted, cfg)

-----------------------------------------------------------------------------
LEMMA ScopeParses ==
  ASSUME NEW kind, NEW agent, NEW session, NEW scope \in ParseScope(kind, agent, session)
  PROVE  scope.scope \in {"agent", "session", "namespace"}
<1>1. CASE kind = "agent"
  <2>1. scope = [scope |-> "agent", agent |-> agent]
    BY <1>1 DEF ParseScope
  <2> QED BY <2>1
<1>2. CASE kind = "session" /\ agent # "" /\ session # ""
  <2>1. scope = [scope |-> "session", agent |-> agent, session |-> session]
    BY <1>2 DEF ParseScope
  <2> QED BY <2>1
<1>3. CASE kind = "namespace" /\ agent # ""
  <2>1. scope = [scope |-> "namespace", agent |-> agent]
    BY <1>3 DEF ParseScope
  <2> QED BY <2>1
<1>4. kind = "agent" \/ (kind = "session" /\ agent # "" /\ session # "") \/ (kind = "namespace" /\ agent # "")
  BY DEF ParseScope
<1> QED BY <1>1, <1>2, <1>3, <1>4

LEMMA ParsedIsOK ==
  ASSUME NEW spec, SpecOK(spec), NEW cap \in ParseCapability(spec)
  PROVE  CapabilityOK(cap)
<1>1. CASE spec.type \in PathTypes /\ spec.path # Absent
  <2>1. cap.kind = spec.type /\ cap.at = spec.path
    BY <1>1 DEF ParseCapability, PathTypes, MemoryTypes, PreviewNames
  <2> QED BY <1>1, <2>1 DEF CapabilityOK, SpecOK, PathTypes
<1>2. CASE spec.type \in MemoryTypes /\ spec.path # Absent
  <2>1. PICK scope \in ParseScope(spec.path.kind, spec.path.agent, spec.path.session) :
          cap = [kind |-> spec.type, at |-> scope]
    BY <1>2 DEF ParseCapability, PathTypes, MemoryTypes, PreviewNames
  <2>2. scope.scope \in {"agent", "session", "namespace"}
    BY ScopeParses
  <2> QED BY <1>2, <2>1, <2>2 DEF CapabilityOK, MemoryTypes
<1>3. CASE ~(spec.type \in PathTypes /\ spec.path # Absent) /\ ~(spec.type \in MemoryTypes /\ spec.path # Absent)
  <2>1. cap.kind \in {"memory_preview", "all"}
    BY <1>3 DEF ParseCapability, PathTypes, MemoryTypes, PreviewNames
  <2> QED BY <2>1 DEF CapabilityOK
<1> QED BY <1>1, <1>2, <1>3

LEMMA IqParsedIsOK ==
  ASSUME NEW spec, SpecOK(spec), NEW cap \in ParseIq(spec)
  PROVE  CapabilityOK(cap)
<1>1. CASE spec.json
  BY <1>1, ParsedIsOK DEF ParseIq
<1>2. CASE ~spec.json
  <2>1. CASE spec.type = "nexus:memory_recall"
    <3>1. cap = [kind |-> "memory_recall"]
      BY <1>2, <2>1 DEF ParseIq, PathTypes, MemoryTypes, PreviewNames, IqAlias
    <3> QED BY <3>1 DEF CapabilityOK
  <2>2. CASE spec.type \in PathTypes \cup MemoryTypes \cup PreviewNames
    <3>1. cap \in ParseCapability(spec)
      BY <1>2, <2>2 DEF ParseIq, PathTypes, MemoryTypes, PreviewNames, IqAlias
    <3> QED BY <3>1, ParsedIsOK
  <2>3. CASE spec.type \in DOMAIN IqAlias
    <3> DEFINE alias == [spec EXCEPT !.type = IqAlias[spec.type]]
    <3>1. cap \in ParseCapability(alias)
      BY <1>2, <2>3 DEF ParseIq, PathTypes, MemoryTypes, PreviewNames, IqAlias
    <3>2. /\ alias = [json |-> alias.json, type |-> alias.type, path |-> alias.path]
          /\ alias.type = IqAlias[spec.type] /\ alias.path = spec.path
      BY DEF SpecOK
    <3>3. IqAlias[spec.type] \in {"read_file", "write_file", "list_dir"} => spec.type \in {"read", "write", "list"}
      BY <2>3 DEF IqAlias
    <3>4. IqAlias[spec.type] \notin {"read", "write", "list"}
      BY <2>3 DEF IqAlias
    <3> HIDE DEF alias
    <3>5. SpecOK(alias)
      BY <3>2, <3>3, <3>4 DEF SpecOK
    <3> QED BY <3>1, <3>5, ParsedIsOK
  <2>4. CASE /\ spec.type # "nexus:memory_recall" /\ spec.type \notin PathTypes \cup MemoryTypes \cup PreviewNames
             /\ spec.type \notin DOMAIN IqAlias
    BY <1>2, <2>4 DEF ParseIq
  <2> QED BY <2>1, <2>2, <2>3, <2>4
<1> QED BY <1>1, <1>2

\* What a request requires and what it asks tokens for.
LEMMA RequiredIsOK ==
  ASSUME NEW r \in Requests
  PROVE  /\ \A i \in DOMAIN r.specs : \A cap \in RequiredOf(r, i) : CapabilityOK(cap)
         /\ \A cap \in Required(r) : CapabilityOK(cap)
         /\ r.tool \notin {"execute_wasi", "aeon_execute_timeline", "iq_execute"} => Required(r) = {}
<1>1. ASSUME NEW i \in DOMAIN r.specs, NEW cap \in RequiredOf(r, i) PROVE CapabilityOK(cap)
  <2>1. SpecOK(r.specs[i])
    BY InputsAssumption DEF SpecsOK
  <2> QED BY <2>1, ParsedIsOK, IqParsedIsOK DEF RequiredOf
<1>2. r.tool \notin {"execute_wasi", "aeon_execute_timeline", "iq_execute"} => Required(r) = {}
  <2> SUFFICES ASSUME r.tool \notin {"execute_wasi", "aeon_execute_timeline", "iq_execute"} PROVE Required(r) = {}
    OBVIOUS
  <2>1. r.specs = <<>>
    BY InputsAssumption
  <2>2. DOMAIN r.specs = {}
    BY <2>1
  <2> QED BY <2>2 DEF Required
<1> QED BY <1>1, <1>2 DEF Required

LEMMA CallerIsOK ==
  ASSUME NEW r \in Requests, Parses(r), r.tool # "iq_execute", NEW i \in DOMAIN CallerSpecs(r)
  PROVE  CapabilityOK(CallerCaps(r)[i])
<1>1. SpecOK(CallerSpecs(r)[i])
  BY InputsAssumption DEF SpecsOK, CallerSpecs
<1>2. ParseCapability(CallerSpecs(r)[i]) # {}
  BY DEF Parses
<1>3. CallerCaps(r)[i] \in ParseCapability(CallerSpecs(r)[i])
  BY <1>2, Zenon DEF CallerCaps
<1> QED BY <1>1, <1>3, ParsedIsOK

-----------------------------------------------------------------------------
\* A later token hides nothing.
Extends(tokens, more) ==
  DOMAIN tokens \subseteq DOMAIN more /\ \A id \in DOMAIN tokens : more[id] = tokens[id]

LEMMA NamespaceGrows ==
  ASSUME NEW tokens, NEW more, Extends(tokens, more), NEW cap, ByNamespace(tokens, cap)
  PROVE  ByNamespace(more, cap)
BY DEF Extends, ByNamespace

LEMMA StageGrows ==
  ASSUME NEW tokens, NEW more, Extends(tokens, more), NEW g, NEW s, StageOK(s, tokens, g)
  PROVE  StageOK(s, more, g)
<1>1. DOMAIN tokens \subseteq DOMAIN more
  BY DEF Extends
<1>2. s.toks \in Seq(DOMAIN tokens)
  BY DEF StageOK
<1>3. s.toks \in Seq(DOMAIN more) /\ \A i \in DOMAIN s.toks : s.toks[i] \in DOMAIN tokens
  BY <1>1, <1>2
<1>4. \A i \in DOMAIN s.toks : more[s.toks[i]] = tokens[s.toks[i]]
  BY <1>3 DEF Extends
<1>5. \A cap : Within(tokens, g, cap) => Within(more, g, cap)
  BY NamespaceGrows DEF Within
<1> QED BY <1>3, <1>4, <1>5 DEF StageOK

\* Stages that need nothing of the tokens.
FreeStages == {"gate", "limit", "recall", "create", "read", "capsule", "answer", "deliver", "done"}

LEMMA StageFree ==
  ASSUME NEW tokens, NEW g, NEW s, StageOK(s, tokens, g), NEW t, t.at \in FreeStages,
         t.req = s.req, t.toks = s.toks, t.need = s.need, t.preview = s.preview,
         t.ran => s.ran \/ s.at = "run"
  PROVE  StageOK(t, tokens, g)
BY DEF StageOK, FreeStages

\* An issued token is covered by the allowlist, and a child by its parent.
LEMMA IssuedIsCovered ==
  ASSUME NEW tokens, NEW g, ConfigOK(g), NEW t, CapabilityOK(t.cap), OpAllows(g, t.cap),
         \E id \in DOMAIN tokens : tokens[id] = t
  PROVE  Covered(tokens, g, t)
<1> SUFFICES ASSUME NEW cap, CapabilityOK(cap), Allows(t.cap, cap)
             PROVE  OpAllows(g, cap) \/ ByNamespace(tokens, cap)
  BY DEF Covered
<1>1. CASE Namespaced(t.cap)
  BY <1>1 DEF ByNamespace
<1>2. CASE ~Namespaced(t.cap)
  <2>1. PICK a \in g.allow : IsSubsetOf(t.cap, a) /\ CapabilityOK(a)
    BY DEF OpAllows, ConfigOK
  <2>2. Allows(a, cap)
    BY <1>2, <2>1, SubsetAllows
  <2>3. cap.kind = "all" => a.kind = "all"
    BY <2>2 DEF Allows
  <2>4. IsSubsetOf(cap, a)
    BY <2>2, <2>3 DEF IsSubsetOf
  <2> QED BY <2>4 DEF OpAllows
<1> QED BY <1>1, <1>2

LEMMA ChildIsCovered ==
  ASSUME NEW tokens, NEW g, NEW p, CapabilityOK(p.cap), Covered(tokens, g, p),
         NEW t, CapabilityOK(t.cap), IsSubsetOf(t.cap, p.cap), \E id \in DOMAIN tokens : tokens[id] = t
  PROVE  Covered(tokens, g, t)
<1> SUFFICES ASSUME NEW cap, CapabilityOK(cap), Allows(t.cap, cap)
             PROVE  OpAllows(g, cap) \/ ByNamespace(tokens, cap)
  BY DEF Covered
<1>1. CASE Namespaced(t.cap)
  BY <1>1 DEF ByNamespace
<1>2. CASE ~Namespaced(t.cap)
  <2>1. Allows(p.cap, cap)
    BY <1>2, SubsetAllows
  <2> QED BY <2>1 DEF Covered
<1> QED BY <1>1, <1>2

LEMMA CoverGrows ==
  ASSUME NEW tokens, NEW more, Extends(tokens, more), NEW g, NEW t, Covered(tokens, g, t)
  PROVE  Covered(more, g, t)
BY NamespaceGrows DEF Covered

\* What a held token is accepted for is inside the policy.
LEMMA HeldIsWithin ==
  ASSUME NEW tokens, NEW g, ConfigOK(g), NEW id \in DOMAIN tokens, CapabilityOK(tokens[id].cap),
         Covered(tokens, g, tokens[id]), ProfAllows(g, tokens[id].cap),
         NEW cap, CapabilityOK(cap), Allows(tokens[id].cap, cap)
  PROVE  Within(tokens, g, cap)
<1>1. CASE Namespaced(tokens[id].cap)
  BY <1>1 DEF Within, ByNamespace
<1>2. CASE ~Namespaced(tokens[id].cap)
  <2>1. OpAllows(g, cap) \/ ByNamespace(tokens, cap)
    BY DEF Covered
  <2>2. ProfAllows(g, cap)
    <3> SUFFICES ASSUME g.profile # Absent PROVE \E a \in g.profile.caps : Allows(a, cap)
      BY DEF ProfAllows
    <3>1. PICK a \in g.profile.caps : Allows(a, tokens[id].cap) /\ CapabilityOK(a)
      BY DEF ProfAllows, ConfigOK
    <3>2. Allows(a, cap)
      BY <1>2, <3>1, AllowsIsTransitive
    <3> QED BY <3>2
  <2> QED BY <2>1, <2>2 DEF Within
<1> QED BY <1>1, <1>2

-----------------------------------------------------------------------------
\* One call changes, and perhaps tokens are signed.
LEMMA PolicyStep ==
  ASSUME PolicyInv, CallInv', TokenInv', cfg' = cfg, Extends(minted, minted'),
         \A id \in TokenIds' : Covered(minted', cfg, minted'[id]),
         NEW c \in Clients, NEW t, t = Idle \/ StageOK(t, minted', cfg), call' = [call EXCEPT ![c] = t]
  PROVE  PolicyInv'
<1>1. ASSUME NEW q \in Clients PROVE call'[q] = Idle \/ StageOK(call'[q], minted', cfg)
  <2>1. call'[q] = IF q = c THEN t ELSE call[q]
    BY DEF PolicyInv, CallInv
  <2>2. call[q] = Idle \/ StageOK(call[q], minted, cfg)
    BY DEF PolicyInv
  <2>3. PICK m : m = minted'
    OBVIOUS
  <2>4. Extends(minted, m)
    BY <2>3
  <2>5. call[q] = Idle \/ StageOK(call[q], m, cfg)
    BY <2>2, <2>4, StageGrows
  <2> QED BY <2>1, <2>3, <2>5
<1> QED BY <1>1 DEF PolicyInv

\* No token is signed.
LEMMA QuietStep ==
  ASSUME PolicyInv, CallInv', UNCHANGED <<minted, active, cfg>>,
         NEW c \in Clients, NEW t, t = Idle \/ StageOK(t, minted, cfg), call' = [call EXCEPT ![c] = t]
  PROVE  PolicyInv'
<1>1. TokenInv'
  BY TokenUnchanged DEF PolicyInv
<1>2. Extends(minted, minted')
  BY DEF Extends
<1>3. \A id \in TokenIds' : Covered(minted', cfg, minted'[id])
  BY DEF PolicyInv, TokenIds
<1> QED BY <1>1, <1>2, <1>3, PolicyStep

\* Tokens are signed: each issued inside the allowlist or as a child.
LEMMA SignedStep ==
  ASSUME PolicyInv, CallInv', cfg' = cfg, NEW tokens, tokens \in Seq(Range(tokens)), Mint(tokens),
         \A i \in DOMAIN tokens : /\ NewTokenOK(tokens[i])
                                  /\ tokens[i].parent = Root => OpAllows(cfg, tokens[i].cap)
  PROVE  /\ TokenInv' /\ Extends(minted, minted')
         /\ \A id \in TokenIds' : Covered(minted', cfg, minted'[id])
         /\ \A i \in DOMAIN tokens : Len(minted) + i \in DOMAIN minted' /\ minted'[Len(minted) + i] = tokens[i]
<1>1. /\ TokenInv' /\ TokenInv
      /\ TokenIds' = 1 .. Len(minted) + Len(tokens) /\ TokenIds \subseteq TokenIds'
      /\ \A id \in TokenIds : minted'[id] = minted[id]
      /\ \A i \in DOMAIN tokens : minted'[Len(minted) + i] = tokens[i]
  BY MintKeeps DEF PolicyInv
<1>2. PICK m : m = minted'
  OBVIOUS
<1>3. Extends(minted, m)
  BY <1>1, <1>2 DEF Extends, TokenIds
<1>4. DOMAIN tokens = 1 .. Len(tokens) /\ Len(tokens) \in Nat /\ Len(minted) \in Nat /\ TokenIds = 1 .. Len(minted)
  BY <1>1 DEF TokenInv, TokensOK, TokenIds
<1>5. \A i \in DOMAIN tokens : Len(minted) + i \in DOMAIN m /\ m[Len(minted) + i] = tokens[i]
  BY <1>1, <1>2, <1>4 DEF TokenIds
<1>6. \A id \in TokenIds : Covered(m, cfg, minted[id]) /\ m[id] = minted[id] /\ CapabilityOK(minted[id].cap)
  <2> SUFFICES ASSUME NEW id \in TokenIds
               PROVE  Covered(m, cfg, minted[id]) /\ m[id] = minted[id] /\ CapabilityOK(minted[id].cap)
    OBVIOUS
  <2>1. Covered(minted, cfg, minted[id])
    BY DEF PolicyInv
  <2>2. Covered(m, cfg, minted[id])
    BY <1>3, <2>1, CoverGrows
  <2> QED BY <1>1, <1>2, <2>2 DEF TokenInv, TokensOK, TokenOK, TokenIds
<1>7. ASSUME NEW id \in TokenIds' PROVE Covered(m, cfg, m[id])
  <2>1. CASE id \in TokenIds
    BY <1>6, <2>1
  <2>2. CASE id \notin TokenIds
    <3>1. PICK i \in DOMAIN tokens : id = Len(minted) + i
      <4>1. id \in 1 .. Len(minted) + Len(tokens)
        BY <1>1
      <4>2. id - Len(minted) \in DOMAIN tokens /\ id = Len(minted) + (id - Len(minted))
        BY <1>4, <2>2, <4>1
      <4> QED BY <4>2
    <3>2. PICK t : t = tokens[i]
      OBVIOUS
    <3>3. m[id] = t /\ id \in DOMAIN m /\ NewTokenOK(t) /\ (t.parent = Root => OpAllows(cfg, t.cap))
      BY <1>5, <3>1, <3>2
    <3>4. CapabilityOK(t.cap) /\ \E j \in DOMAIN m : m[j] = t
      BY <3>3 DEF NewTokenOK
    <3>5. CASE t.parent = Root
      BY <3>3, <3>4, <3>5, IssuedIsCovered DEF PolicyInv
    <3>6. CASE t.parent # Root
      <4>1. PICK p \in TokenIds : p = t.parent /\ IsSubsetOf(t.cap, minted[p].cap)
        BY <3>3, <3>6 DEF NewTokenOK, Token
      <4>2. Covered(m, cfg, minted[p]) /\ CapabilityOK(minted[p].cap)
        BY <1>6
      <4> QED BY <3>3, <3>4, <4>1, <4>2, ChildIsCovered
    <3> QED BY <3>5, <3>6
  <2> QED BY <2>1, <2>2
<1> QED BY <1>1, <1>2, <1>3, <1>5, <1>7

LEMMA StepHasStage ==
  ASSUME PolicyInv, NEW c \in Clients, call[c].at # "idle"
  PROVE  CallOK(call[c], cfg) /\ StageOK(call[c], minted, cfg) /\ c \in DOMAIN call
BY StepIsBusy, IdleHasNoStep DEF PolicyInv

\* Answering, and going on to a stage that needs nothing of the tokens.
LEMMA FreeStep ==
  ASSUME NEW s, CallOK(s, cfg), StageOK(s, minted, cfg), NEW at \in FreeStages
  PROVE  /\ StageOK([s EXCEPT !.at = at], minted, cfg)
         /\ \A a : StageOK([s EXCEPT !.at = at, !.answer = a], minted, cfg)
<1> DEFINE t == [s EXCEPT !.at = at]
<1>1. t.at = at /\ t.req = s.req /\ t.toks = s.toks /\ t.need = s.need /\ t.preview = s.preview /\ t.ran = s.ran
  BY DEF CallOK, CallFields
<1>2. StageOK(t, minted, cfg)
  <2> HIDE DEF t
  <2> QED BY <1>1, StageFree
<1>3. ASSUME NEW a PROVE StageOK([s EXCEPT !.at = at, !.answer = a], minted, cfg)
  <2> DEFINE u == [s EXCEPT !.at = at, !.answer = a]
  <2>1. u.at = at /\ u.req = s.req /\ u.toks = s.toks /\ u.need = s.need /\ u.preview = s.preview /\ u.ran = s.ran
    BY DEF CallOK, CallFields
  <2> HIDE DEF u
  <2>2. StageOK(u, minted, cfg)
    BY <2>1, StageFree
  <2> QED BY <2>2 DEF u
<1> QED BY <1>2, <1>3

LEMMA DeniedStage ==
  ASSUME NEW s, CallOK(s, cfg), StageOK(s, minted, cfg)
  PROVE  StageOK(Denied(s), minted, cfg)
BY FreeStep DEF Denied, FreeStages

\* An answer, or a step on to such a stage, with no token signed.
LEMMA FreeAnswer ==
  ASSUME PolicyInv, CallInv', UNCHANGED <<minted, active, cfg>>, NEW c \in Clients, call[c].at # "idle",
         \/ \E a : Answer(c, a)
         \/ \E at \in FreeStages : Advance(c, at)
         \/ Deny(c)
  PROVE  PolicyInv'
<1>1. PICK s : s = call[c] /\ CallOK(s, cfg) /\ StageOK(s, minted, cfg)
  BY StepHasStage
<1>2. CASE \E a : Answer(c, a)
  <2>1. PICK a : call' = [call EXCEPT ![c] = [s EXCEPT !.at = "done", !.answer = a]]
    BY <1>1, <1>2 DEF Answer
  <2>2. StageOK([s EXCEPT !.at = "done", !.answer = a], minted, cfg)
    BY <1>1, FreeStep DEF FreeStages
  <2> QED BY <2>1, <2>2, QuietStep
<1>3. CASE \E at \in FreeStages : Advance(c, at)
  <2>1. PICK at \in FreeStages : call' = [call EXCEPT ![c] = [s EXCEPT !.at = at]]
    BY <1>1, <1>3 DEF Advance
  <2>2. StageOK([s EXCEPT !.at = at], minted, cfg)
    BY <1>1, FreeStep
  <2> QED BY <2>1, <2>2, QuietStep
<1>4. CASE Deny(c)
  <2>1. call' = [call EXCEPT ![c] = Denied(s)]
    BY <1>1, <1>4 DEF Deny
  <2>2. StageOK(Denied(s), minted, cfg)
    BY <1>1, DeniedStage
  <2> QED BY <2>1, <2>2, QuietStep
<1> QED BY <1>2, <1>3, <1>4

LEMMA CallPolicy ==
  ASSUME PolicyInv, CallInv', NEW c \in Clients, Call(c)
  PROVE  PolicyInv'
<1>1. UNCHANGED <<minted, active, cfg>>
  BY DEF Call
<1>2. PICK r \in Requests : \E pid, fits : call' = [call EXCEPT ![c] = Opened(r, pid, fits)]
  BY DEF Call
<1>3. PICK pid, fits : call' = [call EXCEPT ![c] = Opened(r, pid, fits)]
  BY <1>2
<1> DEFINE s == Started(r, pid, FirstStep(r.tool))
           t == Opened(r, pid, fits)
<1>4. /\ s.at = FirstStep(r.tool) /\ s.req = r /\ s.toks = <<>> /\ s.need = Required(r)
      /\ s.ran = FALSE /\ s.preview = FALSE /\ DOMAIN s = CallFields
  BY DEF Started, CallFields
<1>5. \/ t = s /\ (r.tool # "iq_execute" => Parses(r))
      \/ t = Denied(s)
      \/ \E why : t = [s EXCEPT !.at = "done", !.answer = why]
  BY DEF Opened
<1>6. t = s => t.at = FirstStep(r.tool)
  BY <1>4
<1>7. /\ t.req = r /\ t.toks = <<>> /\ t.need = Required(r) /\ t.ran = FALSE /\ t.preview = FALSE
      /\ (t = s /\ (r.tool # "iq_execute" => Parses(r))) \/ t.at \in {"deliver", "done"}
  <2> HIDE DEF s, t
  <2>1. CASE t = s /\ (r.tool # "iq_execute" => Parses(r))
    BY <1>4, <2>1
  <2>2. CASE t = Denied(s)
    BY <1>4, <2>2 DEF Denied, CallFields
  <2>3. ASSUME NEW why, t = [s EXCEPT !.at = "done", !.answer = why]
        PROVE  /\ t.req = r /\ t.toks = <<>> /\ t.need = Required(r) /\ t.ran = FALSE /\ t.preview = FALSE
               /\ t.at \in {"deliver", "done"}
    BY <1>4, <2>3 DEF CallFields
  <2> QED BY <1>5, <2>1, <2>2, <2>3
<1> HIDE DEF s, t
<1>8. <<>> \in Seq(DOMAIN minted)
  OBVIOUS
<1>9. StageOK(t, minted, cfg)
  <2>1. CASE t.at \in {"deliver", "done"}
    BY <1>7, <1>8, <2>1 DEF StageOK
  <2>2. CASE t = s /\ (r.tool # "iq_execute" => Parses(r))
    <3>1. /\ FirstStep(r.tool) \in {"gate", "mint", "fork", "run", "create", "issue", "attenuate", "read"}
          /\ FirstStep(r.tool) \in {"mint", "issue", "attenuate"} => r.tool # "iq_execute"
          /\ FirstStep(r.tool) \in {"issue", "attenuate"} => r.tool \in {"issue_token", "attenuate_token"}
          /\ FirstStep(r.tool) = "fork" => r.tool = "fork_and_race"
          /\ FirstStep(r.tool) = "run" => r.tool \notin {"execute_wasi", "aeon_execute_timeline", "iq_execute"}
      BY DEF FirstStep, WithTokens, Executing
    <3>2. FirstStep(r.tool) = "run" => t.need = {}
      BY <1>7, <3>1, RequiredIsOK
    <3>3. t.at = FirstStep(r.tool)
      BY <1>6, <2>2
    <3> QED BY <1>7, <1>8, <2>2, <3>1, <3>2, <3>3 DEF StageOK
  <2> QED BY <1>7, <2>1, <2>2
<1>10. call' = [call EXCEPT ![c] = t]
  BY <1>3 DEF t
<1> QED BY <1>1, <1>9, <1>10, QuietStep

\* The tokens a stage holds, after one more.
LEMMA MintOnePolicy ==
  ASSUME PolicyInv, CallInv', NEW c \in Clients, MintOne(c)
  PROVE  PolicyInv'
<1>1. call[c].at = "mint" /\ call[c].at # "idle" /\ cfg' = cfg
  BY DEF MintOne
<1>2. PICK s : s = call[c] /\ CallOK(s, cfg) /\ StageOK(s, minted, cfg)
  BY <1>1, StepHasStage
<1>3. CASE (\E a : Answer(c, a)) /\ UNCHANGED <<minted, active>>
  BY <1>1, <1>3, FreeAnswer
<1>4. CASE ~((\E a : Answer(c, a)) /\ UNCHANGED <<minted, active>>)
  <2>1. PICK i, cap, pid : i = Len(s.toks) + 1 /\ cap = CallerCaps(s.req)[i] /\ pid = s.pid
    OBVIOUS
  <2>2. PICK token : token = IF pid # Absent THEN ChildToken(pid, cap, MaxValidity)
                             ELSE IssuedToken(cap, MaxValidity)
    OBVIOUS
  <2>3. /\ i \in DOMAIN CallerSpecs(s.req) /\ Mint(<<token>>)
        /\ IF pid # Absent THEN CanAttenuate(pid, cap) ELSE OperatorAllows(cap)
        /\ call' = [call EXCEPT ![c].toks = Append(@, NextId)]
    BY <1>2, <1>4, <2>1, <2>2 DEF MintOne
  <2>4. s.req \in Requests /\ Parses(s.req) /\ s.req.tool # "iq_execute" /\ s.toks \in Seq(DOMAIN minted)
    BY <1>1, <1>2 DEF StageOK
  <2>5. CapabilityOK(cap)
    BY <2>1, <2>3, <2>4, CallerIsOK
  <2>6. NewTokenOK(token) /\ (token.parent = Root => OpAllows(cfg, token.cap))
    <3>1. CASE pid # Absent
      <4>1. NewTokenOK(token) /\ token.parent = pid
        BY <2>2, <2>3, <2>5, <3>1, ChildIsOK DEF PolicyInv, ChildToken
      <4>2. pid # Root
        BY <2>3, <3>1 DEF CanAttenuate, PolicyInv, TokenInv, TokensOK, TokenIds, Root
      <4> QED BY <4>1, <4>2
    <3>2. CASE pid = Absent
      <4>1. token.cap = cap /\ NewTokenOK(token)
        BY <2>2, <2>5, <3>2, IssuedIsOK DEF IssuedToken
      <4> QED BY <2>3, <3>2, <4>1 DEF OperatorAllows, OpAllows
    <3> QED BY <3>1, <3>2
  <2>7. PICK m : m = minted'
    OBVIOUS
  <2>8. /\ TokenInv' /\ Extends(minted, m) /\ \A id \in TokenIds' : Covered(m, cfg, m[id])
        /\ Len(minted) + 1 \in DOMAIN m
    <3>1. /\ TokenInv' /\ Extends(minted, minted')
          /\ \A id \in TokenIds' : Covered(minted', cfg, minted'[id])
          /\ \A j \in DOMAIN <<token>> : Len(minted) + j \in DOMAIN minted'
      BY <1>1, <2>3, <2>6, OneToken, SignedStep, ZenonT(30)
    <3> QED BY <2>7, <3>1, OneToken
  <2> DEFINE t == [s EXCEPT !.toks = Append(s.toks, NextId)]
  <2>9. /\ t.at = "mint" /\ t.req = s.req /\ t.toks = Append(s.toks, NextId) /\ t.need = s.need
        /\ t.preview = s.preview /\ t.ran = s.ran
    BY <1>1, <1>2 DEF CallOK, CallFields
  <2>10. call' = [call EXCEPT ![c] = t]
    BY <1>2, <2>3
  <2> HIDE DEF t
  <2>11. StageOK(s, m, cfg)
    BY <1>2, <2>8, StageGrows
  <2>12. t.toks \in Seq(DOMAIN m)
    <3>1. s.toks \in Seq(DOMAIN m) /\ NextId \in DOMAIN m
      BY <2>8, <2>11 DEF StageOK, NextId
    <3> QED BY <2>9, <3>1
  <2>13. StageOK(t, m, cfg)
    BY <1>1, <1>2, <2>9, <2>11, <2>12 DEF StageOK
  <2> QED BY <1>1, <2>7, <2>8, <2>10, <2>13, PolicyStep
<1> QED BY <1>3, <1>4

LEMMA CheckTokensPolicy ==
  ASSUME PolicyInv, CallInv', NEW c \in Clients, CheckTokens(c)
  PROVE  PolicyInv'
<1>1. call[c].at = "mint" /\ call[c].at # "idle" /\ UNCHANGED <<minted, active, cfg>>
  BY DEF CheckTokens
<1>2. PICK s : s = call[c] /\ CallOK(s, cfg) /\ StageOK(s, minted, cfg)
  BY <1>1, StepHasStage
<1>3. CASE ~TokensPass(Held(c))
  BY <1>1, <1>3, FreeAnswer DEF CheckTokens
<1>4. CASE TokensPass(Held(c))
  <2>1. PICK at : at = IF s.req.tool = "snapshot_rollback" THEN "rollback" ELSE "authorize"
    OBVIOUS
  <2> DEFINE t == [s EXCEPT !.at = at]
  <2>2. call' = [call EXCEPT ![c] = t]
    BY <1>2, <1>4, <2>1 DEF CheckTokens, Advance
  <2>3. /\ t.at = at /\ t.req = s.req /\ t.toks = s.toks /\ t.need = s.need
        /\ t.preview = s.preview /\ t.ran = s.ran
    BY <1>2 DEF CallOK, CallFields
  <2>4. \A i \in DOMAIN s.toks : ProfAllows(cfg, minted[s.toks[i]].cap)
    BY <1>2, <1>4 DEF TokensPass, Held, ToSet, ProfileAllows, ProfAllows, Token
  <2>5. s.ran = FALSE
    BY <1>1, <1>2 DEF CallOK, EvidenceOK, BeforeRun
  <2> HIDE DEF t
  <2>6. StageOK(t, minted, cfg)
    BY <1>2, <2>1, <2>3, <2>4, <2>5 DEF StageOK
  <2> QED BY <1>1, <2>2, <2>6, QuietStep
<1> QED BY <1>3, <1>4

\* A token is signed and the call goes on to a stage that needs none of it.
LEMMA SignedFree ==
  ASSUME PolicyInv, CallInv', cfg' = cfg, NEW c \in Clients, call[c].at # "idle",
         NEW token, Mint(<<token>>), NewTokenOK(token), token.parent = Root => OpAllows(cfg, token.cap),
         (\E a : Answer(c, a)) \/ \E at \in FreeStages : Advance(c, at)
  PROVE  PolicyInv'
<1>1. PICK s : s = call[c] /\ CallOK(s, cfg) /\ StageOK(s, minted, cfg)
  BY StepHasStage
<1>2. PICK m : m = minted'
  OBVIOUS
<1>3. TokenInv' /\ Extends(minted, m) /\ \A id \in TokenIds' : Covered(m, cfg, m[id])
  <2>1. /\ TokenInv' /\ Extends(minted, minted')
        /\ \A id \in TokenIds' : Covered(minted', cfg, minted'[id])
    BY OneToken, SignedStep
  <2> QED BY <1>2, <2>1
<1>4. PICK t : StageOK(t, minted, cfg) /\ call' = [call EXCEPT ![c] = t]
  <2>1. CASE \E a : Answer(c, a)
    <3>1. PICK a : call' = [call EXCEPT ![c] = [s EXCEPT !.at = "done", !.answer = a]]
      BY <1>1, <2>1 DEF Answer
    <3>2. StageOK([s EXCEPT !.at = "done", !.answer = a], minted, cfg)
      BY <1>1, FreeStep DEF FreeStages
    <3> QED BY <3>1, <3>2
  <2>2. CASE \E at \in FreeStages : Advance(c, at)
    <3>1. PICK at \in FreeStages : call' = [call EXCEPT ![c] = [s EXCEPT !.at = at]]
      BY <1>1, <2>2 DEF Advance
    <3>2. StageOK([s EXCEPT !.at = at], minted, cfg)
      BY <1>1, FreeStep
    <3> QED BY <3>1, <3>2
  <2> QED BY <2>1, <2>2
<1>5. StageOK(t, m, cfg)
  BY <1>3, <1>4, StageGrows
<1> QED BY <1>2, <1>3, <1>4, <1>5, PolicyStep

LEMMA GiveTokenPolicy ==
  ASSUME PolicyInv, CallInv', NEW c \in Clients, GiveToken(c)
  PROVE  PolicyInv'
<1>1. call[c].at \in {"issue", "attenuate"} /\ call[c].at # "idle" /\ cfg' = cfg
  BY DEF GiveToken
<1>2. PICK s : s = call[c] /\ CallOK(s, cfg) /\ StageOK(s, minted, cfg)
  BY <1>1, StepHasStage
<1>3. CASE (\E a : Answer(c, a)) /\ UNCHANGED <<minted, active>>
  BY <1>1, <1>3, FreeAnswer
<1>4. CASE ~((\E a : Answer(c, a)) /\ UNCHANGED <<minted, active>>)
  <2>1. PICK cap, pid : cap = CallerCaps(s.req)[1] /\ pid = s.pid
    OBVIOUS
  <2>2. PICK token : token = IF s.at = "issue" THEN IssuedToken(cap, MaxValidity)
                             ELSE ChildToken(pid, cap, MaxValidity)
    OBVIOUS
  <2>3. /\ s.at = "attenuate" => CanAttenuate(pid, cap)
        /\ s.at = "issue" => OperatorAllows(cap)
        /\ Mint(<<token>>) /\ Answer(c, "ok")
    BY <1>2, <1>4, <2>1, <2>2 DEF GiveToken
  <2>4. /\ s.req \in Requests /\ Parses(s.req) /\ s.req.tool # "iq_execute"
        /\ s.req.tool \in {"issue_token", "attenuate_token"}
    BY <1>1, <1>2 DEF StageOK
  <2>5. 1 \in DOMAIN CallerSpecs(s.req)
    <3>1. s.req.caller # Absent /\ Len(s.req.caller) = 1 /\ SpecsOK(s.req.caller)
      BY <2>4, InputsAssumption
    <3>2. s.req.caller \in Seq(ToSet(s.req.caller))
      BY <3>1 DEF SpecsOK
    <3> QED BY <3>1, <3>2 DEF CallerSpecs
  <2>6. CapabilityOK(cap)
    BY <2>1, <2>4, <2>5, CallerIsOK
  <2>7. NewTokenOK(token) /\ (token.parent = Root => OpAllows(cfg, token.cap))
    <3>1. CASE s.at = "attenuate"
      <4>1. NewTokenOK(token) /\ token.parent = pid
        BY <2>2, <2>3, <2>6, <3>1, ChildIsOK DEF PolicyInv, ChildToken
      <4>2. pid # Root
        BY <2>3, <3>1 DEF CanAttenuate, PolicyInv, TokenInv, TokensOK, TokenIds, Root
      <4> QED BY <4>1, <4>2
    <3>2. CASE s.at = "issue"
      <4>1. token.cap = cap /\ NewTokenOK(token)
        BY <2>2, <2>6, <3>2, IssuedIsOK DEF IssuedToken
      <4> QED BY <2>3, <3>2, <4>1 DEF OperatorAllows, OpAllows
    <3> QED BY <1>1, <1>2, <3>1, <3>2
  <2> QED BY <1>1, <2>3, <2>7, SignedFree
<1> QED BY <1>3, <1>4

\* A preview goes to a token that passed the profile and whose parents lead to
\* the allowlist; a namespace of memory allows none.
LEMMA RollbackPolicy ==
  ASSUME PolicyInv, CallInv', NEW c \in Clients, RollbackSnapshot(c)
  PROVE  PolicyInv'
<1>1. call[c].at = "rollback" /\ call[c].at # "idle" /\ UNCHANGED <<minted, active, cfg>>
  BY DEF RollbackSnapshot
<1>2. PICK s : s = call[c] /\ CallOK(s, cfg) /\ StageOK(s, minted, cfg)
  BY <1>1, StepHasStage
<1>3. CASE Answer(c, "error")
  BY <1>1, <1>3, FreeAnswer
<1>4. CASE ~Answer(c, "error")
  <2>1. PICK seen : seen = (s.req.restore /\ \E id \in Held(c) : IsValid(Token(id)) /\ Allows(Token(id).cap, PreviewCap))
    OBVIOUS
  <2> DEFINE t == [s EXCEPT !.at = "done", !.answer = "ok", !.ran = TRUE, !.preview = seen]
  <2>2. call' = [call EXCEPT ![c] = t]
    BY <1>2, <1>4, <2>1 DEF RollbackSnapshot, PreviewCap
  <2>3. t.at = "done" /\ t.req = s.req /\ t.toks = s.toks /\ t.need = s.need /\ t.preview = seen
    BY <1>2 DEF CallOK, CallFields
  <2> HIDE DEF t
  <2>4. s.need = {}
    <3>1. s.need \subseteq Required(s.req)
      BY <1>2 DEF CallOK, NeedOK
    <3>2. Required(s.req) = {}
      BY <1>1, <1>2, RequiredIsOK DEF StageOK
    <3> QED BY <3>1, <3>2
  <2>5. ASSUME seen PROVE OpAllows(cfg, PreviewCap) /\ ProfAllows(cfg, PreviewCap)
    <3>1. PICK i \in DOMAIN s.toks : Allows(minted[s.toks[i]].cap, PreviewCap)
      BY <1>2, <2>1, <2>5 DEF Held, ToSet, Token
    <3>2. PICK id \in DOMAIN minted : id = s.toks[i]
      BY <1>2, <3>1 DEF StageOK
    <3>3. ProfAllows(cfg, minted[id].cap) /\ Allows(minted[id].cap, PreviewCap)
      BY <1>1, <1>2, <3>1, <3>2 DEF StageOK
    <3>4. CapabilityOK(minted[id].cap) /\ Covered(minted, cfg, minted[id]) /\ ConfigOK(cfg)
      BY DEF PolicyInv, TokenInv, TokensOK, TokenOK, TokenIds
    <3>5. CapabilityOK(PreviewCap)
      BY DEF CapabilityOK, PreviewCap
    <3>6. Within(minted, cfg, PreviewCap)
      BY <3>3, <3>4, <3>5, HeldIsWithin
    <3>7. ~ByNamespace(minted, PreviewCap)
      BY DEF ByNamespace, Namespaced, Allows, PreviewCap
    <3> QED BY <3>6, <3>7 DEF Within
  <2>6. StageOK(t, minted, cfg)
    BY <1>2, <2>3, <2>4, <2>5 DEF StageOK
  <2> QED BY <1>1, <2>2, <2>6, QuietStep
<1> QED BY <1>3, <1>4

\* A call goes on to run with requirements that are within the policy.
LEMMA RunsWithin ==
  ASSUME PolicyInv, CallInv', UNCHANGED <<minted, active, cfg>>, NEW c \in Clients, call[c].at # "idle",
         Advance(c, "run"), \A cap \in call[c].need : Within(minted, cfg, cap)
  PROVE  PolicyInv'
<1>1. PICK s : s = call[c] /\ CallOK(s, cfg) /\ StageOK(s, minted, cfg)
  BY StepHasStage
<1> DEFINE t == [s EXCEPT !.at = "run"]
<1>2. call' = [call EXCEPT ![c] = t]
  BY <1>1 DEF Advance
<1>3. t.at = "run" /\ t.req = s.req /\ t.toks = s.toks /\ t.need = s.need /\ t.preview = s.preview
  BY <1>1 DEF CallOK, CallFields
<1> HIDE DEF t
<1>4. StageOK(t, minted, cfg)
  BY <1>1, <1>3 DEF StageOK
<1> QED BY <1>2, <1>4, QuietStep

LEMMA ForkBasePolicy ==
  ASSUME PolicyInv, CallInv', NEW c \in Clients, ForkBase(c)
  PROVE  PolicyInv'
<1>1. call[c].at = "fork" /\ call[c].at # "idle" /\ UNCHANGED <<minted, active, cfg>>
  BY DEF ForkBase
<1>2. PICK s : s = call[c] /\ CallOK(s, cfg) /\ StageOK(s, minted, cfg)
  BY <1>1, StepHasStage
<1>3. s.need = {}
  <2>1. s.need \subseteq Required(s.req)
    BY <1>2 DEF CallOK, NeedOK
  <2>2. Required(s.req) = {}
    BY <1>1, <1>2, RequiredIsOK DEF StageOK
  <2> QED BY <2>1, <2>2
<1>4. Advance(c, "run") \/ Answer(c, "error")
  BY DEF ForkBase
<1> QED BY <1>1, <1>2, <1>3, <1>4, RunsWithin, FreeAnswer

LEMMA QuietTools ==
  ASSUME PolicyInv, CallInv', NEW c \in Clients, CreateSnapshot(c) \/ Read(c) \/ IqLimit(c)
  PROVE  PolicyInv'
<1>1. call[c].at # "idle" /\ UNCHANGED <<minted, active, cfg>>
  BY DEF CreateSnapshot, Read, IqLimit
<1>2. (\E a : Answer(c, a)) \/ Advance(c, "recall")
  BY DEF CreateSnapshot, Read, IqLimit
<1> QED BY <1>1, <1>2, FreeAnswer DEF FreeStages

LEMMA IqGatePolicy ==
  ASSUME PolicyInv, CallInv', NEW c \in Clients, IqGate(c)
  PROVE  PolicyInv'
<1>1. call[c].at = "gate" /\ call[c].at # "idle" /\ cfg' = cfg
  BY DEF IqGate
<1>2. PICK cap : cap = MemoryScopeOf(call[c].req)
  OBVIOUS
<1>3. CASE Advance(c, "limit") /\ UNCHANGED <<minted, active>>
  BY <1>1, <1>3, FreeAnswer DEF FreeStages
<1>4. CASE ~(Advance(c, "limit") /\ UNCHANGED <<minted, active>>)
  <2>1. PICK token : token = IssuedToken(cap, MaxValidity)
    OBVIOUS
  <2>2. /\ OperatorAllows(cap) /\ Mint(<<token>>)
        /\ Advance(c, "limit") \/ Answer(c, "error")
    BY <1>2, <1>4, <2>1 DEF IqGate
  <2>3. CapabilityOK(cap)
    BY <1>2 DEF MemoryScopeOf, CapabilityOK
  <2>4. NewTokenOK(token) /\ token.cap = cap
    BY <2>1, <2>3, IssuedIsOK DEF IssuedToken
  <2>5. OpAllows(cfg, token.cap)
    BY <2>2, <2>4 DEF OperatorAllows, OpAllows
  <2> QED BY <1>1, <2>2, <2>4, <2>5, SignedFree DEF FreeStages
<1> QED BY <1>3, <1>4

LEMMA RecallPolicy ==
  ASSUME PolicyInv, CallInv', NEW c \in Clients, Recall(c)
  PROVE  PolicyInv'
<1>1. call[c].at = "recall" /\ call[c].at # "idle" /\ UNCHANGED <<minted, active, cfg>>
  BY DEF Recall
<1>2. PICK s : s = call[c] /\ CallOK(s, cfg) /\ StageOK(s, minted, cfg)
  BY <1>1, StepHasStage
<1>3. PICK mode, at, a :
        /\ at = IF ~Parses(s.req) THEN "done" ELSE IF s.need = {} THEN "run" ELSE "tokens"
        /\ call' = [call EXCEPT ![c] = [s EXCEPT !.recall = mode, !.at = at, !.answer = a]]
  <2>1. PICK mode \in RecallOutcomes(call[c].req.query) :
          call' = [call EXCEPT ![c] = [call[c] EXCEPT !.recall = mode,
            !.at = IF ~Parses(call[c].req) THEN "done"
                   ELSE IF call[c].need = {} THEN "run" ELSE "tokens",
            !.answer = IF Parses(call[c].req) THEN Absent ELSE "error"]]
    BY ZenonT(30) DEF Recall
  <2> QED BY <1>2, <2>1
<1> DEFINE t == [s EXCEPT !.recall = mode, !.at = at, !.answer = a]
<1>4. t.at = at /\ t.req = s.req /\ t.toks = s.toks /\ t.need = s.need /\ t.preview = s.preview /\ t.ran = s.ran
  BY <1>2 DEF CallOK, CallFields
<1>5. call' = [call EXCEPT ![c] = t]
  BY <1>3
<1>6. s.ran = FALSE
  BY <1>1, <1>2 DEF CallOK, EvidenceOK, BeforeRun
<1> HIDE DEF t
<1>7. StageOK(t, minted, cfg)
  BY <1>2, <1>3, <1>4, <1>6 DEF StageOK
<1> QED BY <1>1, <1>5, <1>7, QuietStep

-----------------------------------------------------------------------------
\* g is what is granted of the first n capabilities of a list.
GrantedUpTo(caps, n, g) ==
  g = [i \in 0 .. n |-> IF i = 0 THEN <<>>
                        ELSE IF OperatorAllows(caps[i]) THEN Append(g[i - 1], caps[i]) ELSE g[i - 1]]

LEMMA GrantedWalks ==
  ASSUME NEW caps, NEW n \in Nat
  PROVE  \E g : GrantedUpTo(caps, n, g)
<1> DEFINE S == {m \in 0 .. n : \E g : GrantedUpTo(caps, m, g)}
<1>1. 0 \in S
  <2> DEFINE g == [i \in 0 .. 0 |-> <<>>]
  <2>1. GrantedUpTo(caps, 0, g)
    BY DEF GrantedUpTo
  <2> QED BY <2>1
<1>2. ASSUME NEW m \in 0 .. n, m # n, m \in S PROVE m + 1 \in S
  <2>1. PICK g : GrantedUpTo(caps, m, g)
    BY <1>2
  <2> DEFINE h == [i \in 0 .. m + 1 |-> IF i = 0 THEN <<>>
                     ELSE IF OperatorAllows(caps[i]) THEN Append(g[i - 1], caps[i]) ELSE g[i - 1]]
  <2>2. \A i \in 0 .. m : i \in 0 .. m + 1
    OBVIOUS
  <2>3. \A i \in 0 .. m : h[i] = g[i]
    BY <2>1, <2>2, Zenon DEF GrantedUpTo
  <2> HIDE DEF h
  <2>4. \A i \in 0 .. m + 1 : i # 0 => h[i - 1] = g[i - 1]
    BY <2>3
  <2>5. \A i \in 0 .. m + 1 :
           (IF i = 0 THEN <<>> ELSE IF OperatorAllows(caps[i]) THEN Append(g[i - 1], caps[i]) ELSE g[i - 1])
         = (IF i = 0 THEN <<>> ELSE IF OperatorAllows(caps[i]) THEN Append(h[i - 1], caps[i]) ELSE h[i - 1])
    BY <2>4, Zenon
  <2>6. GrantedUpTo(caps, m + 1, h)
    BY <2>5, Zenon DEF GrantedUpTo, h
  <2> QED BY <1>2, <2>6
<1>3. \A m \in 0 .. n : m \in S
  <2> HIDE DEF S
  <2> QED BY <1>1, <1>2, NatUpTo
<1> QED BY <1>3

\* What is granted of a list is in it and allowed.
LEMMA GrantedType ==
  ASSUME NEW R, NEW caps \in Seq(R)
  PROVE  Granted(caps) \in Seq({cap \in R : OperatorAllows(cap)})
<1> DEFINE A == {cap \in R : OperatorAllows(cap)}
<1>0. Len(caps) \in Nat /\ \A i \in 1 .. Len(caps) : caps[i] \in R
  OBVIOUS
<1>1. PICK g : GrantedUpTo(caps, Len(caps), g)
  BY <1>0, GrantedWalks
<1> DEFINE u == CHOOSE f : GrantedUpTo(caps, Len(caps), f)
<1>2. GrantedUpTo(caps, Len(caps), u)
  BY <1>1, Zenon
<1>3. Granted(caps) = u[Len(caps)]
  BY Zenon DEF Granted, GrantedUpTo
<1> HIDE DEF u
<1> DEFINE S == {n \in 0 .. Len(caps) : u[n] \in Seq(A)}
<1>4. \A i \in 0 .. Len(caps) :
        u[i] = IF i = 0 THEN <<>>
               ELSE IF OperatorAllows(caps[i]) THEN Append(u[i - 1], caps[i]) ELSE u[i - 1]
  BY <1>2, Zenon DEF GrantedUpTo
<1>5. 0 \in S
  <2>1. 0 \in 0 .. Len(caps) /\ <<>> \in Seq(A)
    BY <1>0
  <2>2. u[0] = <<>>
    BY <1>4, <2>1, Zenon
  <2> QED BY <2>1, <2>2, Zenon
<1>6. ASSUME NEW n \in 0 .. Len(caps), n # Len(caps), n \in S PROVE n + 1 \in S
  <2>1. PICK m : m = n + 1
    OBVIOUS
  <2>2. m \in 0 .. Len(caps) /\ m # 0 /\ m - 1 = n /\ caps[m] \in R
    BY <1>0, <1>6, <2>1
  <2>3. u[m] = IF OperatorAllows(caps[m]) THEN Append(u[n], caps[m]) ELSE u[n]
    BY <1>4, <2>2
  <2>4. u[n] \in Seq(A)
    BY <1>6
  <2>5. OperatorAllows(caps[m]) => caps[m] \in A
    BY <2>2
  <2> HIDE DEF A
  <2>6. u[m] \in Seq(A)
    BY <2>3, <2>4, <2>5
  <2> QED BY <2>1, <2>2, <2>6
<1>7. \A n \in 0 .. Len(caps) : n \in S
  <2> HIDE DEF S
  <2> QED BY <1>0, <1>5, <1>6, NatUpTo
<1> QED BY <1>0, <1>3, <1>7

\* A part of the positions of a list is no longer than it.
LEMMA PartIsShorter ==
  ASSUME NEW n \in Nat, NEW T \in SUBSET (1 .. n)
  PROVE  Cardinality(T) \in 0 .. n
<1>1. IsFiniteSet(1 .. n) /\ Cardinality(1 .. n) = n
  BY FS_Interval
<1>2. IsFiniteSet(T) /\ Cardinality(T) <= n
  BY <1>1, FS_Subset
<1>3. Cardinality(T) \in Nat
  BY <1>2, FS_CardinalityType
<1> QED BY <1>2, <1>3

\* The tokens of an iq call are issued inside the allowlist, and checked
\* against the profile before the call goes on.
LEMMA IqTokensPolicy ==
  ASSUME PolicyInv, CallInv', NEW c \in Clients, IqTokens(c)
  PROVE  PolicyInv'
<1>1. call[c].at = "tokens" /\ call[c].at # "idle" /\ cfg' = cfg
  BY DEF IqTokens
<1>2. PICK s : s = call[c] /\ CallOK(s, cfg) /\ StageOK(s, minted, cfg)
  BY <1>1, StepHasStage
<1> DEFINE r == call[c].req
           required == IF cfg.allow = Absent THEN <<>>
                       ELSE [i \in DOMAIN r.specs |-> CHOOSE cap \in RequiredOf(r, i) : TRUE]
           bad == {i \in DOMAIN required : ~Sanitized(required[i])
                     \/ (OperatorAllows(required[i]) /\ ~HttpPattern(required[i]))}
           tried == {i \in DOMAIN required : \A b \in bad : i < b}
           granted == Granted(SubSeq(required, 1, Cardinality(tried)))
           fine == bad = {} /\ \A i \in DOMAIN granted : ProfileAllows(granted[i])
           ids == [i \in DOMAIN granted |-> Len(minted) + i]
           tokens == [i \in DOMAIN granted |-> IssuedToken(granted[i], MaxValidity)]
           s1 == [call[c] EXCEPT !.toks = ids]
<1>3. /\ Mint(tokens)
      /\ call' = [call EXCEPT ![c] = IF fine THEN [s1 EXCEPT !.at = "authorize"] ELSE Denied(s1)]
  BY Zenon DEF IqTokens
<1>4. r \in Requests /\ Parses(r) /\ SpecsOK(r.specs)
  BY <1>1, <1>2, InputsAssumption DEF StageOK
<1> DEFINE R == {cap \in ToSet(required) : CapabilityOK(cap)}
<1>5. required \in Seq(R)
  <2>1. CASE cfg.allow = Absent
    BY <2>1
  <2>2. CASE cfg.allow # Absent
    <3>1. r.specs \in Seq(ToSet(r.specs))
      BY <1>4 DEF SpecsOK
    <3>2. DOMAIN r.specs = 1 .. Len(r.specs) /\ Len(r.specs) \in Nat
      BY <3>1
    <3>3. ASSUME NEW i \in DOMAIN r.specs PROVE CapabilityOK(required[i])
      <4>1. RequiredOf(r, i) # {}
        BY <1>4 DEF Parses
      <4>2. (CHOOSE cap \in RequiredOf(r, i) : TRUE) \in RequiredOf(r, i)
        BY <4>1, Zenon
      <4>3. required[i] \in RequiredOf(r, i)
        BY <2>2, <4>2, Zenon
      <4> QED BY <1>4, <4>3, RequiredIsOK
    <3>4. DOMAIN required = 1 .. Len(r.specs)
      BY <2>2, <3>2
    <3>5. \A i \in 1 .. Len(r.specs) : required[i] \in R
      <4> HIDE DEF required
      <4> QED BY <3>2, <3>3, <3>4 DEF ToSet
    <3>6. required = [i \in 1 .. Len(r.specs) |-> required[i]]
      BY <2>2, <3>2
    <3> HIDE DEF required, R
    <3> QED BY <3>2, <3>5, <3>6
  <2> QED BY <2>1, <2>2
<1>6. Len(required) \in Nat /\ DOMAIN required = 1 .. Len(required)
  <2> HIDE DEF R, required
  <2> QED BY <1>5
<1>7. tried \in SUBSET (1 .. Len(required))
  BY <1>6
<1>8. Cardinality(tried) \in 0 .. Len(required)
  <2> HIDE DEF tried, required
  <2> QED BY <1>6, <1>7, PartIsShorter
<1>9. SubSeq(required, 1, Cardinality(tried)) \in Seq(R)
  <2> HIDE DEF tried, required, R
  <2>1. PICK k \in 0 .. Len(required) : k = Cardinality(tried)
    BY <1>8
  <2>2. SubSeq(required, 1, k) \in Seq(R)
    BY <1>5, <1>6
  <2> QED BY <2>1, <2>2
<1>10. granted \in Seq({cap \in R : OperatorAllows(cap)})
  <2> HIDE DEF R, tried, required
  <2> QED BY <1>9, GrantedType
<1>11. /\ Len(granted) \in Nat /\ DOMAIN granted = 1 .. Len(granted)
       /\ \A i \in DOMAIN granted : CapabilityOK(granted[i]) /\ OperatorAllows(granted[i])
  <2>1. PICK q : q = granted
    OBVIOUS
  <2>2. \A cap \in R : CapabilityOK(cap)
    OBVIOUS
  <2> HIDE DEF R, granted
  <2>3. Len(q) \in Nat /\ DOMAIN q = 1 .. Len(q) /\ \A i \in DOMAIN q : q[i] \in R /\ OperatorAllows(q[i])
    BY <1>10, <2>1
  <2> QED BY <2>1, <2>2, <2>3
<1> HIDE DEF granted, required, tried, bad, R, r
<1>12. tokens \in Seq(Range(tokens)) /\ DOMAIN tokens = DOMAIN granted
  <2>1. \A i \in 1 .. Len(granted) : tokens[i] \in Range(tokens)
    BY <1>11 DEF Range
  <2>2. tokens = [i \in 1 .. Len(granted) |-> tokens[i]]
    BY <1>11
  <2> HIDE DEF tokens
  <2> QED BY <1>11, <2>1, <2>2
<1>13. \A i \in DOMAIN tokens : tokens[i].cap = granted[i]
  BY DEF IssuedToken
<1>14. \A i \in DOMAIN tokens : /\ NewTokenOK(tokens[i])
                                /\ tokens[i].parent = Root => OpAllows(cfg, tokens[i].cap)
  BY <1>11, IssuedIsOK DEF IssuedToken, OperatorAllows, OpAllows
<1> HIDE DEF tokens
<1>15. /\ TokenInv' /\ Extends(minted, minted')
       /\ \A id \in TokenIds' : Covered(minted', cfg, minted'[id])
       /\ \A i \in DOMAIN tokens : Len(minted) + i \in DOMAIN minted' /\ minted'[Len(minted) + i] = tokens[i]
  BY <1>1, <1>3, <1>12, <1>14, SignedStep
<1>16. PICK m : m = minted'
  OBVIOUS
<1>17. StageOK(s, m, cfg)
  BY <1>2, <1>15, <1>16, StageGrows
<1>18. /\ s1.at = "tokens" /\ s1.req = s.req /\ s1.toks = ids /\ s1.need = s.need
       /\ s1.preview = s.preview /\ s1.ran = s.ran /\ DOMAIN s1 = CallFields
  BY <1>1, <1>2 DEF CallOK, CallFields
<1>19. ids \in Seq(DOMAIN m) /\ DOMAIN ids = DOMAIN granted /\ \A i \in DOMAIN granted : ids[i] = Len(minted) + i
  <2>1. \A i \in 1 .. Len(granted) : ids[i] \in DOMAIN m
    BY <1>11, <1>12, <1>15, <1>16
  <2>2. ids = [i \in 1 .. Len(granted) |-> ids[i]] /\ DOMAIN ids = DOMAIN granted
        /\ \A i \in DOMAIN granted : ids[i] = Len(minted) + i
    BY <1>11
  <2> HIDE DEF ids
  <2> QED BY <1>11, <2>1, <2>2
<1>20. s.ran = FALSE
  BY <1>1, <1>2 DEF CallOK, EvidenceOK, BeforeRun
<1> HIDE DEF s1, ids
<1>21. CASE fine
  <2> DEFINE t == [s1 EXCEPT !.at = "authorize"]
  <2>1. call' = [call EXCEPT ![c] = t]
    BY <1>3, <1>21
  <2>2. /\ t.at = "authorize" /\ t.req = s.req /\ t.toks = ids /\ t.need = s.need
        /\ t.preview = s.preview /\ t.ran = s.ran
    BY <1>18 DEF CallFields
  <2> HIDE DEF t
  <2>3. \A i \in DOMAIN ids : ProfAllows(cfg, m[ids[i]].cap)
    BY <1>12, <1>13, <1>15, <1>16, <1>19, <1>21 DEF ProfileAllows, ProfAllows
  <2>4. StageOK(t, m, cfg)
    BY <1>17, <1>19, <1>20, <2>2, <2>3 DEF StageOK
  <2> QED BY <1>1, <1>15, <1>16, <2>1, <2>4, PolicyStep
<1>22. CASE ~fine
  <2> DEFINE t == Denied(s1)
  <2>1. call' = [call EXCEPT ![c] = t]
    BY <1>3, <1>22
  <2>2. /\ t.at \in {"deliver", "done"} /\ t.req = s.req /\ t.toks = ids /\ t.need = s.need
        /\ t.preview = s.preview /\ t.ran = s.ran
    BY <1>18 DEF Denied, CallFields
  <2> HIDE DEF t
  <2>3. StageOK(t, m, cfg)
    BY <1>17, <1>19, <1>20, <2>2 DEF StageOK
  <2> QED BY <1>1, <1>15, <1>16, <2>1, <2>3, PolicyStep
<1> QED BY <1>21, <1>22

-----------------------------------------------------------------------------
\* What the hypervisor authorizes with the tokens a call holds.
LEMMA AuthorizedIsWithin ==
  ASSUME PolicyInv, NEW c \in Clients, call[c].at \in {"authorize", "inner"},
         call[c].need = {} \/ Authorize(Held(c), call[c].need)
  PROVE  \A cap \in call[c].need : Within(minted, cfg, cap)
<1> SUFFICES ASSUME NEW cap \in call[c].need PROVE Within(minted, cfg, cap)
  OBVIOUS
<1>1. PICK s : s = call[c] /\ CallOK(s, cfg) /\ StageOK(s, minted, cfg)
  BY StepHasStage
<1>2. CapabilityOK(cap)
  <2>1. s.req \in Requests /\ cap \in Required(s.req)
    BY <1>1 DEF CallOK, NeedOK, StageOK
  <2> QED BY <2>1, RequiredIsOK
<1>3. PICK i \in DOMAIN s.toks : Allows(minted[s.toks[i]].cap, cap)
  BY <1>1 DEF Authorize, Validate, Held, ToSet, Token
<1>4. PICK id \in DOMAIN minted : id = s.toks[i]
  BY <1>1, <1>3 DEF StageOK
<1>5. ProfAllows(cfg, minted[id].cap) /\ Allows(minted[id].cap, cap)
  BY <1>1, <1>3, <1>4 DEF StageOK
<1>6. CapabilityOK(minted[id].cap) /\ Covered(minted, cfg, minted[id]) /\ ConfigOK(cfg)
  BY DEF PolicyInv, TokenInv, TokensOK, TokenOK, TokenIds
<1> QED BY <1>2, <1>5, <1>6, HeldIsWithin

LEMMA AuthorizePolicy ==
  ASSUME PolicyInv, CallInv', NEW c \in Clients, HypervisorAuthorize(c) \/ InnerAuthorize(c)
  PROVE  PolicyInv'
<1>1. call[c].at \in {"authorize", "inner"} /\ call[c].at # "idle" /\ UNCHANGED <<minted, active, cfg>>
  BY DEF HypervisorAuthorize, InnerAuthorize
<1>2. PICK s : s = call[c] /\ CallOK(s, cfg) /\ StageOK(s, minted, cfg)
  BY <1>1, StepHasStage
<1>3. CASE Advance(c, "run") /\ (call[c].need = {} \/ Authorize(Held(c), call[c].need))
  BY <1>1, <1>3, AuthorizedIsWithin, RunsWithin
<1>4. CASE Deny(c)
  BY <1>1, <1>4, FreeAnswer
<1>5. ASSUME NEW t, call' = [call EXCEPT ![c] = t], t.at \in {"inner", "negotiate"}, t.req = s.req,
             t.toks = s.toks, t.need = s.need, t.preview = s.preview, t.ran = s.ran
      PROVE  PolicyInv'
  <2>1. StageOK(t, minted, cfg)
    BY <1>1, <1>2, <1>5 DEF StageOK
  <2> QED BY <1>1, <1>5, <2>1, QuietStep
<1>6. CASE Advance(c, "inner")
  <2> DEFINE t == [s EXCEPT !.at = "inner"]
  <2>1. call' = [call EXCEPT ![c] = t]
    BY <1>2, <1>6 DEF Advance
  <2>2. t.at = "inner" /\ t.req = s.req /\ t.toks = s.toks /\ t.need = s.need /\ t.preview = s.preview /\ t.ran = s.ran
    BY <1>2 DEF CallOK, CallFields
  <2> HIDE DEF t
  <2> QED BY <1>5, <2>1, <2>2
<1>7. CASE call' = [call EXCEPT ![c].at = "negotiate", ![c].round = 1]
  <2> DEFINE t == [s EXCEPT !.at = "negotiate", !.round = 1]
  <2>1. call' = [call EXCEPT ![c] = t]
    BY <1>2, <1>7
  <2>2. t.at = "negotiate" /\ t.req = s.req /\ t.toks = s.toks /\ t.need = s.need /\ t.preview = s.preview /\ t.ran = s.ran
    BY <1>2 DEF CallOK, CallFields
  <2> HIDE DEF t
  <2> QED BY <1>5, <2>1, <2>2
<1> QED BY <1>3, <1>4, <1>6, <1>7 DEF HypervisorAuthorize, InnerAuthorize

\* A round of a negotiation keeps the tokens; what it grants is authorized
\* again before the call runs.
LEMMA NegotiatePolicy ==
  ASSUME PolicyInv, CallInv', NEW c \in Clients, Negotiate(c)
  PROVE  PolicyInv'
<1>1. call[c].at = "negotiate" /\ call[c].at # "idle" /\ UNCHANGED <<minted, active, cfg>>
  BY DEF Negotiate
<1>2. PICK s : s = call[c] /\ CallOK(s, cfg) /\ StageOK(s, minted, cfg)
  BY <1>1, StepHasStage
<1>3. PICK narrowed :
        \/ call' = [call EXCEPT ![c] = NextRound(c)]
        \/ call' = [call EXCEPT ![c] =
                [s EXCEPT !.at = "inner", !.need = narrowed, !.tried = narrowed, !.rounds = s.round]]
        \/ call' = [call EXCEPT ![c] = [NextRound(c) EXCEPT !.tried = narrowed]]
  BY <1>2 DEF Negotiate
<1>4. s.ran = FALSE
  BY <1>1, <1>2 DEF CallOK, EvidenceOK, BeforeRun
<1>5. ASSUME NEW t, call' = [call EXCEPT ![c] = t], t.at \in {"inner", "negotiate", "deliver", "done"},
             t.req = s.req, t.toks = s.toks, t.preview = s.preview, t.ran = s.ran
      PROVE  PolicyInv'
  <2>1. StageOK(t, minted, cfg)
    BY <1>1, <1>2, <1>4, <1>5 DEF StageOK
  <2> QED BY <1>1, <1>5, <2>1, QuietStep
<1>6. PICK n : n = NextRound(c)
  OBVIOUS
<1>7. /\ n.at \in {"negotiate", "deliver", "done"} /\ n.req = s.req /\ n.toks = s.toks
      /\ n.preview = s.preview /\ n.ran = s.ran /\ DOMAIN n = CallFields
  <2>1. n = [s EXCEPT !.round = s.round + 1] \/ n = Denied(s)
    BY <1>2, <1>6 DEF NextRound
  <2> QED BY <1>1, <1>2, <2>1 DEF Denied, CallOK, CallFields
<1>8. CASE call' = [call EXCEPT ![c] = NextRound(c)]
  BY <1>5, <1>6, <1>7, <1>8
<1>9. CASE call' = [call EXCEPT ![c] = [NextRound(c) EXCEPT !.tried = narrowed]]
  <2> DEFINE t == [n EXCEPT !.tried = narrowed]
  <2>1. call' = [call EXCEPT ![c] = t]
    BY <1>6, <1>9
  <2>2. t.at = n.at /\ t.req = s.req /\ t.toks = s.toks /\ t.preview = s.preview /\ t.ran = s.ran
    BY <1>7 DEF CallFields
  <2> HIDE DEF t
  <2> QED BY <1>5, <1>7, <2>1, <2>2
<1>10. CASE call' = [call EXCEPT ![c] =
                [s EXCEPT !.at = "inner", !.need = narrowed, !.tried = narrowed, !.rounds = s.round]]
  <2> DEFINE t == [s EXCEPT !.at = "inner", !.need = narrowed, !.tried = narrowed, !.rounds = s.round]
  <2>1. t.at = "inner" /\ t.req = s.req /\ t.toks = s.toks /\ t.preview = s.preview /\ t.ran = s.ran
    BY <1>2 DEF CallOK, CallFields
  <2>2. call' = [call EXCEPT ![c] = t]
    BY <1>10
  <2> HIDE DEF t
  <2> QED BY <1>5, <2>1, <2>2
<1> QED BY <1>3, <1>8, <1>9, <1>10

\* The run and what comes after it keep the requirements.
LEMMA EndPolicy ==
  ASSUME PolicyInv, CallInv', NEW c \in Clients,
         Run(c) \/ EmitCapsule(c) \/ Respond(c) \/ Deliver(c) \/ Return(c)
  PROVE  PolicyInv'
<1>1. call[c].at # "idle" /\ UNCHANGED <<minted, active, cfg>>
  BY DEF Run, EmitCapsule, Respond, Deliver, Return
<1>2. PICK s : s = call[c] /\ CallOK(s, cfg) /\ StageOK(s, minted, cfg)
  BY <1>1, StepHasStage
<1>3. ASSUME NEW t, call' = [call EXCEPT ![c] = t], t.at \in FreeStages, t.req = s.req, t.toks = s.toks,
             t.need = s.need, t.preview = s.preview, t.ran => s.ran \/ s.at = "run"
      PROVE  PolicyInv'
  <2>1. StageOK(t, minted, cfg)
    BY <1>2, <1>3, StageFree
  <2> QED BY <1>1, <1>3, <2>1, QuietStep
<1>4. CASE \E a : Answer(c, a)
  BY <1>1, <1>4, FreeAnswer
<1>5. CASE Run(c) /\ ~\E a : Answer(c, a)
  <2>1. PICK at, a : /\ at \in {"capsule", "done"} /\ s.at = "run"
                     /\ call' = [call EXCEPT ![c] = [s EXCEPT !.ran = TRUE, !.at = at, !.answer = a]]
    <3> DEFINE proof == Proving(c) \/ call[c].req.tool = "execute_proof"
    <3>1. PICK at, a : /\ at = IF proof THEN "capsule" ELSE "done"
                       /\ a = IF proof THEN Absent ELSE "ok"
      OBVIOUS
    <3>2. \/ Answer(c, "error")
          \/ call' = [call EXCEPT ![c] = [call[c] EXCEPT !.ran = TRUE, !.at = at, !.answer = a]]
          \/ call' = [call EXCEPT ![c] = [call[c] EXCEPT !.ran = TRUE, !.at = "done", !.answer = "error"]]
      BY <1>5, <3>1 DEF Run
    <3>3. at \in {"capsule", "done"} /\ "done" \in {"capsule", "done"}
      BY <3>1
    <3>4. s.at = "run"
      BY <1>2, <1>5 DEF Run
    <3> QED BY <1>2, <1>5, <3>2, <3>3, <3>4
  <2> DEFINE t == [s EXCEPT !.ran = TRUE, !.at = at, !.answer = a]
  <2>2. t.at \in FreeStages /\ t.req = s.req /\ t.toks = s.toks /\ t.need = s.need /\ t.preview = s.preview
    BY <1>2, <2>1 DEF CallOK, CallFields, FreeStages
  <2>3. call' = [call EXCEPT ![c] = t]
    BY <2>1
  <2> HIDE DEF t
  <2> QED BY <1>3, <2>1, <2>2, <2>3
<1>6. CASE EmitCapsule(c)
  <2>1. PICK capsule : call' = [call EXCEPT ![c] = [s EXCEPT !.at = "answer", !.capsule = capsule]]
    BY <1>2, <1>6, ZenonT(30) DEF EmitCapsule
  <2> DEFINE t == [s EXCEPT !.at = "answer", !.capsule = capsule]
  <2>2. /\ t.at \in FreeStages /\ t.req = s.req /\ t.toks = s.toks /\ t.need = s.need /\ t.preview = s.preview
        /\ t.ran = s.ran
    BY <1>2 DEF CallOK, CallFields, FreeStages
  <2>3. call' = [call EXCEPT ![c] = t]
    BY <2>1
  <2> HIDE DEF t
  <2> QED BY <1>3, <2>2, <2>3
<1>7. CASE Respond(c) /\ ~\E a : Answer(c, a)
  <2>1. PICK at : /\ at \in {"deliver", "done"}
                  /\ call' = [call EXCEPT ![c] = [s EXCEPT !.answer = "ok", !.at = at]]
    BY <1>2, <1>7 DEF Respond
  <2> DEFINE t == [s EXCEPT !.answer = "ok", !.at = at]
  <2>2. /\ t.at \in FreeStages /\ t.req = s.req /\ t.toks = s.toks /\ t.need = s.need /\ t.preview = s.preview
        /\ t.ran = s.ran
    BY <1>2, <2>1 DEF CallOK, CallFields, FreeStages
  <2>3. call' = [call EXCEPT ![c] = t]
    BY <2>1
  <2> HIDE DEF t
  <2> QED BY <1>3, <2>2, <2>3
<1>8. CASE Deliver(c)
  <2>1. PICK status : call' = [call EXCEPT ![c] = [s EXCEPT !.at = "done", !.timeline = status]]
    BY <1>2, <1>8 DEF Deliver
  <2> DEFINE t == [s EXCEPT !.at = "done", !.timeline = status]
  <2>2. /\ t.at \in FreeStages /\ t.req = s.req /\ t.toks = s.toks /\ t.need = s.need /\ t.preview = s.preview
        /\ t.ran = s.ran
    BY <1>2 DEF CallOK, CallFields, FreeStages
  <2>3. call' = [call EXCEPT ![c] = t]
    BY <2>1
  <2> HIDE DEF t
  <2> QED BY <1>3, <2>2, <2>3
<1>9. CASE Return(c)
  <2>1. call' = [call EXCEPT ![c] = Idle]
    BY <1>9 DEF Return
  <2> QED BY <1>1, <2>1, QuietStep
<1> QED BY <1>4, <1>5, <1>6, <1>7, <1>8, <1>9

-----------------------------------------------------------------------------
LEMMA PolicyFirst == ServerInit => PolicyInv
<1> SUFFICES ASSUME ServerInit PROVE PolicyInv
  OBVIOUS
<1>1. CallInv /\ TokenInv
  BY CallInit, TokenFirst DEF ServerInit
<1>2. TokenIds = {}
  BY DEF ServerInit, TokenInit, TokenIds
<1>3. ConfigOK(cfg)
  <2>1. PICK env \in Environments : cfg = ServerOf(env)
    BY DEF ServerInit
  <2>2. cfg.allow = AllowlistOf(env.allow) /\ cfg.profile = env.profile
    BY <2>1 DEF ServerOf
  <2>3. ASSUME cfg.allow # Absent, NEW a \in cfg.allow PROVE CapabilityOK(a)
    <3>1. PICK i \in DOMAIN env.allow : a \in ParseCapability(env.allow[i])
      BY <2>2, <2>3 DEF AllowlistOf
    <3>2. env.allow # Absent
      BY <2>2, <2>3 DEF AllowlistOf
    <3>3. SpecOK(env.allow[i])
      BY <3>1, <3>2, InputsAssumption DEF SpecsOK
    <3> QED BY <3>1, <3>3, ParsedIsOK
  <2>4. cfg.profile # Absent => \A a \in cfg.profile.caps : CapabilityOK(a)
    BY <2>2, InputsAssumption
  <2> QED BY <2>3, <2>4 DEF ConfigOK
<1>4. \A c \in Clients : call[c] = Idle
  BY DEF ServerInit
<1> QED BY <1>1, <1>2, <1>3, <1>4 DEF PolicyInv

LEMMA PolicyNext == PolicyInv /\ [ServerNext]_serverVars => PolicyInv'
<1> SUFFICES ASSUME PolicyInv, [ServerNext]_serverVars PROVE PolicyInv'
  OBVIOUS
<1>0. CallInv'
  BY CallNext DEF PolicyInv
<1>1. CASE UNCHANGED <<call, cfg, minted, active>>
  <2>1. TokenInv'
    BY <1>1, TokenUnchanged DEF PolicyInv
  <2> QED BY <1>0, <1>1, <2>1 DEF PolicyInv, TokenIds
<1>2. ASSUME NEW c \in Clients, \/ Call(c) \/ MintOne(c) \/ CheckTokens(c) \/ GiveToken(c)
                                \/ RollbackSnapshot(c) \/ CreateSnapshot(c) \/ ForkBase(c) \/ Read(c)
      PROVE  PolicyInv'
  BY <1>0, <1>2, CallPolicy, MintOnePolicy, CheckTokensPolicy, GiveTokenPolicy, RollbackPolicy,
     ForkBasePolicy, QuietTools
<1>3. ASSUME NEW c \in Clients, IqGate(c) \/ IqLimit(c) \/ Recall(c) \/ IqTokens(c)
      PROVE  PolicyInv'
  BY <1>0, <1>3, IqGatePolicy, QuietTools, RecallPolicy, IqTokensPolicy
<1>4. ASSUME NEW c \in Clients, \/ HypervisorAuthorize(c) \/ Negotiate(c) \/ InnerAuthorize(c) \/ Run(c)
                                \/ EmitCapsule(c) \/ Respond(c) \/ Deliver(c) \/ Return(c)
      PROVE  PolicyInv'
  BY <1>0, <1>4, AuthorizePolicy, NegotiatePolicy, EndPolicy
<1>5. CASE Pass
  BY <1>1, <1>5 DEF Pass, TokenTick
<1> QED BY <1>1, <1>2, <1>3, <1>4, <1>5 DEF ServerNext, serverVars

\* For any clients, requests and environments, however their calls interleave
\* and tokens expire or are attenuated meanwhile: what a call runs with and the
\* memory it previews are inside the operator's allowlist and the active
\* profile, or granted by a token for a whole namespace of memory.
THEOREM AlwaysWithinPolicy == ServerSpec => []WithinOperatorPolicy
<1>1. PolicyInv => WithinOperatorPolicy
  <2> SUFFICES ASSUME PolicyInv, NEW c \in Busy, call[c].ran
               PROVE  /\ \A cap \in call[c].need :
                           \/ OperatorAllows(cap) /\ ProfileAllows(cap)
                           \/ \E id \in TokenIds : Namespaced(Token(id).cap) /\ Allows(Token(id).cap, cap)
                      /\ call[c].preview => /\ OperatorAllows([kind |-> "memory_preview"])
                                            /\ ProfileAllows([kind |-> "memory_preview"])
    BY DEF WithinOperatorPolicy
  <2>1. StageOK(call[c], minted, cfg)
    BY DEF PolicyInv, Busy
  <2>2. \A cap : /\ OpAllows(cfg, cap) <=> OperatorAllows(cap)
                 /\ ProfAllows(cfg, cap) <=> ProfileAllows(cap)
                 /\ ByNamespace(minted, cap) <=>
                      \E id \in TokenIds : Namespaced(Token(id).cap) /\ Allows(Token(id).cap, cap)
    BY DEF OpAllows, OperatorAllows, ProfAllows, ProfileAllows, ByNamespace, TokenIds, Token
  <2> QED BY <2>1, <2>2 DEF StageOK, Within, PreviewCap
<1> QED BY PolicyFirst, PolicyNext, <1>1, PTL DEF ServerSpec

\* Under the server, too, no token is accepted beyond what was first issued.
THEOREM ServerAuthorityFromRoot == ServerSpec => []AuthorityFromLiveRoot
<1>1. PolicyInv => TokenInv
  BY DEF PolicyInv
<1> QED BY PolicyFirst, PolicyNext, <1>1, LiveRoot, PTL DEF ServerSpec

-----------------------------------------------------------------------------
(***************************************************************************)
(* The mounts of WASI calls, for any tree, any links and any paths, while  *)
(* other processes and other calls create, remove and link directories.  A *)
(* path that was resolved to a target when its capabilities were derived   *)
(* stays aimed at that target while the tree grows: what exists of it only *)
(* grows towards the target, because what is missing holds no "..", and    *)
(* the names that come to exist are directories and files.  A change that  *)
(* leaves the path with the same target leaves it aimed, too; any other    *)
(* marks the call as moved.                                                *)
(***************************************************************************)
\* g is where a walk is after each of the first n components.
WalksUpTo(t, path, n, g) ==
  g = [i \in 0 .. n |-> IF i = 0 THEN <<>> ELSE Step(t, g[i - 1], path[i])]

LEMMA WalkExists ==
  ASSUME NEW t, NEW path, NEW n \in Nat
  PROVE  \E g : WalksUpTo(t, path, n, g)
<1> DEFINE S == {m \in 0 .. n : \E g : WalksUpTo(t, path, m, g)}
<1>1. 0 \in S
  <2> DEFINE g == [i \in 0 .. 0 |-> <<>>]
  <2>1. WalksUpTo(t, path, 0, g)
    BY DEF WalksUpTo
  <2> QED BY <2>1
<1>2. ASSUME NEW m \in 0 .. n, m # n, m \in S PROVE m + 1 \in S
  <2>1. PICK g : WalksUpTo(t, path, m, g)
    BY <1>2
  <2> DEFINE h == [i \in 0 .. m + 1 |-> IF i = 0 THEN <<>> ELSE Step(t, g[i - 1], path[i])]
  <2>2. \A i \in 0 .. m : i \in 0 .. m + 1
    OBVIOUS
  <2>3. \A i \in 0 .. m : h[i] = g[i]
    BY <2>1, <2>2, Zenon DEF WalksUpTo
  <2> HIDE DEF h
  <2>4. \A i \in 0 .. m + 1 : i # 0 => h[i - 1] = g[i - 1]
    BY <2>3
  <2>5. \A i \in 0 .. m + 1 : (IF i = 0 THEN <<>> ELSE Step(t, g[i - 1], path[i]))
                            = (IF i = 0 THEN <<>> ELSE Step(t, h[i - 1], path[i]))
    BY <2>4, Zenon
  <2>6. WalksUpTo(t, path, m + 1, h)
    BY <2>5, Zenon DEF WalksUpTo, h
  <2> QED BY <1>2, <2>6
<1>3. \A m \in 0 .. n : m \in S
  <2> HIDE DEF S
  <2> QED BY <1>1, <1>2, NatUpTo
<1> QED BY <1>3

LEMMA WalkUnfolds ==
  ASSUME NEW t, NEW path \in Seq(STRING)
  PROVE  /\ Walk(t, path)[0] = <<>>
         /\ \A i \in 1 .. Len(path) :
              Walk(t, path)[i] = Step(t, Walk(t, path)[i - 1], path[i])
<1>0. Len(path) \in Nat
  OBVIOUS
<1>1. PICK g : WalksUpTo(t, path, Len(path), g)
  BY <1>0, WalkExists
<1>2. WalksUpTo(t, path, Len(path), Walk(t, path))
  <2>1. Walk(t, path) = CHOOSE h : WalksUpTo(t, path, Len(path), h)
    BY Zenon DEF Walk, WalksUpTo
  <2> QED BY <1>1, <2>1, Zenon
<1>3. \A i \in 0 .. Len(path) :
        Walk(t, path)[i] = IF i = 0 THEN <<>> ELSE Step(t, Walk(t, path)[i - 1], path[i])
  BY <1>2, Zenon DEF WalksUpTo
<1>4. 0 \in 0 .. Len(path) /\ \A i \in 1 .. Len(path) : i \in 0 .. Len(path) /\ i # 0
  BY <1>0
<1> QED BY <1>3, <1>4, Zenon

-----------------------------------------------------------------------------
\* Prefixes.
LEMMA PrefixIs ==
  ASSUME NEW T \in Seq(Names), NEW k \in 0 .. Len(T)
  PROVE  /\ SubSeq(T, 1, k) \in Seq(Names) /\ Len(SubSeq(T, 1, k)) = k
         /\ \A i \in 1 .. k : SubSeq(T, 1, k)[i] = T[i]
         /\ k # 0 => SubSeq(T, 1, k) # <<>> /\ Front(SubSeq(T, 1, k)) = SubSeq(T, 1, k - 1)
         /\ k # Len(T) => Append(SubSeq(T, 1, k), T[k + 1]) = SubSeq(T, 1, k + 1)
<1>1. SubSeq(T, 1, k) \in Seq(Names) /\ Len(SubSeq(T, 1, k)) = k
  BY SubSeqProperties
<1>2. \A i \in 1 .. k : SubSeq(T, 1, k)[i] = T[i]
  BY SubSeqProperties
<1>3. ASSUME k # 0 PROVE SubSeq(T, 1, k) # <<>> /\ Front(SubSeq(T, 1, k)) = SubSeq(T, 1, k - 1)
  <2>1. SubSeq(SubSeq(T, 1, k), 1, k - 1) = SubSeq(T, 1, k - 1)
    BY <1>1, <1>2, <1>3
  <2> QED BY <1>1, <1>3, <2>1 DEF Front
<1>4. ASSUME k # Len(T) PROVE Append(SubSeq(T, 1, k), T[k + 1]) = SubSeq(T, 1, k + 1)
  BY <1>1, <1>2, <1>4
<1> QED BY <1>1, <1>2, <1>3, <1>4

LEMMA PrefixClosed ==
  ASSUME NEW t, TreeOK(t), NEW T \in Seq(Names), NEW m \in 0 .. Len(T), SubSeq(T, 1, m) \in t.dirs,
         NEW j \in 0 .. m
  PROVE  SubSeq(T, 1, j) \in t.dirs
<1> DEFINE S == {i \in 0 .. m : SubSeq(T, 1, m - i) \in t.dirs}
<1>1. 0 \in S
  <2>1. m - 0 = m /\ 0 \in 0 .. m
    OBVIOUS
  <2> QED BY <2>1
<1>2. ASSUME NEW i \in 0 .. m, i # m, i \in S PROVE i + 1 \in S
  <2>1. PICK k : k = m - i
    OBVIOUS
  <2>2. k \in 1 .. Len(T) /\ m - (i + 1) = k - 1 /\ i + 1 \in 0 .. m
    BY <1>2, <2>1
  <2>3. SubSeq(T, 1, k) \in t.dirs
    BY <1>2, <2>1
  <2>4. SubSeq(T, 1, k) # <<>> /\ Front(SubSeq(T, 1, k)) = SubSeq(T, 1, k - 1)
    <3>1. k \in 0 .. Len(T) /\ k # 0
      BY <2>2
    <3> QED BY <3>1, PrefixIs
  <2>5. SubSeq(T, 1, k - 1) \in t.dirs
    BY <2>3, <2>4 DEF TreeOK
  <2> QED BY <2>2, <2>5
<1>3. \A i \in 0 .. m : i \in S
  <2>1. m \in Nat
    OBVIOUS
  <2> HIDE DEF S
  <2> QED BY <1>1, <1>2, <2>1, NatUpTo
<1>4. m - j \in 0 .. m /\ m - (m - j) = j
  OBVIOUS
<1>5. m - j \in S
  BY <1>3, <1>4
<1> QED BY <1>4, <1>5

\* A walk is at a directory, at a file or nowhere, and nowhere for good.
LEMMA NoPathIsNone ==
  ASSUME NEW t, TreeOK(t) PROVE NoPath \notin t.dirs \cup t.files
<1>1. Seq(Names) \subseteq Seq(STRING)
  BY DEF Names
<1> QED BY <1>1, PathsAssumption DEF TreeOK

LEMMA StepPlaces ==
  ASSUME NEW t, TreeOK(t), NEW at, NEW c \in STRING
  PROVE  Step(t, at, c) \in t.dirs \cup t.files \cup {NoPath}
BY DEF Step, TreeOK

LEMMA DeadStays ==
  ASSUME NEW t, TreeOK(t), NEW path \in Seq(STRING), NEW k \in 0 .. Len(path),
         Walk(t, path)[k] = NoPath, NEW m \in k .. Len(path)
  PROVE  Walk(t, path)[m] = NoPath
<1> DEFINE W == Walk(t, path)
           S == {i \in 0 .. Len(path) - k : W[k + i] = NoPath}
<1>0. Len(path) - k \in Nat /\ k + 0 = k /\ 0 \in 0 .. Len(path) - k
  OBVIOUS
<1>1. 0 \in S
  BY <1>0
<1>2. ASSUME NEW i \in 0 .. Len(path) - k, i # Len(path) - k, i \in S PROVE i + 1 \in S
  <2>1. PICK j : j = k + i + 1
    OBVIOUS
  <2>2. j \in 1 .. Len(path) /\ j - 1 = k + i /\ j = k + (i + 1) /\ i + 1 \in 0 .. Len(path) - k
    BY <1>2, <2>1
  <2>3. W[j] = Step(t, W[j - 1], path[j])
    BY <2>2, WalkUnfolds
  <2>4. W[j - 1] = NoPath
    BY <1>2, <2>2
  <2>5. W[j] = NoPath
    BY <2>3, <2>4, NoPathIsNone DEF Step, TreeOK
  <2> QED BY <2>2, <2>5
<1>3. \A i \in 0 .. Len(path) - k : i \in S
  <2> HIDE DEF S
  <2> QED BY <1>0, <1>1, <1>2, NatUpTo
<1>4. m - k \in 0 .. Len(path) - k /\ k + (m - k) = m
  OBVIOUS
<1>5. m - k \in S
  BY <1>3, <1>4
<1> QED BY <1>4, <1>5

LEMMA WalkPlaces ==
  ASSUME NEW t, TreeOK(t), NEW path \in Seq(STRING), NEW k \in 0 .. Len(path)
  PROVE  Walk(t, path)[k] \in t.dirs \cup t.files \cup {NoPath}
<1>1. CASE k = 0
  BY <1>1, WalkUnfolds DEF TreeOK
<1>2. CASE k # 0
  <2>1. k \in 1 .. Len(path) /\ path[k] \in STRING
    BY <1>2
  <2>2. Walk(t, path)[k] = Step(t, Walk(t, path)[k - 1], path[k])
    BY <2>1, WalkUnfolds
  <2> QED BY <2>1, <2>2, StepPlaces
<1> QED BY <1>1, <1>2

\* A directory on a path of names is where the path leads.
LEMMA PrefixIsCanonical ==
  ASSUME NEW t, TreeOK(t), NEW T \in Seq(Names), NEW m \in 0 .. Len(T), SubSeq(T, 1, m) \in t.dirs
  PROVE  Walk(t, T)[m] = SubSeq(T, 1, m)
<1>1. T \in Seq(STRING) /\ Len(T) \in Nat /\ m \in Nat
  <2>1. Seq(Names) \subseteq Seq(STRING)
    BY DEF Names
  <2> QED BY <2>1
<1>3. \A j \in 0 .. m : SubSeq(T, 1, j) \in t.dirs
  BY PrefixClosed
<1> DEFINE W == Walk(t, T)
           S == {k \in 0 .. m : W[k] = SubSeq(T, 1, k)}
<1>4. 0 \in S
  <2>1. SubSeq(T, 1, 0) = <<>> /\ 0 \in 0 .. m
    BY <1>1
  <2>2. W[0] = <<>>
    BY <1>1, WalkUnfolds
  <2> QED BY <2>1, <2>2
<1>5. ASSUME NEW k \in 0 .. m, k # m, k \in S PROVE k + 1 \in S
  <2>1. PICK j : j = k + 1
    OBVIOUS
  <2>2. /\ j \in 1 .. Len(T) /\ j - 1 = k /\ j \in 0 .. m /\ k \in 0 .. Len(T) /\ k # Len(T)
    BY <1>1, <1>5, <2>1
  <2>3. W[j] = Step(t, W[k], T[j])
    BY <1>1, <2>2, WalkUnfolds
  <2>4. W[k] = SubSeq(T, 1, k) /\ SubSeq(T, 1, k) \in t.dirs /\ SubSeq(T, 1, j) \in t.dirs
    BY <1>3, <1>5, <2>2
  <2>5. Append(SubSeq(T, 1, k), T[j]) = SubSeq(T, 1, j) /\ T[j] # ".."
    <3>1. T[j] \in Names
      BY <1>1, <2>2
    <3> QED BY <1>1, <2>1, <2>2, <3>1, PrefixIs DEF Names
  <2>6. SubSeq(T, 1, j) \notin DOMAIN t.links
    BY <2>4 DEF TreeOK
  <2>7. W[j] = SubSeq(T, 1, j)
    BY <2>3, <2>4, <2>5, <2>6 DEF Step
  <2> QED BY <2>1, <2>2, <2>7
<1>6. \A k \in 0 .. m : k \in S
  <2> HIDE DEF S
  <2> QED BY <1>1, <1>4, <1>5, NatUpTo
<1>7. m \in S
  BY <1>1, <1>6
<1> QED BY <1>7

-----------------------------------------------------------------------------
\* A walk gets as far as n and is at w then.
Ends(t, path, n, w) ==
  /\ n \in 0 .. Len(path) /\ Walk(t, path)[n] = w /\ w # NoPath
  /\ \A k \in n + 1 .. Len(path) : Walk(t, path)[k] = NoPath

\* What is left of a path from n on leads from w to T.
Leads(path, n, w, T) ==
  /\ T \in Seq(Names) /\ Len(w) \in Nat /\ Len(T) = Len(w) + (Len(path) - n)
  /\ w = SubSeq(T, 1, Len(w))
  /\ \A j \in n + 1 .. Len(path) : path[j] # ".." /\ T[Len(w) + (j - n)] = path[j]

Aim(t, path, T) == \E n, w : Ends(t, path, n, w) /\ Leads(path, n, w, T)

LEMMA WalkEnds ==
  ASSUME NEW t, TreeOK(t), NEW path \in Seq(STRING)
  PROVE  \E n, w : Ends(t, path, n, w)
<1> DEFINE W == Walk(t, path)
           A == {n \in 0 .. Len(path) : W[n] # NoPath}
<1>1. Len(path) \in Nat /\ A \in SUBSET (0 .. Len(path))
  OBVIOUS
<1>2. 0 \in A
  <2>1. W[0] = <<>> /\ <<>> # NoPath
    <3>1. <<>> \in Seq(STRING)
      OBVIOUS
    <3> QED BY <3>1, WalkUnfolds, PathsAssumption
  <2> QED BY <1>1, <2>1
<1>3. PICK n \in A : \A k \in A : k <= n
  BY <1>1, <1>2, GreatestUpTo
<1>4. \A k \in n + 1 .. Len(path) : W[k] = NoPath
  BY <1>1, <1>3
<1> QED BY <1>3, <1>4 DEF Ends

LEMMA EndsOnce ==
  ASSUME NEW t, NEW path \in Seq(STRING), NEW n, NEW w, Ends(t, path, n, w)
  PROVE  /\ \A m, v : Ends(t, path, m, v) => m = n /\ v = w
         /\ Max({k \in 0 .. Len(path) : Walk(t, path)[k] # NoPath}) = n
<1> DEFINE W == Walk(t, path)
           A == {k \in 0 .. Len(path) : W[k] # NoPath}
<1>1. n \in 0 .. Len(path) /\ Len(path) \in Nat /\ W[n] = w /\ n \in A
  BY DEF Ends
<1>2. \A k \in A : k <= n
  BY <1>1 DEF Ends
<1>3. ASSUME NEW m, NEW v, Ends(t, path, m, v) PROVE m = n /\ v = w
  <2>1. m \in A /\ W[m] = v
    BY <1>3 DEF Ends
  <2>2. m <= n
    BY <1>2, <2>1
  <2>3. ~(n \in m + 1 .. Len(path))
    BY <1>1, <1>3 DEF Ends
  <2> QED BY <1>1, <2>1, <2>2, <2>3
<1>4. Max(A) \in A /\ \A k \in A : Max(A) >= k
  <2>1. \A k \in A : n >= k
    BY <1>1, <1>2
  <2> QED BY <1>1, <2>1 DEF Max
<1>5. Max(A) = n
  <2> HIDE DEF A
  <2>1. PICK x : x = Max(A)
    OBVIOUS
  <2>2. x <= n /\ n <= x /\ x \in 0 .. Len(path)
    <3>1. A \subseteq 0 .. Len(path)
      BY DEF A
    <3> QED BY <1>1, <1>2, <1>4, <2>1, <3>1
  <2> QED BY <1>1, <2>1, <2>2
<1> QED BY <1>3, <1>5

\* What comes next on the way to the target is not there.
LEMMA NextIsFresh ==
  ASSUME NEW t, TreeOK(t), NEW path \in Seq(STRING), NEW n, NEW w, NEW T,
         Ends(t, path, n, w), Leads(path, n, w, T), w \in t.dirs, n # Len(path)
  PROVE  /\ Len(w) + 1 \in 0 .. Len(T) /\ SubSeq(T, 1, Len(w) + 1) \notin t.dirs \cup t.files \cup DOMAIN t.links
<1> DEFINE W == Walk(t, path)
<1>1. n \in 0 .. Len(path) /\ Len(path) \in Nat /\ Len(w) \in Nat /\ T \in Seq(Names)
  BY DEF Ends, Leads
<1>2. PICK j : j = n + 1
  OBVIOUS
<1>3. j \in n + 1 .. Len(path) /\ j \in 1 .. Len(path) /\ j - 1 = n /\ j - n = 1
  BY <1>1, <1>2
<1>4. path[j] # ".." /\ T[Len(w) + 1] = path[j] /\ W[j] = NoPath
  BY <1>3 DEF Leads, Ends
<1>5. Len(w) \in 0 .. Len(T) /\ Len(w) # Len(T) /\ Len(w) + 1 \in 0 .. Len(T)
  <2>1. PICK a, b, c : a = Len(T) /\ b = Len(w) /\ c = Len(path)
    OBVIOUS
  <2>2. a = b + (c - n) /\ a \in Nat /\ b \in Nat /\ c \in Nat /\ n \in 0 .. c /\ n # c
    BY <1>1, <2>1 DEF Leads
  <2>3. b \in 0 .. a /\ b # a /\ b + 1 \in 0 .. a
    BY <2>2
  <2> QED BY <2>1, <2>3
<1>6. Append(w, path[j]) = SubSeq(T, 1, Len(w) + 1)
  <2>1. Append(SubSeq(T, 1, Len(w)), T[Len(w) + 1]) = SubSeq(T, 1, Len(w) + 1)
    BY <1>1, <1>5, PrefixIs
  <2> QED BY <1>4, <2>1 DEF Leads
<1>7. Step(t, w, path[j]) = NoPath
  <2>1. W[j] = Step(t, W[n], path[j])
    BY <1>3, WalkUnfolds
  <2> QED BY <1>4, <2>1 DEF Ends
<1>8. NoPath \notin t.dirs \cup t.files
  BY NoPathIsNone
<1>9. \A q \in DOMAIN t.links : t.links[q] \in t.dirs
  BY DEF TreeOK
<1> QED BY <1>4, <1>5, <1>6, <1>7, <1>8, <1>9 DEF Step

\* Nothing further along is there either.
LEMMA RestIsFresh ==
  ASSUME NEW t, TreeOK(t), NEW path \in Seq(STRING), NEW n, NEW w, NEW T,
         Ends(t, path, n, w), Leads(path, n, w, T), NEW m \in Len(w) + 1 .. Len(T), w \in t.dirs
  PROVE  SubSeq(T, 1, m) \notin t.dirs \cup t.files \cup DOMAIN t.links
<1>1. /\ n \in 0 .. Len(path) /\ Len(path) \in Nat /\ Len(w) \in Nat /\ T \in Seq(Names)
      /\ Len(T) = Len(w) + (Len(path) - n)
  BY DEF Ends, Leads
<1>2. n # Len(path) /\ m \in 0 .. Len(T) /\ m # 0
  BY <1>1
<1>3. Len(w) + 1 \in 0 .. Len(T) /\ SubSeq(T, 1, Len(w) + 1) \notin t.dirs \cup t.files \cup DOMAIN t.links
  BY <1>2, NextIsFresh
<1>4. CASE m = Len(w) + 1
  BY <1>3, <1>4
<1>5. CASE m # Len(w) + 1
  <2>1. SubSeq(T, 1, m) # <<>> /\ Front(SubSeq(T, 1, m)) = SubSeq(T, 1, m - 1)
    BY <1>1, <1>2, PrefixIs
  <2>2. m - 1 \in 0 .. Len(T) /\ Len(w) + 1 \in 0 .. m - 1
    BY <1>1, <1>2, <1>5
  <2>3. SubSeq(T, 1, m - 1) \notin t.dirs
    BY <1>1, <1>3, <2>2, PrefixClosed
  <2>4. SubSeq(T, 1, m) \notin t.dirs \cup t.files
    BY <2>1, <2>3 DEF TreeOK
  <2>5. SubSeq(T, 1, m) \notin DOMAIN t.links
    BY <2>1, <2>3 DEF TreeOK
  <2> QED BY <2>4, <2>5
<1> QED BY <1>4, <1>5

-----------------------------------------------------------------------------
\* Directories and files are added to a tree.
Grows(t, u) ==
  TreeOK(t) /\ TreeOK(u) /\ t.dirs \subseteq u.dirs /\ t.files \subseteq u.files /\ t.links = u.links

LEMMA StepKeeps ==
  ASSUME NEW t, NEW u, Grows(t, u), NEW at, NEW c, Step(t, at, c) # NoPath
  PROVE  Step(u, at, c) = Step(t, at, c)
BY DEF Step, Grows

\* What exists of a path does not change ...
LEMMA WalkKeeps ==
  ASSUME NEW t, NEW u, Grows(t, u), NEW path \in Seq(STRING), NEW n, NEW w,
         Ends(t, path, n, w)
  PROVE  Walk(u, path)[n] = w
<1> DEFINE W == Walk(t, path)
           V == Walk(u, path)
           S == {k \in 0 .. n : V[k] = W[k]}
<1>1. n \in 0 .. Len(path) /\ Len(path) \in Nat /\ n \in Nat /\ W[n] = w /\ w # NoPath
  BY DEF Ends
<1>2. 0 \in S
  <2>1. V[0] = <<>> /\ W[0] = <<>> /\ 0 \in 0 .. n
    BY <1>1, WalkUnfolds
  <2> QED BY <2>1
<1>3. ASSUME NEW k \in 0 .. n, k # n, k \in S PROVE k + 1 \in S
  <2>1. PICK j : j = k + 1
    OBVIOUS
  <2>2. j \in 1 .. Len(path) /\ j - 1 = k /\ j \in 0 .. n /\ n \in j .. Len(path) /\ j \in 0 .. Len(path)
    BY <1>1, <1>3, <2>1
  <2>3. W[j] = Step(t, W[k], path[j]) /\ V[j] = Step(u, V[k], path[j])
    BY <2>2, WalkUnfolds
  <2>4. W[j] # NoPath
    BY <1>1, <2>2, DeadStays DEF Grows
  <2>5. V[j] = W[j]
    BY <1>3, <2>3, <2>4, StepKeeps
  <2> QED BY <2>1, <2>2, <2>5
<1>4. \A k \in 0 .. n : k \in S
  <2> HIDE DEF S
  <2> QED BY <1>1, <1>2, <1>3, NatUpTo
<1>5. n \in S
  BY <1>1, <1>4
<1> QED BY <1>1, <1>5

\* ... and what comes to exist is on the way to the target.
LEMMA WalkAims ==
  ASSUME NEW t, NEW u, Grows(t, u), NEW path \in Seq(STRING), NEW n, NEW w, NEW T,
         Ends(t, path, n, w), Leads(path, n, w, T), NEW m \in n .. Len(path)
  PROVE  Walk(u, path)[m] \in {NoPath, SubSeq(T, 1, Len(w) + (m - n))}
<1> DEFINE V == Walk(u, path)
           S == {i \in 0 .. Len(path) - n : V[n + i] \in {NoPath, SubSeq(T, 1, Len(w) + i)}}
<1>1. /\ n \in 0 .. Len(path) /\ Len(path) \in Nat /\ Len(path) - n \in Nat /\ Len(w) \in Nat
      /\ T \in Seq(Names) /\ Len(T) = Len(w) + (Len(path) - n) /\ w = SubSeq(T, 1, Len(w))
  BY DEF Ends, Leads
<1>2. 0 \in S
  <2>1. V[n] = w
    BY WalkKeeps
  <2>2. n + 0 = n /\ Len(w) + 0 = Len(w) /\ 0 \in 0 .. Len(path) - n
    BY <1>1
  <2> QED BY <1>1, <2>1, <2>2
<1>3. ASSUME NEW i \in 0 .. Len(path) - n, i # Len(path) - n, i \in S PROVE i + 1 \in S
  <2>1. PICK k, j : k = Len(w) + i /\ j = n + i + 1
    OBVIOUS
  <2>2. /\ j \in 1 .. Len(path) /\ j - 1 = n + i /\ j = n + (i + 1) /\ i + 1 \in 0 .. Len(path) - n
        /\ j \in n + 1 .. Len(path) /\ j - n = i + 1
        /\ k \in 0 .. Len(T) /\ k # Len(T) /\ k + 1 \in Len(w) + 1 .. Len(T) /\ k + 1 = Len(w) + (i + 1)
        /\ Len(w) \in 0 .. k /\ k + 1 \in 0 .. Len(T) /\ k + 1 # 0
    BY <1>1, <1>3, <2>1
  <2>3. V[j] = Step(u, V[n + i], path[j])
    BY <2>2, WalkUnfolds
  <2>4. path[j] # ".." /\ path[j] = T[k + 1]
    BY <2>2 DEF Leads
  <2>5. Append(SubSeq(T, 1, k), path[j]) = SubSeq(T, 1, k + 1)
    BY <1>1, <2>2, <2>4, PrefixIs
  <2>6. SubSeq(T, 1, k + 1) \notin DOMAIN t.links
    <3> SUFFICES ASSUME SubSeq(T, 1, k + 1) \in DOMAIN t.links PROVE FALSE
      OBVIOUS
    <3>1. Front(SubSeq(T, 1, k + 1)) = SubSeq(T, 1, (k + 1) - 1) /\ (k + 1) - 1 = k
      BY <1>1, <2>2, PrefixIs
    <3>2. SubSeq(T, 1, k) \in t.dirs
      BY <3>1 DEF Grows, TreeOK
    <3>3. w \in t.dirs
      <4>1. TreeOK(t)
        BY DEF Grows, TreeOK
      <4>2. SubSeq(T, 1, Len(w)) \in t.dirs
        BY <1>1, <2>2, <3>2, <4>1, PrefixClosed
      <4> QED BY <1>1, <4>2
    <3> QED BY <2>2, <3>3, RestIsFresh DEF Grows
  <2>7. CASE V[n + i] = NoPath
    <3>1. V[j] = NoPath
      BY <2>3, <2>7, NoPathIsNone DEF Step, Grows
    <3> QED BY <2>2, <3>1
  <2>8. CASE V[n + i] = SubSeq(T, 1, k)
    <3>1. V[j] \in {NoPath, SubSeq(T, 1, k + 1)}
      BY <2>3, <2>4, <2>5, <2>6, <2>8 DEF Step, Grows
    <3> QED BY <2>2, <3>1
  <2> QED BY <1>3, <2>1, <2>7, <2>8
<1>4. \A i \in 0 .. Len(path) - n : i \in S
  <2> HIDE DEF S
  <2> QED BY <1>1, <1>2, <1>3, NatUpTo
<1>5. m - n \in 0 .. Len(path) - n /\ n + (m - n) = m
  BY <1>1
<1>6. m - n \in S
  BY <1>4, <1>5
<1> QED BY <1>5, <1>6

LEMMA AimKeeps ==
  ASSUME NEW t, NEW u, Grows(t, u), NEW path \in Seq(STRING), NEW T,
         Aim(t, path, T)
  PROVE  Aim(u, path, T)
<1>1. PICK n, w : Ends(t, path, n, w) /\ Leads(path, n, w, T)
  BY DEF Aim
<1>2. PICK m, v : Ends(u, path, m, v)
  BY WalkEnds DEF Grows
<1>3. /\ n \in 0 .. Len(path) /\ Len(path) \in Nat /\ Len(w) \in Nat /\ w # NoPath
      /\ T \in Seq(Names) /\ Len(T) = Len(w) + (Len(path) - n)
      /\ m \in 0 .. Len(path) /\ Walk(u, path)[m] = v /\ v # NoPath
  BY <1>1, <1>2 DEF Ends, Leads
<1>4. m \in n .. Len(path)
  <2>1. Walk(u, path)[n] = w
    BY <1>1, WalkKeeps
  <2>2. ~(n \in m + 1 .. Len(path))
    BY <1>2, <1>3, <2>1 DEF Ends
  <2> QED BY <1>3, <2>2
<1>5. v = SubSeq(T, 1, Len(w) + (m - n))
  BY <1>1, <1>3, <1>4, WalkAims, SMTT(30)
<1>6. Len(w) + (m - n) \in 0 .. Len(T)
  BY <1>3, <1>4
<1>7. Len(v) = Len(w) + (m - n)
  BY <1>3, <1>5, <1>6, PrefixIs
<1>8. ASSUME NEW j \in m + 1 .. Len(path) PROVE path[j] # ".." /\ T[Len(v) + (j - m)] = path[j]
  <2>1. j \in n + 1 .. Len(path) /\ Len(v) + (j - m) = Len(w) + (j - n)
    BY <1>3, <1>4, <1>7
  <2> QED BY <1>1, <2>1 DEF Leads
<1>9. Len(v) \in Nat /\ Len(T) = Len(v) + (Len(path) - m) /\ v = SubSeq(T, 1, Len(v))
  <2>1. Len(v) \in Nat /\ Len(T) = Len(v) + (Len(path) - m)
    BY <1>3, <1>4, <1>7
  <2> QED BY <1>5, <1>7, <2>1
<1>10. Leads(path, m, v, T)
  BY <1>3, <1>8, <1>9 DEF Leads
<1> QED BY <1>2, <1>10 DEF Aim

\* A path without ".." is normal.
LEMMA NormalizePlain ==
  ASSUME NEW T \in Seq(Names)
  PROVE  NormalizePath(T) = T
<1>0. Len(T) \in Nat /\ SubSeq(T, 1, Len(T)) = T
  OBVIOUS
<1>1. PICK g : NormalizedUpTo(T, Len(T), g)
  BY <1>0, NormalizeWalks
<1> DEFINE u == CHOOSE h : NormalizedUpTo(T, Len(T), h)
<1>2. NormalizedUpTo(T, Len(T), u)
  BY <1>1, Zenon
<1>3. NormalizePath(T) = u[Len(T)]
  BY Zenon DEF NormalizePath, NormalizedUpTo
<1> HIDE DEF u
<1> DEFINE S == {n \in 0 .. Len(T) : u[n] = SubSeq(T, 1, n)}
<1>4. \A i \in 0 .. Len(T) :
        u[i] = IF i = 0 THEN <<>>
               ELSE IF T[i] # ".." THEN Append(u[i - 1], T[i])
               ELSE IF u[i - 1] = <<>> THEN <<>> ELSE Front(u[i - 1])
  BY <1>2, Zenon DEF NormalizedUpTo
<1>5. 0 \in S
  <2>1. 0 \in 0 .. Len(T) /\ SubSeq(T, 1, 0) = <<>>
    BY <1>0
  <2>2. u[0] = <<>>
    BY <1>4, <2>1, Zenon
  <2> QED BY <2>1, <2>2
<1>6. ASSUME NEW n \in 0 .. Len(T), n # Len(T), n \in S PROVE n + 1 \in S
  <2>1. PICK m : m = n + 1
    OBVIOUS
  <2>2. m \in 0 .. Len(T) /\ m # 0 /\ m - 1 = n /\ T[m] \in Names
    <3>1. m \in 0 .. Len(T) /\ m # 0 /\ m - 1 = n /\ m \in 1 .. Len(T)
      BY <1>6, <2>1
    <3> QED BY <3>1
  <2>3. u[m] = Append(u[n], T[m])
    BY <1>4, <2>2 DEF Names
  <2>4. Append(SubSeq(T, 1, n), T[m]) = SubSeq(T, 1, m)
    BY <1>6, <2>1, PrefixIs
  <2>5. u[m] = SubSeq(T, 1, m)
    BY <1>6, <2>3, <2>4
  <2> QED BY <2>1, <2>2, <2>5
<1>7. \A n \in 0 .. Len(T) : n \in S
  <2> HIDE DEF S
  <2> QED BY <1>0, <1>5, <1>6, NatUpTo
<1>8. Len(T) \in S
  BY <1>0, <1>7
<1> QED BY <1>0, <1>3, <1>8

LEMMA AbsoluteIsPath ==
  ASSUME NEW host, host.at \in Seq(STRING)
  PROVE  Absolute(host) \in Seq(STRING)
BY PathsAssumption, ConcatProperties DEF Absolute

\* Reach, Reached and Missing in terms of where the walk ends.
LEMMA ReachedIs ==
  ASSUME NEW t, TreeOK(t), NEW path \in Seq(STRING), NEW n, NEW w, Ends(t, path, n, w)
  PROVE  /\ Reach(t, path) = n /\ Missing(t, path) = SubSeq(path, n + 1, Len(path))
         /\ Reached(t, path) = IF w \in t.dirs THEN w ELSE NoPath
<1>1. Reach(t, path) = n
  BY EndsOnce DEF Reach
<1>2. Walk(t, path)[n] = w
  BY DEF Ends
<1> QED BY <1>1, <1>2 DEF Missing, Reached, ExistingDir

\* From a directory along names.
LEMMA JoinIs ==
  ASSUME NEW w \in Seq(Names), NEW path \in Seq(STRING), NEW n \in 0 .. Len(path),
         \A j \in n + 1 .. Len(path) : path[j] # ".."
  PROVE  /\ w \o SubSeq(path, n + 1, Len(path)) \in Seq(Names)
         /\ Leads(path, n, w, w \o SubSeq(path, n + 1, Len(path)))
<1> DEFINE M == SubSeq(path, n + 1, Len(path))
           T == w \o M
<1>1. Len(w) \in Nat /\ Len(path) \in Nat /\ n \in Nat
  OBVIOUS
<1>2. M \in Seq(STRING) /\ Len(M) = Len(path) - n /\ \A i \in 1 .. Len(path) - n : M[i] = path[n + i]
  BY <1>1
<1>3. \A i \in 1 .. Len(path) - n : M[i] \in Names
  <2> SUFFICES ASSUME NEW i \in 1 .. Len(path) - n PROVE M[i] \in Names
    OBVIOUS
  <2>1. n + i \in n + 1 .. Len(path) /\ n + i \in 1 .. Len(path)
    BY <1>1
  <2>2. path[n + i] \in STRING /\ path[n + i] # ".."
    BY <2>1
  <2> QED BY <1>2, <2>2 DEF Names
<1>4. M \in Seq(Names)
  <2> HIDE DEF M
  <2>1. M \in [1 .. Len(path) - n -> Names] /\ Len(path) - n \in Nat
    BY <1>1, <1>2, <1>3, LenProperties
  <2> QED BY <2>1, SeqDef
<1> HIDE DEF M
<1>5. /\ T \in Seq(Names) /\ Len(T) = Len(w) + (Len(path) - n)
      /\ \A i \in 1 .. Len(w) : T[i] = w[i]
      /\ \A i \in 1 .. Len(path) - n : T[Len(w) + i] = M[i]
  <2>1. T \in Seq(Names) /\ Len(T) = Len(w) + Len(M)
    BY <1>4, ConcatProperties
  <2>2. \A i \in 1 .. Len(w) + Len(M) : T[i] = IF i <= Len(w) THEN w[i] ELSE M[i - Len(w)]
    BY <1>4, ConcatProperties
  <2> HIDE DEF T
  <2>3. \A i \in 1 .. Len(w) : T[i] = w[i]
    BY <1>1, <1>2, <2>2
  <2>4. ASSUME NEW i \in 1 .. Len(path) - n PROVE T[Len(w) + i] = M[i]
    <3>1. /\ Len(w) + i \in 1 .. Len(w) + Len(M) /\ ~(Len(w) + i <= Len(w))
          /\ (Len(w) + i) - Len(w) = i
      BY <1>1, <1>2
    <3> QED BY <2>2, <3>1
  <2> QED BY <1>2, <2>1, <2>3, <2>4
<1> HIDE DEF T
<1>6. w = SubSeq(T, 1, Len(w))
  BY <1>1, <1>5
<1>7. ASSUME NEW j \in n + 1 .. Len(path) PROVE T[Len(w) + (j - n)] = path[j]
  <2>1. j - n \in 1 .. Len(path) - n /\ n + (j - n) = j
    BY <1>1
  <2> QED BY <1>2, <1>5, <2>1
<1>8. Leads(path, n, w, T)
  BY <1>1, <1>5, <1>6, <1>7 DEF Leads
<1> QED BY <1>5, <1>8 DEF T, M

\* required_capability_mount_dir returns the target of the path ...
LEMMA RequiredIsAimed ==
  ASSUME NEW t, TreeOK(t), NEW host, host.at \in Seq(STRING), RequiredDir(t, host) # NoPath
  PROVE  Aim(t, Absolute(host), RequiredDir(t, host))
<1>1. PICK path \in Seq(STRING) : path = Absolute(host)
  BY AbsoluteIsPath
<1>2. PICK n, w : Ends(t, path, n, w)
  BY WalkEnds
<1>3. /\ Missing(t, path) = SubSeq(path, n + 1, Len(path)) /\ n \in 0 .. Len(path)
      /\ Reached(t, path) = IF w \in t.dirs THEN w ELSE NoPath
  BY <1>2, ReachedIs DEF Ends
<1>4. /\ w \in t.dirs /\ ~Contains(Missing(t, path), "..") /\ Reached(t, path) = w
      /\ RequiredDir(t, host) = NormalizePath(Reached(t, path) \o Missing(t, path))
  BY <1>1, <1>3 DEF RequiredDir
<1>5. w \in Seq(Names)
  BY <1>4 DEF TreeOK
<1>6. ASSUME NEW j \in n + 1 .. Len(path) PROVE path[j] # ".."
  <2>1. /\ Len(path) \in Nat /\ j - n \in 1 .. Len(path) - n /\ n + (j - n) = j
        /\ Len(SubSeq(path, n + 1, Len(path))) = Len(path) - n
    BY <1>3
  <2>2. SubSeq(path, n + 1, Len(path))[j - n] = path[j]
    BY <1>3, <2>1, SMTT(30)
  <2> QED BY <1>3, <1>4, <2>1, <2>2 DEF Contains
<1> DEFINE T == w \o SubSeq(path, n + 1, Len(path))
<1>7. T \in Seq(Names) /\ Leads(path, n, w, T)
  BY <1>3, <1>5, <1>6, JoinIs
<1>8. RequiredDir(t, host) = T
  BY <1>3, <1>4, <1>7, NormalizePlain
<1> QED BY <1>1, <1>2, <1>7, <1>8 DEF Aim

\* ... and a path has one target.
LEMMA AimedOnce ==
  ASSUME NEW t, TreeOK(t), NEW path \in Seq(STRING), NEW T, NEW R, Aim(t, path, T), Aim(t, path, R)
  PROVE  T = R
<1>1. PICK n, w : Ends(t, path, n, w) /\ Leads(path, n, w, T)
  BY DEF Aim
<1>2. PICK m, v : Ends(t, path, m, v) /\ Leads(path, m, v, R)
  BY DEF Aim
<1>3. m = n /\ v = w
  BY <1>1, <1>2, EndsOnce
<1>4. Leads(path, n, w, R)
  BY <1>2, <1>3
<1>5. /\ T \in Seq(Names) /\ R \in Seq(Names) /\ Len(w) \in Nat /\ n \in 0 .. Len(path) /\ Len(path) \in Nat
      /\ Len(T) = Len(w) + (Len(path) - n) /\ Len(R) = Len(T)
  BY <1>1, <1>4 DEF Leads, Ends
<1>6. ASSUME NEW i \in 1 .. Len(T) PROVE T[i] = R[i]
  <2>1. CASE i <= Len(w)
    <3>1. /\ i \in 1 .. Len(w) /\ Len(w) \in 0 .. Len(T) /\ Len(w) \in 0 .. Len(R)
      BY <1>5, <2>1
    <3>2. SubSeq(T, 1, Len(w)) = w /\ SubSeq(R, 1, Len(w)) = w
      BY <1>1, <1>4 DEF Leads
    <3>3. w[i] = T[i]
      BY <1>5, <3>1, <3>2, PrefixIs
    <3>4. w[i] = R[i]
      BY <1>5, <3>1, <3>2, PrefixIs
    <3> QED BY <3>3, <3>4
  <2>2. CASE ~(i <= Len(w))
    <3>1. PICK j : j = n + (i - Len(w))
      OBVIOUS
    <3>2. j \in n + 1 .. Len(path) /\ Len(w) + (j - n) = i
      BY <1>5, <2>2, <3>1
    <3>3. T[Len(w) + (j - n)] = path[j] /\ R[Len(w) + (j - n)] = path[j]
      BY <1>1, <1>4, <3>2 DEF Leads
    <3> QED BY <3>2, <3>3
  <2> QED BY <1>5, <2>1, <2>2
<1> QED BY <1>5, <1>6, SeqEqual

\* A target that is a directory when it is opened is the directory it names.
LEMMA TargetIsCanonical ==
  ASSUME NEW t, TreeOK(t), NEW path \in Seq(STRING), NEW T, Aim(t, path, T), Canonicalize(t, T) \in t.dirs
  PROVE  Canonicalize(t, T) = T
<1>1. PICK n, w : Ends(t, path, n, w) /\ Leads(path, n, w, T)
  BY DEF Aim
<1>2. /\ T \in Seq(Names) /\ Len(w) \in Nat /\ n \in 0 .. Len(path) /\ Len(path) \in Nat /\ Len(T) \in Nat
      /\ Len(T) = Len(w) + (Len(path) - n) /\ w = SubSeq(T, 1, Len(w)) /\ w # NoPath
      /\ Walk(t, path)[n] = w
  BY <1>1 DEF Leads, Ends
<1>3. T \in Seq(STRING) /\ Len(w) \in 0 .. Len(T) /\ SubSeq(T, 1, Len(T)) = T
  <2>1. Seq(Names) \subseteq Seq(STRING)
    BY DEF Names
  <2> QED BY <1>2, <2>1
<1>4. w \in t.dirs \cup t.files
  BY <1>2, WalkPlaces
<1> DEFINE W == Walk(t, T)
<1>5. W[Len(T)] \in t.dirs /\ Canonicalize(t, T) = W[Len(T)]
  BY DEF Canonicalize
<1>6. NoPath \notin t.dirs
  BY NoPathIsNone
<1> HIDE DEF W
\* A walk that is nowhere before the end of T is nowhere at its end.
<1>7. ASSUME NEW k \in 0 .. Len(T), W[k] = NoPath PROVE FALSE
  <2>1. Len(T) \in k .. Len(T)
    BY <1>2
  <2>2. W[Len(T)] = NoPath
    BY <1>3, <1>7, <2>1, DeadStays DEF W
  <2> QED BY <1>5, <1>6, <2>2
<1>8. CASE w \in t.dirs /\ n = Len(path)
  <2>1. Len(w) = Len(T) /\ w = T
    BY <1>2, <1>3, <1>8
  <2>2. Len(T) \in 0 .. Len(T) /\ SubSeq(T, 1, Len(T)) \in t.dirs
    BY <1>2, <1>3, <1>8, <2>1
  <2>3. W[Len(T)] = SubSeq(T, 1, Len(T))
    BY <1>2, <2>2, PrefixIsCanonical DEF W
  <2> QED BY <1>3, <1>5, <2>3
<1>9. CASE w \in t.dirs /\ n # Len(path)
  <2>1. PICK j : j = Len(w) + 1
    OBVIOUS
  <2>2. /\ j \in 1 .. Len(T) /\ j \in 0 .. Len(T) /\ j - 1 = Len(w) /\ Len(w) # Len(T)
    BY <1>2, <1>9, <2>1
  <2>3. SubSeq(T, 1, j) \notin t.dirs \cup t.files \cup DOMAIN t.links
    BY <1>1, <1>9, <2>1, NextIsFresh
  <2>4. W[Len(w)] = w
    BY <1>2, <1>3, <1>9, PrefixIsCanonical DEF W
  <2>5. W[j] = Step(t, w, T[j])
    BY <1>3, <2>2, <2>4, WalkUnfolds DEF W
  <2>6. Append(w, T[j]) = SubSeq(T, 1, j) /\ T[j] # ".."
    <3>1. T[j] \in Names
      BY <1>2, <2>2
    <3>2. Append(SubSeq(T, 1, Len(w)), T[Len(w) + 1]) = SubSeq(T, 1, Len(w) + 1)
      BY <1>2, <1>3, <2>2, PrefixIs
    <3> QED BY <1>2, <2>1, <3>1, <3>2 DEF Names
  <2>7. W[j] = NoPath
    BY <1>9, <2>3, <2>5, <2>6 DEF Step
  <2> QED BY <1>7, <2>2, <2>7
<1>10. CASE w \notin t.dirs
  <2>1. w \in t.files /\ w # <<>> /\ Front(w) \in t.dirs /\ w \notin DOMAIN t.links
    BY <1>4, <1>10 DEF TreeOK
  <2>2. Len(w) # 0
    <3>1. w \in Seq(Names)
      BY <2>1 DEF TreeOK
    <3> QED BY <2>1, <3>1
  <2>3. PICK j : j = Len(w) - 1
    OBVIOUS
  <2>4. j \in 0 .. Len(T) /\ j + 1 = Len(w) /\ Len(w) \in 1 .. Len(T) /\ Len(w) - 1 = j /\ j # Len(T)
    BY <1>2, <1>3, <2>2, <2>3
  <2>5. Front(w) = SubSeq(T, 1, j)
    BY <1>2, <1>3, <2>2, <2>3, PrefixIs
  <2>6. W[j] = SubSeq(T, 1, j)
    BY <1>2, <2>1, <2>4, <2>5, PrefixIsCanonical DEF W
  <2>7. W[Len(w)] = Step(t, W[j], T[Len(w)])
    BY <1>3, <2>4, WalkUnfolds DEF W
  <2>8. Append(SubSeq(T, 1, j), T[Len(w)]) = w /\ T[Len(w)] # ".."
    <3>1. T[Len(w)] \in Names
      BY <1>2, <2>4
    <3>2. Append(SubSeq(T, 1, j), T[j + 1]) = SubSeq(T, 1, j + 1)
      BY <1>2, <2>4, PrefixIs
    <3> QED BY <1>2, <2>4, <3>1, <3>2 DEF Names
  <2>9. W[Len(w)] = w
    BY <2>1, <2>5, <2>6, <2>7, <2>8 DEF Step
  <2>10. Len(w) # Len(T)
    BY <1>5, <1>10, <2>9
  <2>11. Len(w) + 1 \in 1 .. Len(T) /\ Len(w) + 1 \in 0 .. Len(T) /\ (Len(w) + 1) - 1 = Len(w)
    BY <1>2, <1>3, <2>10
  <2>12. W[Len(w) + 1] = Step(t, W[Len(w)], T[Len(w) + 1])
    BY <1>3, <2>11, WalkUnfolds DEF W
  <2>13. W[Len(w) + 1] = NoPath
    BY <1>10, <2>9, <2>12 DEF Step
  <2> QED BY <1>7, <2>11, <2>13
<1> QED BY <1>8, <1>9, <1>10

-----------------------------------------------------------------------------
\* g is what create_dir_all has made after each of the first n components.
MakesUpTo(t, path, n, g) ==
  g = [i \in 0 .. n |-> IF i = 0 THEN [at |-> <<>>, new |-> {}] ELSE MakeNext(t, g[i - 1], path[i])]

LEMMA MakeExists ==
  ASSUME NEW t, NEW path, NEW n \in Nat
  PROVE  \E g : MakesUpTo(t, path, n, g)
<1> DEFINE none == [at |-> <<>>, new |-> {}]
           S == {m \in 0 .. n : \E g : MakesUpTo(t, path, m, g)}
<1>1. 0 \in S
  <2> DEFINE g == [i \in 0 .. 0 |-> none]
  <2>1. MakesUpTo(t, path, 0, g)
    BY DEF MakesUpTo
  <2> QED BY <2>1
<1>2. ASSUME NEW m \in 0 .. n, m # n, m \in S PROVE m + 1 \in S
  <2>1. PICK g : MakesUpTo(t, path, m, g)
    BY <1>2
  <2> DEFINE h == [i \in 0 .. m + 1 |-> IF i = 0 THEN none ELSE MakeNext(t, g[i - 1], path[i])]
  <2>2. \A i \in 0 .. m : i \in 0 .. m + 1
    OBVIOUS
  <2>3. \A i \in 0 .. m : h[i] = g[i]
    BY <2>1, <2>2, Zenon DEF MakesUpTo
  <2> HIDE DEF h
  <2>4. \A i \in 0 .. m + 1 : i # 0 => h[i - 1] = g[i - 1]
    BY <2>3
  <2>5. \A i \in 0 .. m + 1 : (IF i = 0 THEN none ELSE MakeNext(t, g[i - 1], path[i]))
                            = (IF i = 0 THEN none ELSE MakeNext(t, h[i - 1], path[i]))
    BY <2>4, Zenon
  <2>6. MakesUpTo(t, path, m + 1, h)
    BY <2>5, Zenon DEF MakesUpTo, h
  <2> QED BY <1>2, <2>6
<1>3. \A m \in 0 .. n : m \in S
  <2> HIDE DEF S
  <2> QED BY <1>1, <1>2, NatUpTo
<1> QED BY <1>3

LEMMA MakeUnfolds ==
  ASSUME NEW t, NEW path \in Seq(STRING)
  PROVE  /\ MakeDirs(t, path)[0].at = <<>> /\ MakeDirs(t, path)[0].new = {}
         /\ \A i \in 1 .. Len(path) :
              MakeDirs(t, path)[i] = MakeNext(t, MakeDirs(t, path)[i - 1], path[i])
<1>0. Len(path) \in Nat
  OBVIOUS
<1>1. PICK g : MakesUpTo(t, path, Len(path), g)
  BY <1>0, MakeExists
<1>2. MakesUpTo(t, path, Len(path), MakeDirs(t, path))
  <2>1. MakeDirs(t, path) = CHOOSE h : MakesUpTo(t, path, Len(path), h)
    BY Zenon DEF MakeDirs, MakesUpTo
  <2> QED BY <1>1, <2>1, Zenon
<1>3. \A i \in 0 .. Len(path) :
        MakeDirs(t, path)[i] = IF i = 0 THEN [at |-> <<>>, new |-> {}]
                               ELSE MakeNext(t, MakeDirs(t, path)[i - 1], path[i])
  BY <1>2, Zenon DEF MakesUpTo
<1>4. 0 \in 0 .. Len(path) /\ \A i \in 1 .. Len(path) : i \in 0 .. Len(path) /\ i # 0
  BY <1>0
<1>5. MakeDirs(t, path)[0] = [at |-> <<>>, new |-> {}]
  BY <1>3, <1>4, Zenon
<1>6. \A i \in 1 .. Len(path) : MakeDirs(t, path)[i] = MakeNext(t, MakeDirs(t, path)[i - 1], path[i])
  BY <1>3, <1>4, Zenon
<1> QED BY <1>5, <1>6

\* Each directory it makes is new and in a directory.
LEMMA MakeNextOK ==
  ASSUME NEW t, NEW m, NEW c \in STRING, TreeOK(WithDirs(t, m.new))
  PROVE  TreeOK(WithDirs(t, MakeNext(t, m, c).new))
<1>1. PICK u : u = WithDirs(t, m.new)
  OBVIOUS
<1>2. u.dirs = t.dirs \cup m.new /\ u.files = t.files /\ u.links = t.links /\ TreeOK(u)
  BY <1>1 DEF WithDirs, Tree
<1>3. PICK x : x = Append(m.at, c)
  OBVIOUS
<1>4. CASE m.at \in u.dirs /\ Step(u, m.at, c) = NoPath
  <2>1. MakeNext(t, m, c).new = m.new \cup {x}
    BY <1>1, <1>2, <1>3, <1>4 DEF MakeNext
  <2>2. m.at \in Seq(Names)
    BY <1>2, <1>4 DEF TreeOK
  <2>3. NoPath \notin u.dirs \cup u.files
    BY <1>2, NoPathIsNone
  <2>4. c # ".."
    <3>1. m.at # <<>> => Front(m.at) \in u.dirs
      BY <1>2, <1>4 DEF TreeOK
    <3> QED BY <1>4, <2>3, <3>1 DEF Step
  <2>5. x \notin u.dirs \cup u.files \cup DOMAIN u.links
    <3>1. \A q \in DOMAIN u.links : u.links[q] \in u.dirs
      BY <1>2 DEF TreeOK
    <3> QED BY <1>3, <1>4, <2>3, <2>4, <3>1 DEF Step
  <2>6. x \in Seq(Names) /\ x # <<>> /\ Front(x) = m.at
    <3>1. c \in Names
      BY <2>4 DEF Names
    <3>2. x \in Seq(Names) /\ Len(x) = Len(m.at) + 1 /\ Len(m.at) \in Nat
      BY <1>3, <2>2, <3>1
    <3>3. SubSeq(x, 1, Len(x) - 1) = m.at
      BY <1>3, <2>2, <3>1, <3>2
    <3> QED BY <3>2, <3>3 DEF Front
  <2>7. PICK v : v = WithDirs(t, m.new \cup {x})
    OBVIOUS
  <2>8. v.dirs = u.dirs \cup {x} /\ v.files = u.files /\ v.links = u.links
    BY <1>2, <2>7 DEF WithDirs, Tree
  <2>9. TreeOK(v)
    <3>1. v.dirs \cup v.files \subseteq Seq(Names) /\ <<>> \in v.dirs
      BY <1>2, <2>6, <2>8 DEF TreeOK
    <3>2. \A p \in (v.dirs \cup v.files) \ {<<>>} : Front(p) \in v.dirs
      BY <1>2, <1>4, <2>6, <2>8 DEF TreeOK
    <3>3. v.dirs \cap v.files = {} /\ (v.dirs \cup v.files) \cap DOMAIN v.links = {}
      BY <1>2, <2>5, <2>8 DEF TreeOK
    <3>4. \A p \in DOMAIN v.links : p # <<>> /\ Front(p) \in v.dirs /\ v.links[p] \in v.dirs
      BY <1>2, <2>8 DEF TreeOK
    <3> QED BY <3>1, <3>2, <3>3, <3>4 DEF TreeOK
  <2> QED BY <2>1, <2>7, <2>9
<1>5. CASE ~(m.at \in u.dirs /\ Step(u, m.at, c) = NoPath)
  <2>1. MakeNext(t, m, c).new = m.new
    BY <1>1, <1>2, <1>5 DEF MakeNext
  <2> QED BY <2>1
<1> QED BY <1>4, <1>5

\* Whatever path it is given, prepare_mount_dir leaves a tree.
LEMMA PrepareGrows ==
  ASSUME NEW t, TreeOK(t), NEW path \in Seq(STRING)
  PROVE  Grows(t, WithDirs(t, PrepareDir(t, path).new))
<1> DEFINE M == MakeDirs(t, path)
           S == {k \in 0 .. Len(path) : TreeOK(WithDirs(t, M[k].new))}
<1>0. Len(path) \in Nat
  OBVIOUS
<1>1. 0 \in S
  <2>1. M[0].new = {}
    BY MakeUnfolds
  <2>2. TreeOK(WithDirs(t, {}))
    BY DEF TreeOK, WithDirs, Tree
  <2>3. TreeOK(WithDirs(t, M[0].new))
    BY <2>1, <2>2, Zenon
  <2> QED BY <1>0, <2>3
<1>2. ASSUME NEW k \in 0 .. Len(path), k # Len(path), k \in S PROVE k + 1 \in S
  <2>1. PICK j : j = k + 1
    OBVIOUS
  <2>2. j \in 1 .. Len(path) /\ j - 1 = k /\ j \in 0 .. Len(path) /\ path[j] \in STRING
    <3>1. j \in 1 .. Len(path) /\ j - 1 = k /\ j \in 0 .. Len(path)
      BY <1>0, <1>2, <2>1
    <3> QED BY <3>1
  <2>3. M[j] = MakeNext(t, M[k], path[j])
    BY <2>2, MakeUnfolds
  <2>4. TreeOK(WithDirs(t, M[k].new))
    BY <1>2
  <2>5. TreeOK(WithDirs(t, M[j].new))
    <3> HIDE DEF M
    <3> QED BY <2>2, <2>3, <2>4, MakeNextOK
  <2> QED BY <2>1, <2>2, <2>5
<1>3. \A k \in 0 .. Len(path) : k \in S
  <2> HIDE DEF S
  <2> QED BY <1>0, <1>1, <1>2, NatUpTo
<1>4. TreeOK(WithDirs(t, M[Len(path)].new))
  BY <1>0, <1>3
<1>5. PrepareDir(t, path).new = M[Len(path)].new
  BY DEF PrepareDir
<1>6. PICK u : u = WithDirs(t, PrepareDir(t, path).new)
  OBVIOUS
<1>7. TreeOK(u) /\ t.dirs \subseteq u.dirs /\ t.files \subseteq u.files /\ t.links = u.links
  BY <1>4, <1>5, <1>6 DEF WithDirs, Tree
<1> QED BY <1>6, <1>7 DEF Grows

\* What exists of the path is found, and nothing is made.
LEMMA MadeAlong ==
  ASSUME NEW t, TreeOK(t), NEW path \in Seq(STRING), NEW n, NEW w, Ends(t, path, n, w)
  PROVE  MakeDirs(t, path)[n].at = w /\ MakeDirs(t, path)[n].new = {}
<1> DEFINE W == Walk(t, path)
           M == MakeDirs(t, path)
           S == {k \in 0 .. n : M[k].at = W[k] /\ M[k].new = {}}
<1>1. n \in 0 .. Len(path) /\ Len(path) \in Nat /\ n \in Nat /\ W[n] = w /\ w # NoPath
  BY DEF Ends
<1>2. 0 \in S
  <2>1. M[0].at = <<>> /\ M[0].new = {} /\ W[0] = <<>>
    BY MakeUnfolds, WalkUnfolds
  <2> QED BY <1>1, <2>1
<1>3. ASSUME NEW k \in 0 .. n, k # n, k \in S PROVE k + 1 \in S
  <2>1. PICK j : j = k + 1
    OBVIOUS
  <2>2. j \in 1 .. Len(path) /\ j - 1 = k /\ j \in 0 .. n /\ n \in j .. Len(path) /\ j \in 0 .. Len(path)
    BY <1>1, <1>3, <2>1
  <2>3. W[j] = Step(t, W[k], path[j]) /\ M[j] = MakeNext(t, M[k], path[j])
    BY <2>2, WalkUnfolds, MakeUnfolds
  <2>4. W[j] # NoPath
    BY <1>1, <2>2, DeadStays
  <2>5. M[k].at = W[k] /\ M[k].new = {}
    BY <1>3
  <2>6. Step(WithDirs(t, {}), W[k], path[j]) = Step(t, W[k], path[j])
    BY DEF Step, WithDirs, Tree
  <2>7. M[j] = [at |-> W[j], new |-> {}]
    <3> HIDE DEF M, W
    <3> QED BY <2>3, <2>4, <2>5, <2>6 DEF MakeNext
  <2> QED BY <2>1, <2>2, <2>7
<1>4. \A k \in 0 .. n : k \in S
  <2> HIDE DEF S
  <2> QED BY <1>1, <1>2, <1>3, NatUpTo
<1>5. n \in S
  BY <1>1, <1>4
<1> QED BY <1>1, <1>5

\* What prepare_mount_dir makes of an aimed path lies on the way to the target.
LEMMA PreparedIs ==
  ASSUME NEW t, TreeOK(t), NEW path \in Seq(STRING), NEW T, Aim(t, path, T)
  PROVE  /\ \A p \in PrepareDir(t, path).new : IsPrefix(p, T)
         /\ PrepareDir(t, path).at # NoPath => PrepareDir(t, path).at = T
         /\ T \in Seq(Names)
<1>1. PICK n, w : Ends(t, path, n, w) /\ Leads(path, n, w, T)
  BY DEF Aim
<1>2. /\ Len(w) \in Nat /\ T \in Seq(Names) /\ Len(T) = Len(w) + (Len(path) - n) /\ Len(T) \in Nat
      /\ w = SubSeq(T, 1, Len(w)) /\ Len(path) \in Nat /\ n \in 0 .. Len(path) /\ Len(path) - n \in Nat
  BY <1>1 DEF Leads, Ends
<1> DEFINE M == MakeDirs(t, path)
<1>3. M[n].at = w /\ M[n].new = {}
  BY <1>1, MadeAlong
<1>4. \A j \in 1 .. Len(path) : M[j] = MakeNext(t, M[j - 1], path[j])
  BY MakeUnfolds
<1>5. n + 0 = n /\ Len(w) + 0 = Len(w) /\ 0 \in 0 .. Len(path) - n /\ n + (Len(path) - n) = Len(path)
  BY <1>2
<1>6. PICK end : end = M[Len(path)]
  OBVIOUS
<1>7. /\ PrepareDir(t, path).new = end.new
      /\ PrepareDir(t, path).at = IF end.at \in t.dirs \cup end.new THEN end.at ELSE NoPath
  BY <1>6 DEF PrepareDir, ExistingDir, WithDirs, Tree
<1> HIDE DEF M
<1>8. CASE w \notin t.dirs
  <2> DEFINE S == {i \in 0 .. Len(path) - n : M[n + i].at \notin t.dirs /\ M[n + i].new = {}}
  <2>1. 0 \in S
    BY <1>3, <1>5, <1>8
  <2>2. ASSUME NEW i \in 0 .. Len(path) - n, i # Len(path) - n, i \in S PROVE i + 1 \in S
    <3>1. PICK j : j = n + i + 1
      OBVIOUS
    <3>2. j \in 1 .. Len(path) /\ j - 1 = n + i /\ j = n + (i + 1) /\ i + 1 \in 0 .. Len(path) - n
      BY <1>2, <2>2, <3>1
    <3>3. M[j] = MakeNext(t, M[n + i], path[j]) /\ M[n + i].at \notin t.dirs /\ M[n + i].new = {}
      BY <1>4, <2>2, <3>2
    <3>4. Step(WithDirs(t, {}), M[n + i].at, path[j]) = NoPath
      BY <3>3 DEF Step, WithDirs, Tree
    <3>5. M[j] = [at |-> NoPath, new |-> {}]
      BY <3>3, <3>4 DEF MakeNext
    <3>6. NoPath \notin t.dirs
      BY NoPathIsNone
    <3> QED BY <3>2, <3>5, <3>6
  <2>3. \A i \in 0 .. Len(path) - n : i \in S
    <3> HIDE DEF S
    <3> QED BY <1>2, <2>1, <2>2, NatUpTo
  <2>4. Len(path) - n \in S
    <3>1. Len(path) - n \in 0 .. Len(path) - n
      BY <1>2
    <3> HIDE DEF S
    <3> QED BY <2>3, <3>1
  <2>5. end.at \notin t.dirs /\ end.new = {}
    BY <1>5, <1>6, <2>4
  <2> QED BY <1>2, <1>7, <2>5
<1>9. CASE w \in t.dirs
  <2> DEFINE S == {i \in 0 .. Len(path) - n :
                     /\ M[n + i].at = SubSeq(T, 1, Len(w) + i) /\ M[n + i].at \in t.dirs \cup M[n + i].new
                     /\ \A p \in M[n + i].new : IsPrefix(p, T)}
  <2>1. 0 \in S
    BY <1>2, <1>3, <1>5, <1>9
  <2>2. ASSUME NEW i \in 0 .. Len(path) - n, i # Len(path) - n, i \in S PROVE i + 1 \in S
    <3>1. PICK j, k : j = n + i + 1 /\ k = Len(w) + i
      OBVIOUS
    <3>2. /\ j \in 1 .. Len(path) /\ j - 1 = n + i /\ j = n + (i + 1) /\ i + 1 \in 0 .. Len(path) - n
          /\ j \in n + 1 .. Len(path) /\ j - n = i + 1
          /\ k \in 0 .. Len(T) /\ k # Len(T) /\ k + 1 \in Len(w) + 1 .. Len(T) /\ k + 1 = Len(w) + (i + 1)
          /\ k + 1 \in 0 .. Len(T)
      BY <1>2, <2>2, <3>1
    <3>3. PICK m : m = M[n + i]
      OBVIOUS
    <3>4. /\ M[j] = MakeNext(t, m, path[j]) /\ m.at = SubSeq(T, 1, k) /\ m.at \in t.dirs \cup m.new
          /\ \A p \in m.new : IsPrefix(p, T)
      BY <1>4, <2>2, <3>1, <3>2, <3>3
    <3>5. path[j] # ".." /\ path[j] = T[k + 1]
      BY <1>1, <3>2 DEF Leads
    <3>6. PICK x : x = SubSeq(T, 1, k + 1)
      OBVIOUS
    <3>7. Append(m.at, path[j]) = x
      BY <1>2, <3>2, <3>4, <3>5, <3>6, PrefixIs
    <3>8. x \notin t.dirs \cup t.files \cup DOMAIN t.links
      BY <1>1, <1>9, <3>2, <3>6, RestIsFresh
    <3>9. IsPrefix(x, T)
      <4>1. x \in Seq(Names) /\ Len(x) = k + 1 /\ k + 1 <= Len(T)
        BY <1>2, <3>2, <3>6, PrefixIs
      <4>2. SubSeq(x, 1, Len(x)) = x
        BY <4>1
      <4> QED BY <3>6, <4>1, <4>2 DEF IsPrefix
    <3>10. Step(WithDirs(t, m.new), m.at, path[j]) = IF x \in m.new THEN x ELSE NoPath
      BY <3>4, <3>5, <3>7, <3>8 DEF Step, WithDirs, Tree
    <3>11. M[j].at = x /\ x \in t.dirs \cup M[j].new /\ \A p \in M[j].new : IsPrefix(p, T)
      <4>1. CASE x \in m.new /\ x # NoPath
        <5>1. M[j] = [at |-> x, new |-> m.new]
          BY <3>4, <3>10, <4>1 DEF MakeNext
        <5> QED BY <3>4, <4>1, <5>1
      <4>2. CASE ~(x \in m.new /\ x # NoPath)
        <5>1. M[j] = [at |-> x, new |-> m.new \cup {x}]
          BY <3>4, <3>7, <3>10, <4>2 DEF MakeNext
        <5> QED BY <3>4, <3>9, <5>1
      <4> QED BY <4>1, <4>2
    <3> QED BY <3>2, <3>6, <3>11
  <2>3. \A i \in 0 .. Len(path) - n : i \in S
    <3> HIDE DEF S
    <3> QED BY <1>2, <2>1, <2>2, NatUpTo
  <2>4. Len(path) - n \in S
    <3>1. Len(path) - n \in 0 .. Len(path) - n
      BY <1>2
    <3> HIDE DEF S
    <3> QED BY <2>3, <3>1
  <2>5. end.at = SubSeq(T, 1, Len(T)) /\ \A p \in end.new : IsPrefix(p, T)
    BY <1>2, <1>5, <1>6, <2>4
  <2>6. SubSeq(T, 1, Len(T)) = T
    BY <1>2
  <2> QED BY <1>2, <1>7, <2>5, <2>6
<1> QED BY <1>8, <1>9

-----------------------------------------------------------------------------
May(s, cap) == \E h \in s.tool.held : Allows(h, cap)

\* Every mount of the call is aimed at a directory its capabilities are for,
\* and what it will open is such a target.
Aimed(s, t) ==
  /\ \A i \in DOMAIN s.tool.mounts : \E T :
       /\ Aim(t, Absolute(s.tool.mounts[i].host), T)
       /\ CapsFor(T, s.tool.mounts[i].write) \subseteq s.caps
  /\ \A p \in s.opens : \E i \in DOMAIN s.tool.mounts :
       /\ Aim(t, Absolute(s.tool.mounts[i].host), p.host)
       /\ CapsFor(p.host, p.write) \subseteq s.caps

\* What is known of a call none of whose mounts was made to lead elsewhere.
StraightOK(s, t) ==
  /\ s.pc \in {"authorize", "prepare", "open"} /\ s.tool.mounts # NoPath => Aimed(s, t)
  /\ s.pc \in {"prepare", "open"} /\ s.tool.mounts # NoPath => \A cap \in s.caps : May(s, cap)
  /\ s.tool.mounts # NoPath => \A p \in s.opened : \A cap \in CapsFor(p.at, p.write) : May(s, cap)
  /\ \A q \in s.made : \E cap \in s.caps : May(s, cap) /\ IsPrefix(q, NormalizePath(cap.at))

WasiFields == {"pc", "tool", "caps", "opens", "made", "done", "opened", "moved"}

\* What is known of a call, on a disk t.
MountOK(s, t) ==
  \/ s.pc = "idle"
  \/ /\ DOMAIN s = WasiFields /\ s.tool \in WasiTools /\ s.done \in Nat
     /\ s.pc \in {"derive", "prepare"} => s.tool.mounts # NoPath
     /\ s.pc \in {"derive", "authorize"} => s.opens = {} /\ s.made = {}
     /\ s.pc \in {"derive", "authorize", "prepare", "open"} => s.opened = {}
     /\ ~s.moved => StraightOK(s, t)

MountInv ==
  /\ TreeOK(disk)
  /\ wasi = [c \in WasiCallers |-> wasi[c]]
  /\ \A c \in WasiCallers : MountOK(wasi[c], disk)

LEMMA MountPathsOK ==
  ASSUME NEW tool \in WasiTools, tool.mounts # NoPath, NEW i \in DOMAIN tool.mounts
  PROVE  Absolute(tool.mounts[i].host) \in Seq(STRING) /\ tool.mounts[i].host.at \in Seq(STRING)
BY PathsAssumption, AbsoluteIsPath

LEMMA MountStarts == MountInit => MountInv
BY TreeAssumption DEF MountInit, MountInv, MountOK, Unborn

\* A call is as it was on a disk on which its mounts are aimed as before.
LEMMA SameAim ==
  ASSUME NEW s, NEW t, NEW u, MountOK(s, t),
         \A i \in DOMAIN s.tool.mounts : \A T :
           /\ ~s.moved /\ s.pc \in {"authorize", "prepare", "open"} /\ s.tool.mounts # NoPath /\ s.tool \in WasiTools
           /\ Aim(t, Absolute(s.tool.mounts[i].host), T)
           => Aim(u, Absolute(s.tool.mounts[i].host), T)
  PROVE  MountOK(s, u)
<1>1. CASE s.pc = "idle" \/ s.moved
  BY <1>1 DEF MountOK
<1>2. CASE s.pc # "idle" /\ ~s.moved
  <2>1. StraightOK(s, t) /\ s.tool \in WasiTools
    BY <1>2 DEF MountOK
  <2>2. ASSUME s.pc \in {"authorize", "prepare", "open"}, s.tool.mounts # NoPath PROVE Aimed(s, u)
    <3>1. Aimed(s, t)
      BY <2>1, <2>2 DEF StraightOK
    <3>2. \A i \in DOMAIN s.tool.mounts : \A T :
            Aim(t, Absolute(s.tool.mounts[i].host), T) => Aim(u, Absolute(s.tool.mounts[i].host), T)
      BY <1>2, <2>1, <2>2
    <3> QED BY <3>1, <3>2 DEF Aimed
  <2>3. StraightOK(s, u)
    BY <2>1, <2>2 DEF StraightOK
  <2> QED BY <1>2, <2>3 DEF MountOK
<1> QED BY <1>1, <1>2

\* The other calls are as they were when the tree grows.
LEMMA MountKeeps ==
  ASSUME NEW s, NEW t, NEW u, MountOK(s, t), Grows(t, u)
  PROVE  MountOK(s, u)
<1>1. ASSUME NEW i \in DOMAIN s.tool.mounts, NEW T, s.tool.mounts # NoPath, s.tool \in WasiTools,
             Aim(t, Absolute(s.tool.mounts[i].host), T)
      PROVE  Aim(u, Absolute(s.tool.mounts[i].host), T)
  BY <1>1, MountPathsOK, AimKeeps
<1> QED BY <1>1, SameAim

\* A step of one call, or of the tree alone.
LEMMA OneMountStep ==
  ASSUME MountInv, Grows(disk, disk'), NEW c \in WasiCallers, NEW s, MountOK(s, disk'), SetCall(c, s)
  PROVE  MountInv'
<1>1. PICK t, u : t = disk /\ u = disk'
  OBVIOUS
<1>2. wasi' = [wasi EXCEPT ![c] = s] /\ wasi = [o \in WasiCallers |-> wasi[o]]
  BY DEF SetCall, MountInv
<1>3. ASSUME NEW o \in WasiCallers PROVE MountOK(wasi'[o], u)
  <2>1. CASE o = c
    BY <1>1, <1>2, <2>1
  <2>2. CASE o # c
    <3>1. wasi'[o] = wasi[o] /\ MountOK(wasi[o], t)
      BY <1>1, <1>2, <2>2 DEF MountInv
    <3> QED BY <1>1, <3>1, MountKeeps
  <2> QED BY <2>1, <2>2
<1>4. wasi' = [o \in WasiCallers |-> wasi'[o]]
  BY <1>2
<1>5. TreeOK(disk')
  BY DEF Grows
<1> QED BY <1>1, <1>3, <1>4, <1>5 DEF MountInv

LEMMA TreeStep ==
  ASSUME MountInv, Grows(disk, disk'), UNCHANGED wasi
  PROVE  MountInv'
<1>1. PICK t, u : t = disk /\ u = disk'
  OBVIOUS
<1>2. ASSUME NEW o \in WasiCallers PROVE MountOK(wasi'[o], u)
  BY <1>1, MountKeeps DEF MountInv
<1>3. TreeOK(disk')
  BY DEF Grows
<1> QED BY <1>1, <1>2, <1>3 DEF MountInv

LEMMA CreateStep ==
  ASSUME MountInv, OtherCreates
  PROVE  MountInv'
<1>1. PICK e \in OtherEntries :
        /\ e.at \notin disk.dirs \cup disk.files \cup DOMAIN disk.links /\ Front(e.at) \in disk.dirs
        /\ disk' = IF e.dir THEN WithDirs(disk, {e.at})
                   ELSE Tree(disk.dirs, disk.files \cup {e.at}, disk.links)
  BY DEF OtherCreates
<1>2. e.at \in Seq(Names)
  BY OthersAssumption
<1>3. PICK t, u : t = disk /\ u = disk'
  OBVIOUS
<1>4. TreeOK(t)
  BY <1>3 DEF MountInv
<1>5. /\ u.links = t.links /\ t.dirs \subseteq u.dirs /\ t.files \subseteq u.files
      /\ \/ u.dirs = t.dirs \cup {e.at} /\ u.files = t.files
         \/ u.dirs = t.dirs /\ u.files = t.files \cup {e.at}
  BY <1>1, <1>3 DEF WithDirs, Tree
<1>6. e.at \notin t.dirs \cup t.files \cup DOMAIN t.links /\ Front(e.at) \in t.dirs
  BY <1>1, <1>3
<1>7. TreeOK(u)
  <2>1. CASE u.dirs = t.dirs \cup {e.at} /\ u.files = t.files
    BY <1>2, <1>4, <1>5, <1>6, <2>1 DEF TreeOK
  <2>2. CASE u.dirs = t.dirs /\ u.files = t.files \cup {e.at}
    BY <1>2, <1>4, <1>5, <1>6, <2>2 DEF TreeOK
  <2> QED BY <1>5, <2>1, <2>2
<1>8. Grows(t, u)
  BY <1>4, <1>5, <1>7 DEF Grows
<1> QED BY <1>3, <1>8, TreeStep DEF OtherCreates

\* A mount that leads where it did after a change of the disk is aimed as
\* before, and a call with a mount that does not is marked.
LEMMA ReplaceStep ==
  ASSUME MountInv, OtherReplaces
  PROVE  MountInv'
<1>1. PICK t, u : t = disk /\ u = disk'
  OBVIOUS
<1>2. TreeOK(t) /\ TreeOK(u)
  BY <1>1 DEF MountInv, OtherReplaces
<1>3. wasi' = [c \in WasiCallers |->
        IF Diverted(t, u, wasi[c]) THEN [wasi[c] EXCEPT !.moved = TRUE] ELSE wasi[c]]
  BY <1>1 DEF OtherReplaces
<1>4. ASSUME NEW o \in WasiCallers PROVE MountOK(wasi'[o], u)
  <2>1. PICK s : s = wasi[o]
    OBVIOUS
  <2>2. MountOK(s, t)
    BY <1>1, <2>1 DEF MountInv
  <2>3. CASE Diverted(t, u, s)
    <3>1. s.pc \in {"authorize", "prepare", "open"}
      BY <2>3 DEF Diverted
    <3>2. PICK x : x = [s EXCEPT !.moved = TRUE]
      OBVIOUS
    <3>3. wasi'[o] = x
      BY <1>3, <2>1, <2>3, <3>2
    <3>4. DOMAIN s = WasiFields
      BY <2>2, <3>1 DEF MountOK
    <3>5. /\ DOMAIN x = DOMAIN s /\ x.pc = s.pc /\ x.tool = s.tool /\ x.opens = s.opens /\ x.made = s.made
          /\ x.done = s.done /\ x.opened = s.opened /\ x.moved = TRUE
      BY <3>2, <3>4 DEF WasiFields
    <3>6. MountOK(x, u)
      BY <2>2, <3>1, <3>5 DEF MountOK
    <3> QED BY <3>3, <3>6
  <2>4. CASE ~Diverted(t, u, s)
    <3>1. wasi'[o] = s
      BY <1>3, <2>1, <2>4
    <3>2. ASSUME NEW i \in DOMAIN s.tool.mounts, NEW T, s.pc \in {"authorize", "prepare", "open"},
                 s.tool.mounts # NoPath, s.tool \in WasiTools, Aim(t, Absolute(s.tool.mounts[i].host), T)
          PROVE  Aim(u, Absolute(s.tool.mounts[i].host), T)
      <4>1. PICK m : m = s.tool.mounts[i]
        OBVIOUS
      <4>2. m \in Range(s.tool.mounts)
        BY <4>1 DEF Range
      <4>3. RequiredDir(u, m.host) # NoPath /\ RequiredDir(u, m.host) = RequiredDir(t, m.host)
        BY <2>4, <3>2, <4>2 DEF Diverted
      <4>4. Absolute(m.host) \in Seq(STRING) /\ m.host.at \in Seq(STRING)
        BY <3>2, <4>1, MountPathsOK
      <4>5. Aim(t, Absolute(m.host), RequiredDir(t, m.host)) /\ Aim(u, Absolute(m.host), RequiredDir(u, m.host))
        BY <1>2, <4>3, <4>4, RequiredIsAimed
      <4>6. T = RequiredDir(t, m.host)
        BY <1>2, <3>2, <4>1, <4>4, <4>5, AimedOnce
      <4> QED BY <4>1, <4>3, <4>5, <4>6
    <3>3. MountOK(s, u)
      BY <2>2, <3>2, SameAim
    <3> QED BY <3>1, <3>3
  <2> QED BY <2>3, <2>4
<1>5. wasi' = [o \in WasiCallers |-> wasi'[o]]
  BY <1>3
<1> QED BY <1>1, <1>2, <1>4, <1>5 DEF MountInv

\* A step that leaves the disk alone.
LEMMA MountCallStep ==
  ASSUME MountInv, UNCHANGED disk, NEW c \in WasiCallers, NEW s, MountOK(s, disk), SetCall(c, s)
  PROVE  MountInv'
<1>1. Grows(disk, disk')
  BY DEF MountInv, Grows
<1>2. MountOK(s, disk')
  OBVIOUS
<1> QED BY <1>1, <1>2, OneMountStep

LEMMA BeginStep ==
  ASSUME MountInv, NEW c \in WasiCallers, NEW tool \in WasiTools, BeginWasi(c, tool)
  PROVE  MountInv'
<1>1. PICK k : k = IF tool.mounts = NoPath THEN "authorize" ELSE "derive"
  OBVIOUS
<1>2. PICK s : s = [pc |-> k, tool |-> tool, caps |-> Range(tool.caps), opens |-> {}, made |-> {}, done |-> 0,
                    opened |-> {}, moved |-> FALSE]
  OBVIOUS
<1>3. SetCall(c, s) /\ UNCHANGED disk
  BY <1>1, <1>2 DEF BeginWasi
<1>4. MountOK(s, disk)
  BY <1>1, <1>2 DEF MountOK, StraightOK, WasiFields
<1> QED BY <1>3, <1>4, MountCallStep

\* A call that only moves on.
LEMMA LeaveStep ==
  ASSUME MountInv, NEW c \in WasiCallers, NEW k, wasi[c].pc # "idle",
         k \in {"failed", "refused"} \/ (k = "open" /\ wasi[c].pc = "prepare"),
         Leave(c, k), UNCHANGED disk
  PROVE  MountInv'
<1>1. PICK s, x : s = wasi[c] /\ x = [s EXCEPT !.pc = k]
  OBVIOUS
<1>2. MountOK(s, disk) /\ s.pc # "idle"
  BY <1>1 DEF MountInv
<1>3. /\ DOMAIN x = DOMAIN s /\ x.pc = k /\ x.tool = s.tool /\ x.caps = s.caps /\ x.opens = s.opens
      /\ x.made = s.made /\ x.done = s.done /\ x.opened = s.opened /\ x.moved = s.moved
  BY <1>1, <1>2 DEF MountOK, WasiFields
<1>4. ASSUME ~s.moved PROVE StraightOK(x, disk)
  <2>1. StraightOK(s, disk)
    BY <1>2, <1>4 DEF MountOK
  <2>2. Aimed(s, disk) => Aimed(x, disk)
    BY <1>3 DEF Aimed
  <2> QED BY <1>1, <1>3, <2>1, <2>2 DEF StraightOK, May
<1>5. MountOK(x, disk)
  BY <1>1, <1>2, <1>3, <1>4 DEF MountOK
<1>6. SetCall(c, x)
  BY <1>1 DEF Leave
<1> QED BY <1>5, <1>6, MountCallStep

LEMMA DeriveStep ==
  ASSUME MountInv, NEW c \in WasiCallers, DeriveCaps(c)
  PROVE  MountInv'
<1>1. PICK s : s = wasi[c]
  OBVIOUS
<1>2. MountOK(s, disk) /\ s.pc = "derive" /\ TreeOK(disk)
  BY <1>1 DEF MountInv, DeriveCaps, At
<1>3. /\ DOMAIN s = WasiFields /\ s.tool \in WasiTools /\ s.tool.mounts # NoPath /\ s.opens = {} /\ s.made = {}
      /\ s.opened = {} /\ s.done \in Nat
  BY <1>2 DEF MountOK
<1>4. CASE Leave(c, "failed") /\ UNCHANGED disk
  BY <1>1, <1>2, <1>4, LeaveStep
<1>5. CASE /\ \A m \in Range(s.tool.mounts) : RequiredDir(disk, m.host) # NoPath
           /\ SetCall(c, [s EXCEPT !.pc = "authorize", !.caps = @ \cup MountCaps(disk, s.tool.mounts)])
           /\ UNCHANGED disk
  <2>1. PICK more : more = s.caps \cup MountCaps(disk, s.tool.mounts)
    OBVIOUS
  <2>2. PICK x : x = [s EXCEPT !.pc = "authorize", !.caps = more]
    OBVIOUS
  <2>3. /\ DOMAIN x = DOMAIN s /\ x.pc = "authorize" /\ x.tool = s.tool /\ x.caps = more
        /\ x.opens = {} /\ x.made = {} /\ x.done = s.done /\ x.opened = {} /\ x.moved = s.moved
    BY <1>3, <2>2 DEF WasiFields
  <2>4. Aimed(x, disk)
    <3> SUFFICES ASSUME NEW i \in DOMAIN s.tool.mounts
                 PROVE  \E T : /\ Aim(disk, Absolute(s.tool.mounts[i].host), T)
                               /\ CapsFor(T, s.tool.mounts[i].write) \subseteq more
      BY <2>3 DEF Aimed
    <3>1. PICK m : m = s.tool.mounts[i]
      OBVIOUS
    <3>2. m \in Range(s.tool.mounts)
      BY <3>1 DEF Range
    <3>3. m.host.at \in Seq(STRING)
      BY <1>3, <3>1, MountPathsOK
    <3>4. Aim(disk, Absolute(m.host), RequiredDir(disk, m.host))
      BY <1>2, <1>5, <3>2, <3>3, RequiredIsAimed
    <3>5. CapsFor(RequiredDir(disk, m.host), m.write) \subseteq MountCaps(disk, s.tool.mounts)
      BY <3>2 DEF MountCaps
    <3> QED BY <2>1, <3>1, <3>4, <3>5
  <2>5. MountOK(x, disk)
    BY <1>3, <2>3, <2>4 DEF MountOK, StraightOK
  <2>6. SetCall(c, x)
    BY <1>5, <2>1, <2>2
  <2> QED BY <1>5, <2>5, <2>6, MountCallStep
<1> QED BY <1>1, <1>4, <1>5 DEF DeriveCaps

LEMMA AuthorizeStep ==
  ASSUME MountInv, NEW c \in WasiCallers, AuthorizeWasi(c)
  PROVE  MountInv'
<1>1. PICK s : s = wasi[c]
  OBVIOUS
<1>2. MountOK(s, disk) /\ s.pc = "authorize" /\ UNCHANGED disk
  BY <1>1 DEF MountInv, AuthorizeWasi, At
<1>3. /\ DOMAIN s = WasiFields /\ s.tool \in WasiTools /\ s.opens = {} /\ s.made = {} /\ s.opened = {}
      /\ s.done \in Nat /\ (s.tool.mounts # NoPath /\ ~s.moved => Aimed(s, disk))
  BY <1>2 DEF MountOK, StraightOK
<1>4. CASE Leave(c, "refused")
  BY <1>1, <1>2, <1>4, LeaveStep
<1>5. CASE /\ s.tool.mounts = NoPath
           /\ SetCall(c, [s EXCEPT !.pc = "open", !.opens = FromCapabilities(s.tool.caps)])
  <2>1. PICK o : o = FromCapabilities(s.tool.caps)
    OBVIOUS
  <2>2. PICK x : x = [s EXCEPT !.pc = "open", !.opens = o]
    OBVIOUS
  <2>3. /\ DOMAIN x = DOMAIN s /\ x.pc = "open" /\ x.tool = s.tool /\ x.caps = s.caps
        /\ x.made = {} /\ x.done = s.done /\ x.opened = {}
    BY <1>3, <2>2 DEF WasiFields
  <2>4. MountOK(x, disk)
    BY <1>3, <1>5, <2>3 DEF MountOK, StraightOK
  <2>5. SetCall(c, x)
    BY <1>5, <2>1, <2>2
  <2> QED BY <1>2, <2>4, <2>5, MountCallStep
<1>6. CASE /\ s.tool.mounts # NoPath /\ Leave(c, "prepare")
           /\ \A cap \in s.caps : \E h \in s.tool.held : Allows(h, cap)
  <2>1. PICK x : x = [s EXCEPT !.pc = "prepare"]
    OBVIOUS
  <2>2. /\ DOMAIN x = DOMAIN s /\ x.pc = "prepare" /\ x.tool = s.tool /\ x.caps = s.caps /\ x.moved = s.moved
        /\ x.opens = {} /\ x.made = {} /\ x.done = s.done /\ x.opened = {}
    BY <1>3, <2>1 DEF WasiFields
  <2>3. ~x.moved => Aimed(x, disk)
    BY <1>3, <1>6, <2>2 DEF Aimed
  <2>4. \A cap \in x.caps : May(x, cap)
    BY <1>6, <2>2 DEF May
  <2>5. MountOK(x, disk)
    BY <1>3, <1>6, <2>2, <2>3, <2>4 DEF MountOK, StraightOK
  <2>6. SetCall(c, x)
    BY <1>1, <1>6, <2>1 DEF Leave
  <2> QED BY <1>2, <2>5, <2>6, MountCallStep
<1> QED BY <1>1, <1>4, <1>5, <1>6 DEF AuthorizeWasi

\* prepare_mount_dir looks the path up again, and a path that was not moved
\* still leads to the directory the capability is for.
LEMMA PrepareStep ==
  ASSUME MountInv, NEW c \in WasiCallers, PrepareMount(c)
  PROVE  MountInv'
<1>1. PICK s, t : s = wasi[c] /\ t = disk
  OBVIOUS
<1>2. MountOK(s, t) /\ s.pc = "prepare" /\ TreeOK(t) /\ s.done < Len(s.tool.mounts)
  BY <1>1 DEF MountInv, PrepareMount, At
<1>3. /\ DOMAIN s = WasiFields /\ s.tool \in WasiTools /\ s.done \in Nat /\ s.tool.mounts # NoPath
      /\ s.opened = {} /\ (~s.moved => StraightOK(s, t))
  BY <1>2 DEF MountOK
<1>4. s.done + 1 \in DOMAIN s.tool.mounts
  BY <1>2, <1>3, PathsAssumption
<1>5. PICK m : m = s.tool.mounts[s.done + 1]
  OBVIOUS
<1>6. PICK path \in Seq(STRING) : path = Absolute(m.host)
  BY <1>3, <1>4, <1>5, MountPathsOK
<1>7. PICK at, new : at = PrepareDir(t, path).at /\ new = PrepareDir(t, path).new
  OBVIOUS
<1>8. PICK k, o : /\ k = IF at = NoPath THEN "failed" ELSE s.pc
                  /\ o = IF at = NoPath THEN s.opens
                         ELSE s.opens \cup {[host |-> at, guest |-> NormalizeGuest(m.guest), write |-> m.write]}
  OBVIOUS
<1>9. PICK x : x = [s EXCEPT !.pc = k, !.opens = o, !.made = s.made \cup new, !.done = s.done + 1]
  OBVIOUS
<1>10. PICK u : u = WithDirs(t, new)
  OBVIOUS
<1>11. disk' = u /\ SetCall(c, x)
  BY <1>1, <1>5, <1>6, <1>7, <1>8, <1>9, <1>10 DEF PrepareMount
<1>12. /\ DOMAIN x = DOMAIN s /\ x.pc = k /\ x.tool = s.tool /\ x.caps = s.caps /\ x.opens = o
       /\ x.made = s.made \cup new /\ x.done = s.done + 1 /\ x.opened = {} /\ x.moved = s.moved
  BY <1>3, <1>9 DEF WasiFields
<1>13. Grows(t, u)
  BY <1>2, <1>7, <1>10, PrepareGrows
<1>14. ASSUME ~s.moved PROVE StraightOK(x, u)
  <2>1. Aimed(s, t) /\ \A cap \in s.caps : May(s, cap)
    BY <1>2, <1>3, <1>14 DEF StraightOK
  <2>2. PICK T : Aim(t, path, T) /\ CapsFor(T, m.write) \subseteq s.caps
    BY <1>4, <1>5, <1>6, <2>1 DEF Aimed
  <2>3. (\A p \in new : IsPrefix(p, T)) /\ (at # NoPath => at = T) /\ T \in Seq(Names)
    BY <1>2, <1>7, <2>2, PreparedIs
  <2>4. Aimed(s, u)
    <3>1. MountOK(s, u)
      BY <1>2, <1>13, MountKeeps
    <3> QED BY <1>2, <1>3, <1>14, <3>1 DEF MountOK, StraightOK
  <2>5. Aim(u, path, T)
    BY <1>13, <2>2, AimKeeps
  <2>6. ASSUME NEW p \in x.opens
        PROVE  \E i \in DOMAIN s.tool.mounts : /\ Aim(u, Absolute(s.tool.mounts[i].host), p.host)
                                               /\ CapsFor(p.host, p.write) \subseteq s.caps
    <3>1. CASE p \in s.opens
      BY <2>4, <3>1 DEF Aimed
    <3>2. CASE p.host = T /\ p.write = m.write
      BY <1>4, <1>5, <1>6, <2>2, <2>5, <3>2
    <3> QED BY <1>8, <1>12, <2>3, <3>1, <3>2
  <2>7. Aimed(x, u)
    BY <1>12, <2>4, <2>6 DEF Aimed
  <2>8. \A cap \in x.caps : May(x, cap)
    BY <1>12, <2>1 DEF May
  <2>9. ASSUME NEW q \in x.made
        PROVE  \E cap \in x.caps : May(x, cap) /\ IsPrefix(q, NormalizePath(cap.at))
    <3>1. CASE q \in s.made
      BY <1>3, <1>12, <1>14, <3>1 DEF May, StraightOK
    <3>2. CASE q \in new
      <4>1. [kind |-> "read_file", at |-> T] \in CapsFor(T, m.write)
        BY DEF CapsFor
      <4>2. NormalizePath(T) = T
        BY <2>3, NormalizePlain
      <4>3. PICK cap : cap = [kind |-> "read_file", at |-> T]
        OBVIOUS
      <4>4. cap.at = T /\ cap \in x.caps
        BY <1>12, <2>2, <4>1, <4>3
      <4> QED BY <2>3, <2>8, <3>2, <4>2, <4>4
    <3> QED BY <1>12, <3>1, <3>2
  <2> QED BY <1>12, <2>7, <2>8, <2>9 DEF StraightOK
<1>15. k \in {"failed", "prepare"} /\ s.done + 1 \in Nat
  BY <1>2, <1>3, <1>8
<1>16. MountOK(x, u)
  BY <1>3, <1>12, <1>14, <1>15 DEF MountOK
<1> QED BY <1>1, <1>11, <1>13, <1>16, OneMountStep

\* The worker opens the targets, where they are.
LEMMA OpenStep ==
  ASSUME MountInv, NEW c \in WasiCallers, OpenMounts(c)
  PROVE  MountInv'
<1>1. PICK s : s = wasi[c]
  OBVIOUS
<1>2. MountOK(s, disk) /\ s.pc = "open" /\ TreeOK(disk) /\ UNCHANGED disk
  BY <1>1 DEF MountInv, OpenMounts, At
<1>3. DOMAIN s = WasiFields /\ s.tool \in WasiTools /\ s.done \in Nat /\ (~s.moved => StraightOK(s, disk))
  BY <1>2 DEF MountOK
<1>4. CASE Leave(c, "failed")
  BY <1>1, <1>2, <1>4, LeaveStep
<1>5. CASE /\ \A p \in s.opens : Canonicalize(disk, p.host) \in disk.dirs
           /\ SetCall(c, [s EXCEPT !.pc = "running",
                !.opened = {[at |-> Canonicalize(disk, p.host), write |-> p.write] : p \in s.opens}])
  <2>1. PICK o : o = {[at |-> Canonicalize(disk, p.host), write |-> p.write] : p \in s.opens}
    OBVIOUS
  <2>2. PICK x : x = [s EXCEPT !.pc = "running", !.opened = o]
    OBVIOUS
  <2>3. /\ DOMAIN x = DOMAIN s /\ x.pc = "running" /\ x.tool = s.tool /\ x.caps = s.caps /\ x.opens = s.opens
        /\ x.made = s.made /\ x.done = s.done /\ x.opened = o /\ x.moved = s.moved
    BY <1>3, <2>2 DEF WasiFields
  <2>4. ASSUME ~s.moved, s.tool.mounts # NoPath, NEW q \in o, NEW cap \in CapsFor(q.at, q.write)
        PROVE  May(x, cap)
    <3>1. PICK p \in s.opens : q = [at |-> Canonicalize(disk, p.host), write |-> p.write]
      BY <2>1, <2>4
    <3>2. Aimed(s, disk) /\ \A y \in s.caps : May(s, y)
      BY <1>2, <1>3, <2>4 DEF StraightOK
    <3>3. PICK i \in DOMAIN s.tool.mounts : /\ Aim(disk, Absolute(s.tool.mounts[i].host), p.host)
                                            /\ CapsFor(p.host, p.write) \subseteq s.caps
      BY <3>2 DEF Aimed
    <3>4. PICK path \in Seq(STRING) : path = Absolute(s.tool.mounts[i].host)
      BY <1>3, <2>4, MountPathsOK
    <3>5. Canonicalize(disk, p.host) = p.host
      BY <1>2, <1>5, <3>3, <3>4, TargetIsCanonical
    <3>6. cap \in s.caps
      BY <2>4, <3>1, <3>3, <3>5
    <3> QED BY <2>3, <3>2, <3>6 DEF May
  <2>5. ~s.moved => StraightOK(x, disk)
    BY <1>3, <2>3, <2>4 DEF StraightOK, May
  <2>6. MountOK(x, disk)
    BY <1>3, <2>3, <2>5 DEF MountOK
  <2>7. SetCall(c, x)
    BY <1>5, <2>1, <2>2
  <2> QED BY <1>2, <2>6, <2>7, MountCallStep
<1> QED BY <1>1, <1>4, <1>5 DEF OpenMounts

LEMMA MountStep ==
  ASSUME MountInv, [MountNext]_mountVars
  PROVE  MountInv'
<1>1. ASSUME NEW c \in WasiCallers, NEW tool \in WasiTools, BeginWasi(c, tool) PROVE MountInv'
  BY <1>1, BeginStep
<1>2. ASSUME NEW c \in WasiCallers, DeriveCaps(c) PROVE MountInv'
  BY <1>2, DeriveStep
<1>3. ASSUME NEW c \in WasiCallers, AuthorizeWasi(c) PROVE MountInv'
  BY <1>3, AuthorizeStep
<1>4. ASSUME NEW c \in WasiCallers, PrepareMount(c) PROVE MountInv'
  BY <1>4, PrepareStep
<1>5. ASSUME NEW c \in WasiCallers, MountsPrepared(c) PROVE MountInv'
  BY <1>5, LeaveStep DEF MountsPrepared, At
<1>6. ASSUME NEW c \in WasiCallers, InvalidModule(c) PROVE MountInv'
  BY <1>6, LeaveStep DEF InvalidModule, At
<1>7. ASSUME NEW c \in WasiCallers, OpenMounts(c) PROVE MountInv'
  BY <1>7, OpenStep
<1>8. ASSUME OtherCreates PROVE MountInv'
  BY <1>8, CreateStep
<1>9. ASSUME OtherReplaces PROVE MountInv'
  BY <1>9, ReplaceStep
<1>10. ASSUME UNCHANGED mountVars PROVE MountInv'
  <2>1. UNCHANGED <<disk, wasi>>
    BY <1>10 DEF mountVars
  <2>2. Grows(disk, disk')
    BY <2>1 DEF MountInv, Grows
  <2> QED BY <2>1, <2>2, TreeStep
<1> QED BY <1>1, <1>2, <1>3, <1>4, <1>5, <1>6, <1>7, <1>8, <1>9, <1>10, Zenon DEF MountNext

LEMMA MountInvAuthorized == MountInv => UndivertedAuthorized
<1> SUFFICES ASSUME MountInv, NEW c \in WasiCallers, ~At(c, "idle"), ~wasi[c].moved
             PROVE  CallAuthorized(wasi[c])
  BY DEF UndivertedAuthorized
<1>1. StraightOK(wasi[c], disk)
  BY DEF MountInv, MountOK, At
<1> QED BY <1>1 DEF StraightOK, CallAuthorized, May

\* However other processes and other calls change the disk between the moment a
\* call's capabilities are worked out and the moment its directories are created
\* and opened, a call none of whose own mounts was made to lead elsewhere only
\* opens directories its tokens let it read (and write, where the mount is
\* writable), and only creates directories above a path it was authorized for.
THEOREM UndivertedAlwaysAuthorized == MountSpec => []UndivertedAuthorized
<1>1. MountInit => MountInv
  BY MountStarts
<1>2. MountInv /\ [MountNext]_mountVars => MountInv'
  BY MountStep
<1>3. MountInv => UndivertedAuthorized
  BY MountInvAuthorized
<1> QED BY <1>1, <1>2, <1>3, PTL DEF MountSpec
=============================================================================
