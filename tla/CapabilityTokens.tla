-------------------------- MODULE CapabilityTokens --------------------------
(***************************************************************************)
(* Capabilities, their containment, and the CapabilityManager: tokens are  *)
(* issued, attenuated into children, revoked, and validated along their    *)
(* attenuation chain.  A token never changes after it was signed, so the   *)
(* manager's map active_tokens is the set of the ids it still holds.       *)
(* Signatures are abstract: a token verifies exactly when it was minted.   *)
(*                                                                         *)
(* A path is the sequence of its components after the root; ".." is one of *)
(* them.  A capability is a record of its kind and what it is about.       *)
(***************************************************************************)
EXTENDS Integers, FiniteSets, Sequences, SequencesExt

CONSTANTS
  Caps,            \* the capabilities tokens are asked for
  MaxChainDepth,   \* DEFAULT_MAX_CHAIN_DEPTH
  MaxTokens,       \* bound: tokens minted in a run
  MaxTime          \* bound: the clock

ASSUME TokenBounds == MaxChainDepth \in Nat /\ MaxTokens \in Nat /\ MaxTime \in Nat

\* The path of a file capability is a sequence of components, and the scope of
\* a memory capability is one of MemoryScope.
CapabilityOK(c) ==
  /\ c.kind \in {"read_file", "write_file", "list_dir"} => c.at \in Seq(STRING)
  /\ c.kind \in {"read_memory", "write_memory"} => c.at.scope \in {"agent", "session", "namespace"}

ASSUME CapsAssumption == \A c \in Caps : CapabilityOK(c)

VARIABLES
  minted,   \* every token signed, in order; its index is its id
  active,   \* ids in active_tokens
  revoked,  \* ids in revoked_tokens
  now       \* Utc::now()

tokenVars == <<minted, active, revoked, now>>

-----------------------------------------------------------------------------
\* normalize_lexical_path for a rooted path: ".." drops a component, and is
\* ignored at the root.
NormalizePath(path) ==
  LET upto[i \in 0 .. Len(path)] ==
        IF i = 0 THEN <<>>
        ELSE IF path[i] # ".." THEN Append(upto[i - 1], path[i])
        ELSE IF upto[i - 1] = <<>> THEN <<>> ELSE Front(upto[i - 1])
  IN  upto[Len(path)]

PathContains(parent, requested) == IsPrefix(NormalizePath(parent), NormalizePath(requested))
PathEq(left, right) == NormalizePath(left) = NormalizePath(right)

\* MemoryScope::is_subset_of.
ScopeSubset(s, p) ==
  CASE s.scope = "session" /\ p.scope = "session" -> s = p
    [] s.scope = "agent" /\ p.scope = "session" -> FALSE
    [] OTHER -> s.agent = p.agent

\* MemoryScope::matches.
ScopeMatches(s, agent, session) ==
  s.agent = agent /\ (s.scope = "session" => session = s.session)

\* Capability::allows: what a holder of p may do.
Allows(p, r) ==
  \/ p.kind = "all"
  \/ p.kind \in {"read_file", "write_file"} /\ r.kind = "read_file" /\ PathContains(p.at, r.at)
  \/ p.kind = "write_file" /\ r.kind = "write_file" /\ PathEq(p.at, r.at)
  \/ p.kind = "list_dir" /\ r.kind = "list_dir" /\ PathContains(p.at, r.at)
  \/ p.kind \in {"read_memory", "write_memory"} /\ r.kind = "read_memory" /\ ScopeSubset(r.at, p.at)
  \/ p.kind = "write_memory" /\ r.kind = "write_memory" /\ ScopeSubset(r.at, p.at)
  \/ p.kind \in {"http_get", "http_post", "execute", "mount_tmpfs", "memory_preview", "memory_recall"}
     /\ p = r

\* Capability::is_subset_of: what a child of p may be given.
IsSubsetOf(c, p) ==
  \/ c.kind = "none" \/ p.kind = "all"
  \/ c.kind # "all" /\ Allows(p, c)

\* url_guard: HTTP patterns must name a public host over http or https.
HttpPattern(c) == c.kind \in {"http_get", "http_post"} => c.at.scheme \in {"http", "https"} /\ c.at.public

\* MemoryScope::parse and the text form it reads back: a session scope needs
\* both of its names, the others one.
ParseScope(kind, agent, session) ==
  CASE kind = "agent" -> {[scope |-> "agent", agent |-> agent]}
    [] kind = "session" /\ agent # "" /\ session # "" ->
         {[scope |-> "session", agent |-> agent, session |-> session]}
    [] kind = "namespace" /\ agent # "" -> {[scope |-> "namespace", agent |-> agent]}
    [] OTHER -> {}

-----------------------------------------------------------------------------
Root == 0
IsValid(t) == now < t.exp
Token(id) == minted[id]
TokenIds == DOMAIN minted

TokenInit == minted = <<>> /\ active = {} /\ revoked = {} /\ now = 0

\* CapabilityManager::issue, returning the id the next token gets.
NextId == Len(minted) + 1

Mint(tokens) ==
  /\ Len(minted) + Len(tokens) <= MaxTokens
  /\ minted' = minted \o tokens
  /\ active' = active \cup (NextId .. Len(minted) + Len(tokens))

IssuedToken(cap, validity) == [cap |-> cap, exp |-> now + validity, parent |-> Root, depth |-> 0]

\* CapabilityToken::attenuate: a subset, not too deep, never outliving its
\* parent.  The parent's own expiry and ancestors are left to validate.
CanAttenuate(pid, cap) ==
  /\ pid \in active
  /\ IsSubsetOf(cap, Token(pid).cap)
  /\ Token(pid).depth + 1 <= MaxChainDepth
  /\ HttpPattern(cap)

ChildToken(pid, cap, validity) ==
  [cap |-> cap,
   exp |-> IF now + validity < Token(pid).exp THEN now + validity ELSE Token(pid).exp,
   parent |-> pid, depth |-> Token(pid).depth + 1]

\* CapabilityManager::revoke; any id may be named.
RevokeToken(id) ==
  /\ revoked' = revoked \cup {id} /\ active' = active \ {id}
  /\ UNCHANGED <<minted, now>>

TokenTick ==
  /\ now < MaxTime /\ now' = now + 1
  /\ UNCHANGED <<minted, active, revoked>>

\* verify_signature, for a token as it is presented.
VerifySignature(id, t) == id \in TokenIds /\ t = minted[id]

\* The ancestors validate_chain walks: at most MaxChainDepth links.
Ancestors(id) ==
  LET up[n \in 0..MaxChainDepth] ==
        IF n = 0 THEN {id}
        ELSE LET below == up[n - 1]
             IN below \cup {minted[i].parent : i \in below \cap TokenIds}
  IN up[MaxChainDepth] \ {id, Root}

\* Mutant of ValidChain: only the parent is looked at, not what is above it.
ValidChainParent(id) ==
  /\ Token(id).depth <= MaxChainDepth
  /\ LET p == Token(id).parent
     IN /\ p \in active \ revoked /\ IsValid(Token(p))
        /\ Token(id).depth = Token(p).depth + 1 /\ IsSubsetOf(Token(id).cap, Token(p).cap)

\* validate_chain: every link is unrevoked, held, unexpired, one deeper than
\* its parent and a subset of it.
ValidChain(id) ==
  /\ Token(id).depth <= MaxChainDepth
  /\ \A a \in Ancestors(id) :
       /\ a \notin revoked /\ a \in active /\ IsValid(Token(a))
  /\ \A c \in {id} \cup Ancestors(id) : Token(c).parent # Root =>
       LET p == Token(c).parent
       IN p \in TokenIds /\ Token(c).depth = Token(p).depth + 1 /\ IsSubsetOf(Token(c).cap, Token(p).cap)

\* CapabilityManager::validate.
Validate(id, requested) ==
  /\ id \notin revoked
  /\ IsValid(Token(id))
  /\ VerifySignature(id, Token(id))
  /\ Token(id).parent # Root => ValidChain(id)
  /\ Allows(Token(id).cap, requested)

\* CapabilityManager::authorize.
Authorize(ids, required) == \A c \in required : \E id \in ids : Validate(id, c)

-----------------------------------------------------------------------------
\* The manager on its own, as a library: any caller issues, attenuates and
\* revokes, in any order, while time passes.
Issue ==
  /\ \E cap \in Caps, validity \in 1..MaxTime + 1 :
       HttpPattern(cap) /\ Mint(<<IssuedToken(cap, validity)>>)
  /\ UNCHANGED <<revoked, now>>

Attenuate ==
  /\ \E pid \in active, cap \in Caps, validity \in 1..MaxTime + 1 :
       CanAttenuate(pid, cap) /\ Mint(<<ChildToken(pid, cap, validity)>>)
  /\ UNCHANGED <<revoked, now>>

Revoke == \E id \in TokenIds \ revoked : RevokeToken(id)

TokenNext == Issue \/ Attenuate \/ Revoke \/ TokenTick

TokenSpec == TokenInit /\ [][TokenNext]_tokenVars

-----------------------------------------------------------------------------
\* The token every link of id's chain goes back to.
RootOf(id) == CHOOSE r \in {id} \cup Ancestors(id) : Token(r).parent = Root

\* MemoryScope::is_subset_of puts a namespace inside each session of its agent
\* and every such session inside the namespace, so through a namespace a chain
\* leads from one session to another.
Namespaced(cap) == cap.kind \in {"read_memory", "write_memory"} /\ cap.at.scope = "namespace"

\* What a token is accepted for, the root of its chain grants (unless the chain
\* goes through a namespace), and every token in between is unrevoked and
\* unexpired: authority never outlives or exceeds what was first issued,
\* however tokens were attenuated and revoked since.
AuthorityFromLiveRoot ==
  \A id \in TokenIds, c \in Caps : Validate(id, c) =>
    LET chain == {id} \cup Ancestors(id)
    IN /\ (\A a \in chain : ~Namespaced(Token(a).cap)) => Allows(Token(RootOf(id)).cap, c)
       /\ \A a \in chain : a \notin revoked /\ now < Token(a).exp
=============================================================================
