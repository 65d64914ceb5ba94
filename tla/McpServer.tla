------------------------------ MODULE McpServer ------------------------------
(***************************************************************************)
(* The tool surface of nexus-mcp: the gates of a call (HTTP read-only      *)
(* list, profile, operator allowlist), the tokens minted for it, the       *)
(* hypervisor's authorization with its bounded denial negotiation, memory  *)
(* recall for nexus_iq_execute, and the memory evidence of the proof       *)
(* capsule.  Calls of several clients interleave; time passes between      *)
(* their steps, so tokens expire while a call awaits.                      *)
(*                                                                         *)
(* A request is one record for every tool; a tool reads the fields it has  *)
(* parameters for.  Capabilities come as specs: the type and the path of   *)
(* the text, a path being split into what the type reads in it.  Other     *)
(* text that does not parse (a UUID, base64, JSON) is a request with       *)
(* parses = FALSE, and a WASM path is the path asked for with the file it  *)
(* resolves to.                                                            *)
(***************************************************************************)
EXTENDS CapabilityTokens

CONSTANTS
  Clients,
  Requests,      \* the requests clients send
  Environments,  \* the environments the server is started in
  Absent,        \* None
  RecallMax,     \* RECALL_RATE_MAX
  RecallWindow,  \* RECALL_RATE_WINDOW
  MaxValidity,   \* MAX_TOKEN_VALIDITY_SECS
  MaxCalls       \* bound: calls in a run, those under way counting twice

ASSUME ServerBounds ==
  /\ RecallMax \in Nat /\ RecallWindow \in Nat \ {0} /\ MaxValidity \in Nat \ {0} /\ MaxCalls \in Nat
  /\ Absent \notin {"Attested", "AttestedNoHit", "AttestedWithRecall", "recall", "hits"}

\* A capability as text: the path of a file type is split into components.
SpecOK(spec) ==
  /\ spec = [json |-> spec.json, type |-> spec.type, path |-> spec.path]
  /\ spec.type \in {"read_file", "write_file", "list_dir", "read", "write", "list"} /\ spec.path # Absent =>
       spec.path \in Seq(STRING)
SpecsOK(specs) == specs \in Seq(ToSet(specs)) /\ \A i \in DOMAIN specs : SpecOK(specs[i])

\* Three tools have parameters for required capabilities, and the tools that
\* give out a token have one for its capability.
ASSUME InputsAssumption ==
  /\ \A r \in Requests :
       /\ SpecsOK(r.specs) /\ (r.caller # Absent => SpecsOK(r.caller))
       /\ r.specs # <<>> => r.tool \in {"execute_wasi", "aeon_execute_timeline", "iq_execute"}
       /\ r.tool \in {"issue_token", "attenuate_token"} => r.caller # Absent /\ Len(r.caller) = 1
  /\ \A env \in Environments :
       /\ env.allow # Absent => SpecsOK(env.allow)
       /\ env.profile # Absent => \A cap \in env.profile.caps : CapabilityOK(cap)

VARIABLES
  cfg,       \* NexusMcpServer and the AEON configuration; never changes
  call,      \* client -> its call
  known,     \* ids of tokens clients were given
  bucket,    \* agent -> RECALL_RATE_LIMITER's instants
  captured,  \* latest_runtime_snapshot is there
  calls      \* calls that arrived so far

serverVars == <<minted, active, revoked, now, cfg, call, known, bucket, captured, calls>>

-----------------------------------------------------------------------------
\* parse_capability and parse_capability_from_str: the one capability a spec
\* stands for, or none when it is refused.
PathTypes == {"read_file", "write_file", "list_dir", "http_get", "http_post", "execute", "mount_tmpfs"}
MemoryTypes == {"read_memory", "write_memory"}
PreviewNames == {"memory_preview", "nexus:memory_preview"}

ParseCapability(spec) ==
  CASE spec.type \in PathTypes /\ spec.path # Absent -> {[kind |-> spec.type, at |-> spec.path]}
    [] spec.type \in MemoryTypes /\ spec.path # Absent ->
         {[kind |-> spec.type, at |-> scope] :
            scope \in ParseScope(spec.path.kind, spec.path.agent, spec.path.session)}
    [] spec.type \in PreviewNames -> {[kind |-> "memory_preview"]}
    [] spec.type = "all" -> {[kind |-> "all"]}
    [] OTHER -> {}

\* parse_iq_capability: a JSON spec, or kind:value with kinds of its own, which
\* cannot name "all" and whose URLs are checked at once.
IqAlias ==
  [read |-> "read_file", write |-> "write_file", list |-> "list_dir", exec |-> "execute",
   tmpfs |-> "mount_tmpfs"]

ParseIq(spec) ==
  IF spec.json THEN ParseCapability(spec)
  ELSE CASE spec.type = "nexus:memory_recall" -> {[kind |-> "memory_recall"]}
         [] spec.type \in PathTypes \cup MemoryTypes \cup PreviewNames ->
              {cap \in ParseCapability(spec) : HttpPattern(cap)}
         [] spec.type \in DOMAIN IqAlias -> ParseCapability([spec EXCEPT !.type = IqAlias[@]])
         [] OTHER -> {}

\* sanitize_token_request rejects All before anything is minted.
Sanitized(cap) == cap.kind # "all"

-----------------------------------------------------------------------------
\* allowed_wasm_module_dirs and canonicalize_module_dirs: a directory is the
\* path it resolves to, Absent when there is none, and one that is missing
\* refuses them all.
DirsAccepted(dirs) == dirs # {} /\ Absent \notin dirs

\* new_with_forced_tool_allowlist: directories a profile declares replace
\* those of the environment, and without either it is the current one.
ModuleDirs(env) ==
  IF env.profile # Absent /\ env.profile.dirs # {} THEN env.profile.dirs
  ELSE IF env.dirs # Absent THEN env.dirs ELSE {env.cwd}

\* profile_manifest_from_env: an invalid profile is an error, not no profile.
ProfileAccepted(profile) == profile # Absent => profile.valid

\* capability_allowlist_from_env: one bad entry refuses the list.
AllowlistAccepted(specs) ==
  specs # Absent => \A i \in DOMAIN specs : \E cap \in ParseCapability(specs[i]) : Sanitized(cap)
AllowlistOf(specs) ==
  IF specs = Absent THEN Absent ELSE UNION {ParseCapability(specs[i]) : i \in DOMAIN specs}

\* nexus_iq_allowlist_from_env: set but blank allows no tool, unset all of them.
IqAccepted(text) == text # Absent => text.valid
IqAllowlistOf(text) == IF text = Absent THEN Absent ELSE text.names \ {""}

\* main: whatever is wrong with the environment ends the program.
Starts(env) ==
  /\ env.numbers /\ env.transport \in {"stdio", "http"}
  /\ ProfileAccepted(env.profile) /\ DirsAccepted(ModuleDirs(env))
  /\ AllowlistAccepted(env.allow) /\ IqAccepted(env.iq)

ServerOf(env) ==
  [http |-> env.transport = "http", profile |-> env.profile, dirs |-> ModuleDirs(env),
   allow |-> AllowlistOf(env.allow), iq |-> IqAllowlistOf(env.iq), aeon |-> env.aeon]

-----------------------------------------------------------------------------
ReadOnlyTools ==
  {"get_history", "get_stats", "instinct_stats", "instinct_query", "instinct_export",
   "aeon_execute_timeline"}

\* The profile flag a handler asks for; execute_retry and instinct_import ask
\* for none.
FlagOf(tool) ==
  CASE tool \in {"execute_proof", "iq_execute", "aeon_execute_timeline"} -> {"proof"}
    [] tool = "execute_wasi" -> {"wasi"}
    [] tool \in {"snapshot_create", "snapshot_rollback"} -> {"snapshot"}
    [] tool = "fork_and_race" -> {"fork"}
    [] tool \in {"instinct_stats", "instinct_query", "instinct_register",
                 "instinct_record_outcome", "instinct_export"} -> {"instinct"}
    [] OTHER -> {}

\* ensure_tool_allowed and the ensure_*_enabled the handler calls.
ToolAllowed(tool) ==
  /\ cfg.http => tool \in ReadOnlyTools
  /\ cfg.profile # Absent =>
       (cfg.profile.tools # Absent => tool \in cfg.profile.tools) /\ FlagOf(tool) \subseteq cfg.profile.flags

\* resolve_wasm_path: inside a module directory as written and as resolved.
PathResolves(file) ==
  /\ \E d \in cfg.dirs : IsPrefix(d, NormalizePath(file.asked))
  /\ file.real # Absent
  /\ \E d \in cfg.dirs : IsPrefix(d, file.real)

\* capability_allowed_by over NEXUS_MCP_CAPABILITY_ALLOWLIST.
OperatorAllows(cap) == cfg.allow # Absent /\ \E a \in cfg.allow : IsSubsetOf(cap, a)

\* check_tokens_against_profile, for one capability.
ProfileAllows(cap) == cfg.profile # Absent => \E a \in cfg.profile.caps : Allows(a, cap)

\* Mutant of TokensPass: the profile is not consulted.
TokensPassLive(ids) == \A id \in ids : id \notin revoked /\ IsValid(Token(id))

\* check_tokens_against_active_profile.
TokensPass(ids) ==
  \A id \in ids : id \notin revoked /\ IsValid(Token(id)) /\ ProfileAllows(Token(id).cap)

Executing == {"execute", "execute_retry", "execute_proof", "fork_and_race", "execute_wasi",
              "aeon_execute_timeline"}
WithTokens == {"execute_wasi", "aeon_execute_timeline", "snapshot_rollback"}

\* The capabilities a call requires of its caller, and those it asks tokens for
\* (caller_capabilities, by default the same).
CallerSpecs(r) == IF r.caller = Absent THEN r.specs ELSE r.caller
RequiredOf(r, i) == IF r.tool = "iq_execute" THEN ParseIq(r.specs[i]) ELSE ParseCapability(r.specs[i])
Required(r) == UNION {RequiredOf(r, i) : i \in DOMAIN r.specs}
CallerCaps(r) == [i \in DOMAIN CallerSpecs(r) |-> CHOOSE cap \in ParseCapability(CallerSpecs(r)[i]) : TRUE]

Parses(r) ==
  /\ r.parses
  /\ \A i \in DOMAIN r.specs : RequiredOf(r, i) # {}
  /\ r.tool # "iq_execute" => \A i \in DOMAIN CallerSpecs(r) : ParseCapability(CallerSpecs(r)[i]) # {}

\* No capsule was signed yet; the mode of a signed one may be Absent.
NoCapsule == [mode |-> "none", evidence |-> Absent]
Idle == [at |-> "idle"]
Started(r, pid, at) ==
  [at |-> at, req |-> r, pid |-> pid, toks |-> <<>>, need |-> Required(r), tried |-> Required(r),
   round |-> 0, rounds |-> 0, recall |-> Absent, ran |-> FALSE, capsule |-> NoCapsule,
   preview |-> FALSE, answer |-> Absent, timeline |-> Absent]
Busy == {c \in Clients : call[c] # Idle}
Held(c) == ToSet(call[c].toks)
Advance(c, at) == call' = [call EXCEPT ![c].at = at]
Answer(c, a) == call' = [call EXCEPT ![c].at = "done", ![c].answer = a]

\* A refusal of the hypervisor is an error, or for nexus_iq_execute a response
\* of its own (nexus_iq_denial_response), which goes to the timeline.
Denied(s) ==
  IF s.req.tool = "iq_execute" THEN [s EXCEPT !.at = "deliver", !.answer = "denied"]
  ELSE [s EXCEPT !.at = "done", !.answer = "error"]
Deny(c) == call' = [call EXCEPT ![c] = Denied(@)]

ServerInit ==
  /\ TokenInit
  /\ cfg \in {ServerOf(env) : env \in {e \in Environments : Starts(e)}}
  /\ call = [c \in Clients |-> Idle]
  /\ known = {}
  /\ bucket = [a \in {r.agent : r \in Requests} |-> <<>>]
  /\ captured = FALSE /\ calls = 0

-----------------------------------------------------------------------------
\* A call arrives: the gates, the iq allowlist, the module path and the
\* parameters, up to the first step that touches shared state.  A rollback may
\* name the digest the snapshot must have.
FirstStep(tool) ==
  CASE tool = "iq_execute" -> "gate"
    [] tool \in WithTokens -> "mint"
    [] tool = "fork_and_race" -> "fork"
    [] tool \in Executing \ (WithTokens \cup {"fork_and_race"}) -> "run"
    [] tool = "snapshot_create" -> "create"
    [] tool = "issue_token" -> "issue"
    [] tool = "attenuate_token" -> "attenuate"
    [] OTHER -> "read"

\* Tokens a call may mint, for the bound.
Mints(r) ==
  CASE r.tool = "iq_execute" -> Len(r.specs) + 1
    [] r.tool \in WithTokens \cup {"issue_token", "attenuate_token"} -> Len(CallerSpecs(r))
    [] OTHER -> 0

\* A call as the checks before its first step leave it.
Opened(r, pid, fits) ==
  LET s == Started(r, pid, FirstStep(r.tool))
      refused(why) == [s EXCEPT !.at = "done", !.answer = why]
  IN IF ~ToolAllowed(r.tool) THEN refused("denied")
     ELSE IF r.tool = "iq_execute" /\ cfg.iq # Absent /\ r.name \notin cfg.iq THEN Denied(s)
     ELSE IF r.tool \in Executing /\ ~PathResolves(r.file) THEN refused("error")
     ELSE IF r.tool # "iq_execute" /\ ~Parses(r) THEN refused("error")
     ELSE IF ~fits THEN refused("error")
     ELSE s

Call(c) ==
  /\ call[c] = Idle
  /\ calls + Cardinality(Busy) < MaxCalls /\ calls' = calls + 1
  /\ \E r \in Requests :
     \E pid \in IF r.parent THEN known ELSE {Absent}, fits \in IF r.digest THEN BOOLEAN ELSE {TRUE} :
       /\ Len(minted) + Mints(r) <= MaxTokens
       /\ call' = [call EXCEPT ![c] = Opened(r, pid, fits)]
  /\ UNCHANGED <<minted, active, revoked, now, cfg, known, bucket, captured>>

\* execute_wasi_tokens, one capability at a time: attenuated from the named
\* parent, or issued when the operator allowlist covers it.  A refusal leaves
\* the tokens already minted behind.
MintOne(c) ==
  LET i == Len(call[c].toks) + 1
      cap == CallerCaps(call[c].req)[i]
      pid == call[c].pid
      token == IF pid # Absent THEN ChildToken(pid, cap, MaxValidity)
               ELSE IssuedToken(cap, MaxValidity)
      granted == IF pid # Absent THEN CanAttenuate(pid, cap) ELSE OperatorAllows(cap)
  IN /\ call[c].at = "mint" /\ i \in DOMAIN CallerSpecs(call[c].req)
     /\ IF \E j \in DOMAIN CallerCaps(call[c].req) : ~Sanitized(CallerCaps(call[c].req)[j])
        THEN Answer(c, "error") /\ UNCHANGED <<minted, active>>
        ELSE IF ~granted THEN Answer(c, "denied") /\ UNCHANGED <<minted, active>>
        ELSE IF ~HttpPattern(cap) THEN Answer(c, "error") /\ UNCHANGED <<minted, active>>
        ELSE /\ Mint(<<token>>)
             /\ call' = [call EXCEPT ![c].toks = Append(@, NextId)]
     /\ UNCHANGED <<revoked, now, cfg, known, bucket, captured, calls>>

\* check_tokens_against_active_profile, then on to the hypervisor.
CheckTokens(c) ==
  /\ call[c].at = "mint" /\ Len(call[c].toks) = Len(CallerSpecs(call[c].req))
  /\ IF ~TokensPass(Held(c)) THEN Answer(c, "error")
     ELSE Advance(c, IF call[c].req.tool = "snapshot_rollback" THEN "rollback" ELSE "authorize")
  /\ UNCHANGED <<minted, active, revoked, now, cfg, known, bucket, captured, calls>>

\* do_issue_token and do_attenuate_token; the id goes back to the client.
GiveToken(c) ==
  LET cap == CallerCaps(call[c].req)[1]
      pid == call[c].pid
  IN /\ call[c].at \in {"issue", "attenuate"}
     /\ IF ~Sanitized(cap) \/ ~HttpPattern(cap)
             \/ (call[c].at = "attenuate" /\ ~CanAttenuate(pid, cap))
        THEN Answer(c, "error") /\ UNCHANGED <<minted, active, known>>
        ELSE IF call[c].at = "issue" /\ ~OperatorAllows(cap)
        THEN Answer(c, "denied") /\ UNCHANGED <<minted, active, known>>
        ELSE /\ Mint(<<IF call[c].at = "issue" THEN IssuedToken(cap, MaxValidity)
                       ELSE ChildToken(pid, cap, MaxValidity)>>)
             /\ known' = known \cup {NextId}
             /\ Answer(c, "ok")
     /\ UNCHANGED <<revoked, now, cfg, bucket, captured, calls>>

\* do_snapshot_rollback after its checks: the preview, when the restored state
\* is asked for, goes to a holder of a valid MemoryPreview token; the rollback
\* itself may fail.
RollbackSnapshot(c) ==
  /\ call[c].at = "rollback"
  /\ \/ Answer(c, "error")
     \/ call' = [call EXCEPT ![c].at = "done", ![c].answer = "ok", ![c].ran = TRUE,
          ![c].preview = call[c].req.restore /\ \E id \in Held(c) :
             IsValid(Token(id)) /\ Allows(Token(id).cap, [kind |-> "memory_preview"])]
  /\ UNCHANGED <<minted, active, revoked, now, cfg, known, bucket, captured, calls>>

\* do_snapshot_create: a handle of what was last captured, or an empty baseline
\* put into the store, which may fail.
CreateSnapshot(c) ==
  LET source == call[c].req.source IN
  /\ call[c].at = "create"
  /\ \/ Answer(c, "error")
     \/ /\ source \in {Absent, "empty_baseline"} \/ (source = "latest_runtime" /\ captured)
        /\ Answer(c, "ok")
  /\ UNCHANGED <<minted, active, revoked, now, cfg, known, bucket, captured, calls>>

\* resolve_fork_base_snapshot: an id or a source, not both, and of the sources
\* only the snapshot captured last; neither is a race from scratch.
ForkBase(c) ==
  LET r == call[c].req IN
  /\ call[c].at = "fork"
  /\ IF r.source = Absent \/ (~r.base /\ r.source = "latest_runtime" /\ captured)
     THEN Advance(c, "run") ELSE Answer(c, "error")
  /\ UNCHANGED <<minted, active, revoked, now, cfg, known, bucket, captured, calls>>

-----------------------------------------------------------------------------
\* do_nexus_iq_execute: the memory gate issues a token for the scope when the
\* operator allows it, and refuses only when that token fails the profile.
MemoryScopeOf(r) ==
  [kind |-> "read_memory",
   at |-> IF r.session = Absent THEN [scope |-> "agent", agent |-> r.agent]
          ELSE [scope |-> "session", agent |-> r.agent, session |-> r.session]]

IqGate(c) ==
  LET cap == MemoryScopeOf(call[c].req) IN
  /\ call[c].at = "gate"
  /\ IF ~call[c].req.query \/ ~OperatorAllows(cap)
     THEN Advance(c, "limit") /\ UNCHANGED <<minted, active>>
     ELSE /\ Mint(<<IssuedToken(cap, MaxValidity)>>)
          /\ IF ProfileAllows(cap) THEN Advance(c, "limit") ELSE Answer(c, "error")
  /\ UNCHANGED <<revoked, now, cfg, known, bucket, captured, calls>>

\* RECALL_RATE_LIMITER: a sliding log per agent, under one lock.
Kept(times) == SelectSeq(times, LAMBDA t : now - t < RecallWindow)

IqLimit(c) ==
  LET agent == call[c].req.agent
      kept == Kept(bucket[agent])
  IN /\ call[c].at = "limit"
     /\ IF ~call[c].req.query
        THEN Advance(c, "recall") /\ UNCHANGED bucket
        ELSE IF Len(kept) >= RecallMax
        THEN Answer(c, "error") /\ bucket' = [bucket EXCEPT ![agent] = kept]
        ELSE /\ Advance(c, "recall")
             /\ bucket' = [bucket EXCEPT ![agent] = Append(kept, now)]
     /\ UNCHANGED <<minted, active, revoked, now, cfg, known, captured, calls>>

\* recall_memory_evidence_v1 and search_with_status: no client is Absent; a
\* failed search, or under a verifying key an unsigned answer, is Degraded.
RecallOutcomes(query) ==
  IF ~query \/ ~cfg.aeon.on \/ ~cfg.aeon.hmac THEN {"Absent"}
  ELSE {"Degraded", "AttestedNoHit", "AttestedWithRecall"}

Attested(mode) == mode \in {"Attested", "AttestedNoHit", "AttestedWithRecall"}

Recall(c) ==
  /\ call[c].at = "recall"
  /\ \E mode \in RecallOutcomes(call[c].req.query) :
       call' = [call EXCEPT ![c].recall = mode,
         ![c].at = IF ~Parses(call[c].req) THEN "done"
                   ELSE IF call[c].need = {} THEN "run" ELSE "tokens",
         ![c].answer = IF Parses(call[c].req) THEN Absent ELSE "error"]
  /\ UNCHANGED <<minted, active, revoked, now, cfg, known, bucket, captured, calls>>

\* Those of a list that the operator allows, in its order.
Granted(caps) ==
  LET upto[i \in 0 .. Len(caps)] ==
        IF i = 0 THEN <<>>
        ELSE IF OperatorAllows(caps[i]) THEN Append(upto[i - 1], caps[i]) ELSE upto[i - 1]
  IN  upto[Len(caps)]

\* iq_caller_tokens_for_required, capability by capability: what the operator
\* does not allow is skipped, and the hypervisor will deny it.  The first one
\* that cannot be issued, or a failed check, is a denial.
IqTokens(c) ==
  LET r == call[c].req
      required == IF cfg.allow = Absent THEN <<>>
                  ELSE [i \in DOMAIN r.specs |-> CHOOSE cap \in RequiredOf(r, i) : TRUE]
      bad == {i \in DOMAIN required : ~Sanitized(required[i])
                \/ (OperatorAllows(required[i]) /\ ~HttpPattern(required[i]))}
      tried == {i \in DOMAIN required : \A b \in bad : i < b}
      granted == Granted(SubSeq(required, 1, Cardinality(tried)))
      fine == bad = {} /\ \A i \in DOMAIN granted : ProfileAllows(granted[i])
      s == [call[c] EXCEPT !.toks = [i \in DOMAIN granted |-> Len(minted) + i]]
  IN /\ call[c].at = "tokens"
     /\ Mint([i \in DOMAIN granted |-> IssuedToken(granted[i], MaxValidity)])
     /\ call' = [call EXCEPT ![c] = IF fine THEN [s EXCEPT !.at = "authorize"] ELSE Denied(s)]
     /\ UNCHANGED <<revoked, now, cfg, known, bucket, captured, calls>>

-----------------------------------------------------------------------------
\* execute_tool_wasi, and the first check of execute_tool_proof_with_tokens: a
\* denied proof call with a complete AEON context is negotiated.
Proving(c) == call[c].req.tool \in {"aeon_execute_timeline", "iq_execute"}

HypervisorAuthorize(c) ==
  /\ call[c].at = "authorize"
  /\ IF call[c].need = {} \/ Authorize(Held(c), call[c].need)
     THEN Advance(c, IF Proving(c) THEN "inner" ELSE "run")
     ELSE IF Proving(c) /\ cfg.aeon.on /\ call[c].req.session # Absent
     THEN call' = [call EXCEPT ![c].at = "negotiate", ![c].round = 1]
     ELSE Deny(c)
  /\ UNCHANGED <<minted, active, revoked, now, cfg, known, bucket, captured, calls>>

\* negotiate_capability_denial_with_authorizer: a round's search suggests some
\* of the required capabilities; a strict, new subset is tried.
MaxRounds == 2
StrictIntersection(required, candidates) ==
  IF required \subseteq candidates THEN {} ELSE required \cap candidates

\* Mutant of NextRound: one round too many.
NextRoundLate(c) ==
  IF call[c].round <= MaxRounds THEN [call[c] EXCEPT !.round = @ + 1]
  ELSE Denied(call[c])

NextRound(c) ==
  IF call[c].round < MaxRounds THEN [call[c] EXCEPT !.round = @ + 1]
  ELSE Denied(call[c])

Negotiate(c) ==
  /\ call[c].at = "negotiate"
  /\ \E candidates \in SUBSET call[c].need :
       LET narrowed == StrictIntersection(call[c].need, candidates)
           skip == narrowed = {} \/ narrowed = call[c].tried
       IN call' = [call EXCEPT ![c] =
            IF skip THEN NextRound(c)
            ELSE IF Authorize(Held(c), narrowed)
            THEN [call[c] EXCEPT !.at = "inner", !.need = narrowed, !.tried = narrowed,
                                 !.rounds = call[c].round]
            ELSE [NextRound(c) EXCEPT !.tried = narrowed]]
  /\ UNCHANGED <<minted, active, revoked, now, cfg, known, bucket, captured, calls>>

\* execute_tool_inner authorizes again what is left of the requirements.
InnerAuthorize(c) ==
  /\ call[c].at = "inner"
  /\ IF call[c].need = {} \/ Authorize(Held(c), call[c].need) THEN Advance(c, "run")
     ELSE Deny(c)
  /\ UNCHANGED <<minted, active, revoked, now, cfg, known, bucket, captured, calls>>

\* The sandbox runs the tool.  An error is returned when it could not run (no
\* worker, bad state), and also after it ran: when its snapshot could not be
\* stored, when the last retry fails so, or when every branch of a race failed.
\* A module with a memory leaves its snapshot behind, also an attempt or a branch
\* of a call that fails; WASI executions leave none, and whatever becomes of one
\* that ran is an output.
Run(c) ==
  LET tool == call[c].req.tool
      proof == Proving(c) \/ tool = "execute_proof"
  IN /\ call[c].at = "run"
     /\ \/ /\ \/ Answer(c, "error")
              \/ /\ tool # "execute_wasi"
                 /\ call' = [call EXCEPT ![c].ran = TRUE, ![c].at = "done", ![c].answer = "error"]
           /\ captured' \in IF tool \in {"execute_retry", "fork_and_race"} THEN {captured, TRUE}
                            ELSE {captured}
        \/ /\ call' = [call EXCEPT ![c].ran = TRUE, ![c].at = IF proof THEN "capsule" ELSE "done",
                                   ![c].answer = IF proof THEN Absent ELSE "ok"]
           /\ captured' \in IF tool = "execute_wasi" THEN {captured} ELSE {captured, TRUE}
     /\ UNCHANGED <<minted, active, revoked, now, cfg, known, bucket, calls>>

-----------------------------------------------------------------------------
\* MemoryEvidenceV1 of the call's own recall has a digest to compare with.
HasDigest(c) == Attested(call[c].recall)

\* Mutant of ReceiptCapsule: without a verifying key the evidence is dropped.
ReceiptCapsuleDrops(c) ==
  IF ~HasDigest(c)
  THEN [mode |-> IF call[c].req.session # Absent THEN "Advisory" ELSE Absent, evidence |-> Absent]
  ELSE IF ~cfg.aeon.hmac THEN [mode |-> "Degraded", evidence |-> Absent]
  ELSE IF cfg.aeon.vkey THEN [mode |-> "Attested", evidence |-> "recall"]
  ELSE [mode |-> "Advisory", evidence |-> Absent]

\* attach_memory_evidence_from_receipt, over the mode of the unsigned capsule.
ReceiptCapsule(c) ==
  IF ~HasDigest(c)
  THEN [mode |-> IF call[c].req.session # Absent THEN "Advisory" ELSE Absent, evidence |-> Absent]
  ELSE IF ~cfg.aeon.hmac THEN [mode |-> "Degraded", evidence |-> Absent]
  ELSE [mode |-> IF cfg.aeon.vkey THEN "Attested" ELSE "Advisory", evidence |-> "recall"]

\* memory_evidence_from_hits: evidence over the hits of the negotiation.
NegotiatedEvidence ==
  IF ~cfg.aeon.hmac THEN {[mode |-> "Absent", evidence |-> Absent]}
  ELSE {[mode |-> "Degraded", evidence |-> Absent],
        [mode |-> "AttestedWithRecall", evidence |-> "hits"]}

\* Mutant of CapUnverified: nothing is capped.
CapUnverifiedOff(mode) == mode

\* cap_unverified_memory_mode.
CapUnverified(mode) == IF cfg.aeon.vkey /\ Attested(mode) THEN "Advisory" ELSE mode

\* capsule_from_receipt_with_memory: negotiated evidence replaces the
\* receipt's, its mode capped.
NegotiatedCapsule(c, m) ==
  IF m.evidence # Absent THEN [m EXCEPT !.mode = CapUnverified(m.mode)]
  ELSE IF HasDigest(c) THEN ReceiptCapsule(c)
  ELSE [ReceiptCapsule(c) EXCEPT !.mode = CapUnverified(m.mode)]

EmitCapsule(c) ==
  /\ call[c].at = "capsule"
  /\ \E m \in IF call[c].rounds > 0 THEN NegotiatedEvidence ELSE {NoCapsule} :
       call' = [call EXCEPT ![c].at = "answer",
         ![c].capsule = IF call[c].rounds > 0 THEN NegotiatedCapsule(c, m) ELSE ReceiptCapsule(c)]
  /\ UNCHANGED <<minted, active, revoked, now, cfg, known, bucket, captured, calls>>

\* nexus_iq_execute compares the capsule's evidence with the digest of its own
\* recall (verify_proof_capsule_memory_digest) before it answers.
Respond(c) ==
  /\ call[c].at = "answer"
  /\ IF call[c].req.tool = "iq_execute" /\ HasDigest(c) /\ call[c].capsule.evidence # "recall"
     THEN Answer(c, "error")
     ELSE call' = [call EXCEPT ![c].answer = "ok",
            ![c].at = IF call[c].req.tool = "execute_proof" THEN "done" ELSE "deliver"]
  /\ UNCHANGED <<minted, active, revoked, now, cfg, known, bucket, captured, calls>>

\* TimelineDeliveryMode::parse, and deliver_nexus_iq_timeline: an attested call
\* waits for the timeline, the others (and nexus_aeon_execute_timeline) do not.
ParseMode(text) ==
  CASE text \in {"attested", "required"} -> "attested"
    [] text \in {"offline", "spool"} -> "offline"
    [] OTHER -> "advisory"

Delivery(r) ==
  LET waits == r.tool = "iq_execute" /\ ParseMode(r.mode) = "attested"
  IN IF ~cfg.aeon.on THEN {IF waits THEN "RequiredButFailed" ELSE "FailedOpen"}
     ELSE IF waits THEN {"Delivered", "RequiredButFailed"} ELSE {"FireAndForget"}

Deliver(c) ==
  /\ call[c].at = "deliver"
  /\ \E status \in Delivery(call[c].req) :
       call' = [call EXCEPT ![c].at = "done", ![c].timeline = status]
  /\ UNCHANGED <<minted, active, revoked, now, cfg, known, bucket, captured, calls>>

\* The tools that only read; the instinct tools answer here too, what they do
\* to the store is in RetryLearning.
Read(c) ==
  /\ call[c].at = "read" /\ Answer(c, "ok")
  /\ UNCHANGED <<minted, active, revoked, now, cfg, known, bucket, captured, calls>>

Return(c) ==
  /\ call[c].at = "done"
  /\ call' = [call EXCEPT ![c] = Idle]
  /\ UNCHANGED <<minted, active, revoked, now, cfg, known, bucket, captured, calls>>

Pass == TokenTick /\ UNCHANGED <<cfg, call, known, bucket, captured, calls>>

ServerNext ==
  \/ \E c \in Clients :
       \/ Call(c) \/ MintOne(c) \/ CheckTokens(c) \/ GiveToken(c) \/ RollbackSnapshot(c)
       \/ CreateSnapshot(c) \/ ForkBase(c) \/ Read(c)
       \/ IqGate(c) \/ IqLimit(c) \/ Recall(c) \/ IqTokens(c)
       \/ HypervisorAuthorize(c) \/ Negotiate(c) \/ InnerAuthorize(c) \/ Run(c)
       \/ EmitCapsule(c) \/ Respond(c) \/ Deliver(c) \/ Return(c)
  \/ Pass

ServerSpec == ServerInit /\ [][ServerNext]_serverVars

-----------------------------------------------------------------------------
\* Whatever chain of issued and attenuated tokens a call goes through, what it
\* runs with, and the memory it previews, is inside both the operator's
\* allowlist and the active profile; only memory that some token for a whole
\* namespace grants is left out.
WithinOperatorPolicy ==
  \A c \in Busy : call[c].ran =>
    /\ \A cap \in call[c].need :
         \/ OperatorAllows(cap) /\ ProfileAllows(cap)
         \/ \E id \in TokenIds : Namespaced(Token(id).cap) /\ Allows(Token(id).cap, cap)
    /\ call[c].preview => /\ OperatorAllows([kind |-> "memory_preview"])
                          /\ ProfileAllows([kind |-> "memory_preview"])

\* A call that was denied runs at most with a strict part of what it asked for,
\* found within the two rounds; an undisputed one runs with all of it.
NegotiationNarrows ==
  \A c \in Busy : call[c].ran =>
    IF call[c].rounds = 0 THEN call[c].need = Required(call[c].req)
    ELSE /\ call[c].rounds <= MaxRounds /\ Proving(c)
         /\ call[c].need # {} /\ call[c].need \subseteq Required(call[c].req)
         /\ call[c].need # Required(call[c].req)

\* With a verifying key configured, a capsule claims an attested memory only
\* for the recall of its own call, whose signature was verified; never for what
\* a negotiation turned up.
AttestedOnlyVerified ==
  \A c \in Busy : cfg.aeon.vkey /\ Attested(call[c].capsule.mode) =>
    /\ Attested(call[c].recall) /\ call[c].capsule.evidence = "recall"
    /\ call[c].req.query

\* Once a capsule of a run is signed its caller gets the output: whatever was
\* recalled, negotiated and attested on the way, no later check loses it.  The one
\* exception: an iq call whose negotiation replaced the evidence of its recall
\* ends in an error.  (Run shows the errors that lose an output before that.)
CapsuleReachesCaller ==
  \A c \in Busy : call[c].capsule # NoCapsule /\ call[c].at = "done" /\ call[c].answer # "ok" =>
    /\ call[c].req.tool = "iq_execute" /\ call[c].rounds > 0
    /\ HasDigest(c) /\ call[c].capsule.evidence = "hits"

=============================================================================
