--------------------------- MODULE TenantRegistry ---------------------------
(***************************************************************************)
(* Authentication and rate limiting of the HTTP transport of nexus-mcp:    *)
(* the tenant snapshot a request is looked up in, the background task that *)
(* refreshes it from PostgreSQL, its eviction when it grows too old, and   *)
(* the per-tenant request windows.                                         *)
(*                                                                         *)
(* Time is discrete and relative: a variable holds how long ago something  *)
(* happened, saturated where no comparison can tell more.  Tick is         *)
(* disabled while the ticker or the timeout of the refresh task is due, so *)
(* the bounds below are exact up to scheduling latency.                    *)
(***************************************************************************)
EXTENDS Integers, FiniteSets, Sequences, FiniteSetsExt

CONSTANTS
  Keys,             \* API keys (their hashes)
  TenantOf,         \* the workspace a key belongs to
  Limits,           \* the values rate_limit_rpm takes; 0 is an invalid row
  RefreshInterval,  \* NEXUS_MCP_TENANT_REFRESH_SECS
  MaxStale,         \* NEXUS_MCP_TENANT_MAX_STALE_SECS
  RefreshTimeout,   \* NEXUS_MCP_TENANT_DB_TIMEOUT_SECS
  RateWindow,       \* the 60 seconds of a rate window
  DefaultLimit,     \* NEXUS_MCP_HTTP_DEFAULT_TENANT_RATE_LIMIT_RPM
  MaxBacklog,       \* how far the ticker may fall behind
  NoKey             \* a request without a usable Authorization header

\* The numbers build_postgres_tenant_registry accepts.
PeriodsAccepted ==
  /\ RefreshInterval > 0 /\ RefreshTimeout > 0
  /\ MaxStale > 0 /\ MaxStale >= RefreshInterval

\* The server has started.  A timeout longer than the interval is accepted:
\* refreshes then fall behind the ticker, which makes up for missed ticks.
ASSUME RegistryConfig ==
  /\ {RefreshInterval, RefreshTimeout, MaxStale, DefaultLimit} \subseteq Nat
  /\ PeriodsAccepted /\ DefaultLimit > 0
  /\ RateWindow \in Nat \ {0} /\ Limits \subseteq Nat
  /\ MaxBacklog \in Nat

\* A rate limit is a u64: some limit is the greatest.
ASSUME LimitsAreBounded ==
  \E top \in Limits \cup {DefaultLimit} : \A l \in Limits \cup {DefaultLimit} : top >= l

VARIABLES
  source,    \* where tenants come from: "postgres", "file", "token" or "open"
  db,        \* the rows of the relation: key -> rate limit
  dbUp,      \* whether queries are answered
  snap,      \* TenantSnapshotState.snapshot: key -> rate limit
  snapAge,   \* age of refreshed_at, Never when it is None
  ticker,    \* time until the next tick of the interval, negative when late;
             \* NotStarted before there is a loop
  load,      \* the refresh in progress
  window,    \* tenant -> TenantRateWindow
  req,       \* the request between its lookup and its rate check
  lastTrue,  \* history: how long ago the database last listed each key
  recent     \* history: ages of each tenant's admissions, newest first

tenantVars == <<source, db, dbUp, snap, snapAge, ticker, load, window, req, lastTrue, recent>>

Tenants == {TenantOf[k] : k \in Keys}
Never == -1
Forever == MaxStale + RefreshInterval + RefreshTimeout + 1
Rows == UNION {[S -> Limits] : S \in SUBSET Keys}
NotStarted == RefreshInterval + 1
NoLoad == [at |-> "idle"]
NoRequest == [at |-> "none"]
Empty == [k \in {} |-> 0]

\* load_postgres_tenant_snapshot: one row it cannot accept fails the load.
Loadable(rows) == \A k \in DOMAIN rows : rows[k] > 0

\* clear_if_stale with the age of the snapshot.
Stale == snapAge # Never /\ snapAge >= MaxStale

\* refresh_timeout_budget, evaluated after clear_if_stale.
Budget(content, age) ==
  IF content = Empty \/ age = Never \/ age >= MaxStale THEN RefreshTimeout
  ELSE IF MaxStale - age < RefreshTimeout THEN MaxStale - age ELSE RefreshTimeout

\* parse_tenant_config_file: the same checks over the whole file, which may
\* also not give one tenant two keys.
FileAccepted(rows) ==
  /\ rows # Empty /\ Loadable(rows)
  /\ \A j, k \in DOMAIN rows : TenantOf[j] = TenantOf[k] => j = k

\* The environment of the HTTP server: NEXUS_MCP_TENANT_SOURCE ("file" when
\* unset), and whether a tenants file, a token, a usable database URL and
\* relation name are given; text of blanks is not given.
HttpEnvironments ==
  [source : {"file", "postgres", "other"}, tenants : BOOLEAN, token : BOOLEAN, url : BOOLEAN,
   relation : BOOLEAN, loopback : BOOLEAN]

\* parse_tenant_source, load_tenant_auth_state and run_mcp_http_server: where
\* tenants come from, or nothing when the server refuses to start.  It serves
\* without authentication on a loopback address only.
SourceOf(env) ==
  CASE env.source = "postgres" /\ env.url /\ env.relation /\ PeriodsAccepted -> {"postgres"}
    [] env.source = "file" /\ env.tenants -> {"file"}
    [] env.source = "file" /\ ~env.tenants /\ env.token -> {"token"}
    [] env.source = "file" /\ ~env.tenants /\ ~env.token /\ env.loopback -> {"open"}
    [] OTHER -> {}

\* parse_tenant_auth_state_from_file reads the file once, or makes one tenant
\* of the token; build_postgres_tenant_registry starts empty, awaits one refresh
\* and spawns the loop, whatever came of it, before the server accepts requests.
TenantInit ==
  /\ source \in UNION {SourceOf(env) : env \in HttpEnvironments}
  /\ db \in Rows /\ dbUp \in BOOLEAN
  /\ \/ /\ source = "postgres" /\ snap = Empty
        /\ load = [at |-> "query", left |-> RefreshTimeout]
     \/ /\ source = "file" /\ FileAccepted(db) /\ snap = db /\ dbUp
        /\ load = NoLoad
     \/ /\ source = "token" /\ db = Empty /\ dbUp /\ load = NoLoad
        /\ \E k \in Keys : snap = [j \in {k} |-> DefaultLimit]
     \/ /\ source = "open" /\ db = Empty /\ dbUp /\ load = NoLoad /\ snap = Empty
  /\ snapAge = Never
  /\ ticker = IF source = "postgres" THEN NotStarted ELSE RefreshInterval
  /\ window = [t \in Tenants |-> [age |-> RateWindow, count |-> 0]]
  /\ req = NoRequest
  /\ lastTrue = [k \in Keys |-> IF k \in DOMAIN db THEN 0 ELSE Forever]
  /\ recent = [t \in Tenants |-> <<>>]

-----------------------------------------------------------------------------
\* The operators of the database: keys are added, changed and revoked, and
\* the server becomes unreachable and reachable again.
DbChange ==
  source = "postgres" /\ \E rows \in Rows \ {db} :
    /\ db' = rows
    /\ lastTrue' = [k \in Keys |-> IF k \in DOMAIN rows THEN 0 ELSE lastTrue[k]]
    /\ UNCHANGED <<source, dbUp, snap, snapAge, ticker, load, window, req, recent>>

DbUpDown ==
  /\ source = "postgres" /\ dbUp' = ~dbUp
  /\ UNCHANGED <<source, db, snap, snapAge, ticker, load, window, req, lastTrue, recent>>

\* Mutant of ClearIfStale: the timestamp goes, the tenants stay.
ClearIfStaleStamp ==
  IF Stale THEN UNCHANGED snap /\ snapAge' = Never ELSE UNCHANGED <<snap, snapAge>>

\* clear_if_stale: evict, and forget the timestamp even if already empty.
ClearIfStale ==
  IF Stale THEN snap' = Empty /\ snapAge' = Never ELSE UNCHANGED <<snap, snapAge>>

\* A tick of refresh_postgres_tenants_loop starts a refresh: a stale snapshot
\* is evicted first and the timeout is capped by what is left of its life.
StartRefresh ==
  /\ source = "postgres" /\ load.at = "idle" /\ ticker <= 0
  /\ ticker' = ticker + RefreshInterval
  /\ ClearIfStale
  /\ load' = [at |-> "query", left |-> Budget(snap', snapAge')]
  /\ UNCHANGED <<source, db, dbUp, window, req, lastTrue, recent>>

\* The query reads the relation; its answer is still on its way.
QueryRows ==
  /\ load.at = "query" /\ dbUp
  /\ load' = [at |-> "answer", left |-> load.left, rows |-> db]
  /\ UNCHANGED <<source, db, dbUp, snap, snapAge, ticker, window, req, lastTrue, recent>>

Serving == ticker # NotStarted
LoopRuns == ticker' = IF Serving THEN ticker ELSE RefreshInterval

\* refresh_from_snapshot: the answer replaces the snapshot and restamps it.
RefreshFromSnapshot ==
  /\ load.at = "answer" /\ Loadable(load.rows)
  /\ snap' = load.rows /\ snapAge' = 0
  /\ load' = NoLoad /\ LoopRuns
  /\ UNCHANGED <<source, db, dbUp, window, req, lastTrue, recent>>

\* Mutant of RefreshFails: the loop ends with the first error.
RefreshFailsEnds ==
  /\ \/ load.at = "query" /\ ~dbUp
     \/ load.at = "answer" /\ ~Loadable(load.rows)
     \/ load.at \in {"query", "answer"} /\ load.left = 0
  /\ ClearIfStale
  /\ load' = [at |-> "ended", left |-> Forever] /\ LoopRuns
  /\ UNCHANGED <<source, db, dbUp, window, req, lastTrue, recent>>

\* A query error, an unacceptable row, a panic or the timeout: the snapshot is
\* kept until it is stale.
RefreshFails ==
  /\ \/ load.at = "query" /\ ~dbUp
     \/ load.at = "answer" /\ ~Loadable(load.rows)
     \/ load.at \in {"query", "answer"} /\ load.left = 0
  /\ ClearIfStale
  /\ load' = NoLoad /\ LoopRuns
  /\ UNCHANGED <<source, db, dbUp, window, req, lastTrue, recent>>

-----------------------------------------------------------------------------
\* parse_bearer_token: the key of an Authorization header of that scheme.
Headers == [scheme : {"bearer", "other"}, key : Keys \cup {NoKey}]
Presented(header) == IF header.scheme = "bearer" THEN header.key ELSE NoKey

\* require_bearer_token: without a registry every request passes.
PassOpen ==
  /\ source = "open" /\ req = NoRequest
  /\ req' = [at |-> "admitted", key |-> NoKey]
  /\ UNCHANGED <<source, db, dbUp, snap, snapAge, ticker, load, window, lastTrue, recent>>

\* No usable key, or no tenant for it, is a 401.
Reject ==
  /\ source # "open" /\ Serving /\ req = NoRequest
  /\ \E h \in Headers : Presented(h) \notin DOMAIN snap /\ req' = [at |-> "denied", key |-> Presented(h)]
  /\ UNCHANGED <<source, db, dbUp, snap, snapAge, ticker, load, window, lastTrue, recent>>

\* The snapshot is loaded once; the tenant found is used after it was swapped.
Lookup ==
  /\ Serving /\ req = NoRequest
  /\ \E h \in Headers :
       LET k == Presented(h) IN k \in DOMAIN snap /\ req' = [at |-> "found", key |-> k, limit |-> snap[k]]
  /\ UNCHANGED <<source, db, dbUp, snap, snapAge, ticker, load, window, lastTrue, recent>>

\* rate_limit_blocked: open a new window when the old one is over, then count.
RateWindowNow(t) ==
  IF window[t].age >= RateWindow THEN [age |-> 0, count |-> 0] ELSE window[t]

\* Mutant of RateLimit: one request too many is let through.
RateLimitLate ==
  /\ req.at = "found"
  /\ LET t == TenantOf[req.key]
         w == RateWindowNow(t)
     IN IF w.count > req.limit
        THEN /\ window' = [window EXCEPT ![t] = w]
             /\ req' = [at |-> "limited", key |-> req.key]
             /\ UNCHANGED recent
        ELSE /\ window' = [window EXCEPT ![t] = [w EXCEPT !.count = @ + 1]]
             /\ req' = [at |-> "admitted", key |-> req.key]
             /\ recent' = [recent EXCEPT ![t] = <<0>> \o @]
  /\ UNCHANGED <<source, db, dbUp, snap, snapAge, ticker, load, lastTrue>>

RateLimit ==
  /\ req.at = "found"
  /\ LET t == TenantOf[req.key]
         w == RateWindowNow(t)
     IN IF w.count >= req.limit
        THEN /\ window' = [window EXCEPT ![t] = w]
             /\ req' = [at |-> "limited", key |-> req.key]
             /\ UNCHANGED recent
        ELSE /\ window' = [window EXCEPT ![t] = [w EXCEPT !.count = @ + 1]]
             /\ req' = [at |-> "admitted", key |-> req.key]
             /\ recent' = [recent EXCEPT ![t] = <<0>> \o @]
  /\ UNCHANGED <<source, db, dbUp, snap, snapAge, ticker, load, lastTrue>>

\* The response: 401, 429, or the handler's.
FinishRequest ==
  /\ req.at \in {"denied", "limited", "admitted"}
  /\ req' = NoRequest
  /\ UNCHANGED <<source, db, dbUp, snap, snapAge, ticker, load, window, lastTrue, recent>>

-----------------------------------------------------------------------------
Older(n, cap) == IF n < cap THEN n + 1 ELSE n

Tick ==
  /\ source = "postgres" => ~(load.at = "idle" /\ ticker <= 0)
  /\ load.at # "idle" => load.left > 0
  /\ source = "postgres" => ticker > -MaxBacklog
  /\ req = NoRequest
  /\ ticker' = IF source = "postgres" /\ Serving THEN ticker - 1 ELSE ticker
  /\ load' = IF load.at = "idle" THEN load ELSE [load EXCEPT !.left = @ - 1]
  /\ snapAge' = IF snapAge = Never THEN Never ELSE Older(snapAge, Forever)
  /\ window' = [t \in Tenants |-> [window[t] EXCEPT !.age = Older(@, RateWindow)]]
  /\ lastTrue' = [k \in Keys |-> IF k \in DOMAIN db THEN 0 ELSE Older(lastTrue[k], Forever)]
  /\ recent' = [t \in Tenants |->
       [i \in 1..Cardinality({j \in DOMAIN recent[t] : recent[t][j] + 1 < RateWindow})
          |-> recent[t][i] + 1]]
  /\ UNCHANGED <<source, db, dbUp, snap, req>>

RefreshStep == StartRefresh \/ QueryRows \/ RefreshFromSnapshot \/ RefreshFails
RequestStep == PassOpen \/ Reject \/ Lookup \/ RateLimit \/ FinishRequest
TenantNext == DbChange \/ DbUpDown \/ RefreshStep \/ RequestStep \/ Tick

TenantSpec == TenantInit /\ [][TenantNext]_tenantVars

\* The runtime schedules the refresh task, the timer and the requests it has
\* begun; a database that keeps answering does so before the timeout again and
\* again.
TenantFairness ==
  /\ WF_tenantVars(RefreshStep) /\ SF_tenantVars(Tick)
  /\ WF_tenantVars(RateLimit) /\ WF_tenantVars(FinishRequest)
  /\ SF_tenantVars(QueryRows) /\ SF_tenantVars(RefreshFromSnapshot)

-----------------------------------------------------------------------------
\* A key that was revoked in the database stops being admitted: the snapshot a
\* request is looked up in is no older than the stale bound plus one interval
\* of the refresh loop, plus the time the query that filled it was under way.
RevokedKeyExpires ==
  req.at \in {"found", "admitted"} /\ source = "postgres" =>
    lastTrue[req.key] < MaxStale + RefreshInterval + RefreshTimeout

\* What the setup guide says: a snapshot that reaches the stale bound "becomes
\* empty and all requests are denied", so no request finds its tenant in an older
\* one.  Only the refresh task empties it, at its next tick.
StaleIsDenied ==
  req.at = "found" /\ source = "postgres" => snapAge <= MaxStale

\* The fixed windows of rate_limit_blocked admit at most twice the limit in any
\* span of RateWindow, also when refreshes swap the tenant's limit and several
\* keys share its window.
RateBounded ==
  \A t \in Tenants : Len(recent[t]) <= 2 * Max(Limits \cup {DefaultLimit})

\* The registry recovers: once the database keeps listing a key among loadable rows,
\* the key is in the snapshot again and again, whatever was evicted before.
RegistryRecovers ==
  \A k \in Keys :
    source = "postgres" /\ <>[](dbUp /\ Loadable(db) /\ k \in DOMAIN db)
      => []<>(k \in DOMAIN snap)
=============================================================================
