# A TLA+ specification of Nexus

Nexus is a Rust hypervisor for WebAssembly tools: it runs a tool in a wasmtime
sandbox, snapshots the tool's memory, classifies the outcome, rolls a failed run
back, adapts fuel budgets, retries with advice it learned, races speculative
branches, replicates snapshots, and serves all this from a library, a daemon
(`nexus-agentd`), an MCP server (`nexus-mcp`) and a CLI.  These modules model the
parts whose correctness depends on the order of steps (locks, tasks, crashes,
evictions, timeouts, lost messages), check them with TLC, and prove with TLAPS, for
every size, most of the safety properties that TLC checks on small instances.

## 1. Inventory

| Component | State | Operations | Interacts with | What is hard | Correct means |
|---|---|---|---|---|---|
| Snapshot manager (`snapshot/manager.rs`, `differential.rs`) | ring of full snapshots with an id index, list of diffs, statistics, a directory of files | create, diff, promote, roll back, load | called by every execution, from several threads; three RwLocks | a base is evicted between two locks of one call; torn files; index shifts at capacity | what is restored is what was captured; the index is exact; chains are bounded; calls return |
| Execution path (`hypervisor/mod.rs`) | `latest_runtime_snapshot`, `current_snapshot`, two rollback slots, telemetry | execute (plain, traced, from a snapshot, precompiled, WASI), manual rollback | manager, sandbox, fuel policy, health, telemetry | slots with a lock each, read and written amid concurrent executions | a failed run is rolled back to its own snapshot; slots agree; one record per output |
| Adaptive fuel (`sandbox/fuel_budget.rs`) | samples per tool, the installed sandbox's limit | budget, swap, run, record | one sandbox shared by all callers | three lock sections; budgets feed back into samples | a tool is never starved for good; budgets grow at most geometrically |
| Daemon (`daemon/`, `bin/nexus_agentd.rs`, `sandbox/module_cache.rs`) | queue of hypervisors, semaphore, detached returns, compiled modules | start-up gates, authentication, acquire, drop, serve, shutdown | hypervisor, wasmtime engines | permit and instance come back separately; panics; engines change under the cache | nothing is lost or handed out twice; requests are answered |
| Sandbox, epochs, pool (`sandbox/wasm_runtime.rs`, `wasi.rs`, `pool.rs`) | two epoch counters, worker threads, permits, instances | reserve, arm, time out, advance, cancel | hypervisor, wasmtime | a sibling's timeout; a worker that outlives its call | a timeout stops its own worker and no later one |
| WASI mounts (`sandbox/wasi.rs`) | the host's directories | derive, authorize, prepare, open | capability manager | paths are looked up three times while others create, remove and link | only what tokens allow is opened |
| Capabilities (`security/`) | issued, active and revoked tokens, the clock | issue, attenuate, revoke, validate, negotiate | execution path, MCP server | ancestors revoked or expired under their children | no authority is gained, none outlives its root |
| MCP server (`bin/nexus_mcp.rs`) | configuration, calls under way, tokens, captured runtime snapshots, rate buckets | start, gate, mint, execute, fork, roll back, recall, capsule, deliver | everything above, AEON-IQ | tokens that expire during a call; evidence replaced by a negotiation | the operator's policy holds on every path; a signed capsule reaches its caller |
| Tenants (`bin/nexus_mcp.rs`, HTTP) | tenant snapshot and its age, refresh task, rate windows | refresh, evict, authenticate, limit | PostgreSQL | outages, slow queries, window boundaries | revoked keys expire; service returns |
| Profiles (`profile/`) | a manifest | parse, validate | MCP server, daemon | keys repeated or in the wrong table | an accepted profile says what its file says |
| Retry, recovery, instincts, LLM (`hypervisor/recovery.rs`, `llm_policy.rs`, `instinct/`) | pending instincts, counters per instinct, files, a call budget | execute_with_retry, recover, register, import, record, save | execution path, LLM | credit goes to an earlier attempt; saves race; torn files; two atomics | credit is earned; files hold what was learned |
| Speculation (`hypervisor/speculative.rs`) | running branches, blocking tasks | fork_and_race | executes from snapshots | dropped futures whose tasks go on | the slot is the winner's |
| Snapshot sync (`snapshot/sync/`) | held snapshots, frames, heads, forks, hybrid clocks | advertise, want, transfer, apply_head | another node | loss, reorder, duplicates, partial reads, clocks that jump | in order, verified, complete; heads are the leaves |
| AEON timeline (`aeon.rs`) | chain digests, a spool file | deliver, spool, replay | AEON-IQ | lost answers; a file shared without a lock | acknowledged events form a chain; nothing vanishes silently |
| Recall v2 (`aeon/recall_v2*.rs`, bridge crate) | trusted keys, nonces in PostgreSQL | configure, verify, consume, purge | PostgreSQL, several processes | timeouts, unanswered commits, purges, two ids for one key | no envelope is accepted twice |
| Telemetry, compression, capsule encoding, egress policy, fuel meter, CLI | history, documents, counters | record, encode, check, print | everything above | sequential data conversion and I/O | faithful output |

`PROJECT.json` lists the same parts with their status, and the hazards at their
source lines with the properties that answer them.

## 2. Modules

| Module | Models |
|---|---|
| `SnapshotStore` | abstract specification: a window of full snapshots and a forest of diffs |
| `SnapshotManager` | the manager, one action per lock section; refines `SnapshotStore` |
| `RuntimeSnapshots` | the execution path; composes with the manager through `SnapshotStore` |
| `AdaptiveFuel` | fuel profiles, budgets and the shared sandbox limit |
| `DaemonPool` | daemon start-up, connections, hypervisor pool, module cache |
| `SandboxRuns` | epochs, workers, timeouts, cancellation, permits and pooled instances |
| `CapabilityTokens` | containment of capabilities, tokens, attenuation chains, revocation, validation |
| `WasiMounts` | the directories a WASI call opens (over `CapabilityTokens`) |
| `McpServer` | start-up and tool surface of nexus-mcp (over `CapabilityTokens`) |
| `TenantRegistry` | authentication and rate limits of the HTTP transport |
| `ProfileManifest` | the profile parser and its validation |
| `RecallReplay` | recall envelopes and the shared replay store |
| `RetryLearning` | the retry loop, recovery policies and the instinct store |
| `LlmPolicy` | the LLM layer and its per-minute budget |
| `Speculation` | `fork_and_race` |
| `SnapshotSync` | replication between two nodes over a faulty network |
| `SnapshotLineage` | head updates, forks and hybrid logical clocks |
| `AeonTimeline` | timeline delivery, spool and replay |
| `MC*` | instances for TLC (`MCMounts` and `MCTenants` also on their own) |
| `ChainLemmas` | what the proofs about chains, walks and recursive functions share |
| `SnapshotManagerProofs` | theorems about `SnapshotManager`, with its refinement of `SnapshotStore` |
| `RuntimeSnapshotsProofs` | theorems about `RuntimeSnapshots` |
| `AdaptiveFuelProofs` | the theorem about `AdaptiveFuel` |
| `McpServerProofs` | theorems about `CapabilityTokens`, `McpServer` and `WasiMounts` |
| `FrontEndProofs` | theorems about `TenantRegistry`, `ProfileManifest`, `RecallReplay` and `DaemonPool` |
| `ReplicationProofs` | theorems about `SnapshotSync` and `SnapshotLineage` |
| `ServiceProofs` | theorems about `AeonTimeline`, `SandboxRuns`, `LlmPolicy`, `Speculation` and `RetryLearning` |

`MCHypervisor`, `MCSolo`, `MCFrontEnds` and `MCServices` hold several components
that share no state; the manager is in three of them, with different bounds.  Their
variable `focus`, chosen in the initial state, says which component moves in a
behaviour; the others keep one initial state.  A run of
such a module is the union of the components' own state spaces, not their product,
and each of its properties speaks of one component (or is true of the others'
initial states).  The components do meet inside modules: the manager and the
execution path through `SnapshotStore`, tokens inside `McpServer` and `WasiMounts`,
the sandbox swap of `AdaptiveFuel` as a step of `DaemonPool`.

Operators named as mutants ("Mutant of X") are wrong variants of X; no
specification uses them.  They are kept so that every property has a known bug it
catches.

### Snapshot manager

`snapshots` and `index` are `SnapshotRingBuffer`; `diffs` is `diff_buffer`; `disk`
is the persistence directory; `captured` is a history variable: the memory each id
was made from.  `pc` and `loc` are the program counter and locals of each thread's
call.  A memory is a sequence of pages; a page is 4096 bytes of content whose
identity is all that matters.  zstd and SHA-256 are lossless and collision-free: a stored
stream stands for the memory it decodes to.  An id (a random UUID) is handed out
once and can be named by callers only once its snapshot is in the store.  A file is
absent, torn or whole; a crash may tear the file being written, and a load may fail on
any file (unreadable, or over the size limit).

Each action is one critical section together with the local work before it, so
another thread can act wherever the code holds no lock, in particular between the
walk that finds a base and the read that uses it, and between that read and the push
of the diff.  `rollback_to_diff` keeps its read guard of `diff_buffer` across the
walk and the base read (`HoldsDiffs`), which is why `PushDiff` waits for it.
Execution state, filesystem diff and metadata travel with a snapshot unchanged and
are left out.

### Execution path

`RuntimeSnapshots` treats each manager call as one step of `SnapshotStore`; run
`services` checks that the manager implements that store.  A call fixes what it
will do at one point (a failing lookup, or the read of the base), and ids are not
known to others before a call returns, so one step per call loses no behaviour of the
slots.  A run ends as success, trap (any failure reported with a captured memory),
missing entry point, invalid module or timeout (any failure without a captured
memory); the host's checks can turn success into a host error.  Forked runs start
with a rollback and may grow the memory.  A refused authorization returns an error
without touching anything.  `Manual` adds snapshots that a library user takes in the
manager directly.

### Adaptive fuel

`samples` are the profiles; `limit` is the `max_fuel` of the installed sandbox.
Budget, swap, run and record are separate steps, since the locks are released between
them; a running guest holds the read lock and so keeps a swap waiting.  `Percent`,
`Floor`, `MinSamples` and `MaxSamples` are 95, 100000, 5 and 100 in the code and small
in the runs; the headroom 1.5 is the code's default.  The model is of a hypervisor
without a warm pool, where the swap happens.

### Daemon

The daemon starts unless its release build, `NEXUS_AGENTD_RELEASE` or profile asks
for a token that is not configured (`Refused`).  A connection is a task; a frame says
whether it carries the configured token, and a path is given by where the opened file
really is.  Refused frames and pings are answered at once.  An engine is a number, a
compiled module is the engine it was made for; a request for a proof capsule compiles
its bytes again.  `SwapSandbox` is the sandbox rebuild of `AdaptiveFuel`, here as a
free choice.  `Shutdown` ends the accept loop; the runtime then drops all tasks.

### Sandbox runs

`current` is `SandboxEpoch.current`, `engineEpoch` wasmtime's counter; reading the
one and arming the store against the other are two steps, and so are publishing a new
epoch and incrementing the engine.  Limits fire at any moment.  A run records whether
it was armed while the epochs were apart (`raced`) or after its own deadline
(`late`): these are the two races the code leaves open, and the properties are exact
up to them.  WASI workers also look at a cancel flag between their stages.

### Tokens, mounts and the MCP server

A capability is a record of its kind and what it is about; a path the sequence of its
components, with `..` a component that `NormalizePath` removes; a URL pattern its
scheme and whether its host is public.  A token never changes after it was signed, so
`minted` is a sequence and a signature verifies exactly for what is in it.

`WasiMounts` has a file system of directories, files and links, walked as the
operating system does; `create_dir_all` goes down a path component by component.  Two
calls run on it, and between any two of their steps other processes create entries
(`OtherCreates`), remove them and put links in their place (`OtherReplaces`); every
link leads to a directory.  The code looks a mount's path up to authorize it, again
when it creates it and again when the worker opens it, and does not compare.  `moved`
records that one of a call's own mounts came to lead elsewhere between these looks:
run `wasi_mounts` shows what then happens, and `UndivertedAuthorized` that nothing else
can go wrong.

`McpServer` starts in an environment (transport, module directories, profile,
allowlist, AEON-IQ settings) that `Starts` accepts.  A request is one record for
every tool; capability specs are parsed by type and path, in both spellings.  A call
passes the gates, mints its tokens one at a time, is authorized by the hypervisor,
may negotiate a denial in at most two rounds, is authorized again, runs, emits its
capsule and delivers its events.  A tool that ran can still be answered with an error:
its snapshot could not be stored, the last retry failed so, or every branch of a race
did (`Run`); then there is no capsule.  Other clients and the clock act between any two
of these steps.  Recall returns any outcome AEON-IQ can give, with and without a
verifiable signature.

`TenantRegistry` uses relative time: a variable holds how long ago something
happened.  `Tick` is disabled while the ticker or a timeout is due, so its bounds are
exact up to scheduling latency.  The server accepts a timeout longer than the refresh
interval; the ticker then falls behind and makes up for missed ticks, by at most
`MaxBacklog` in a run.

`ProfileManifest` reads every manifest of up to five lines from a list of telling
ones.  `RecallReplay` has two processes with clocks that disagree and PostgreSQL with
row waits and advisory locks, as the SQL in `recall_v2_postgres.rs` uses them.

### Services

`RetryLearning`: attempts end in output, failure or error; policies are modelled by
the actions they propose; a crash may tear the file being written, and a torn file
makes the next `open` fail until it is repaired.  `LlmPolicy` takes its loads and
stores one at a time; `granted` counts what a minute let through, `prompt` those of
them that also began in it.  `Speculation` polls branches in order; without a pool a branch
finishes in the poll that starts it.  `SnapshotSync` delivers, drops, repeats,
reorders and forges frames; `hasty` records a receive that gave up on a frame still
on its way.  `SnapshotLineage` has physical clocks that may stand still or go back.
`AeonTimeline` posts may be lost, refused, or stored with the answer lost; the spool
is a file with an inode, so that a writer can hold a file that was removed.

## 3. Runs

Passing runs:

| Run | Components and bounds | Checks |
|---|---|---|
| `hypervisor` | execution path: 2 threads, differential and manual snapshots, capacity 1, 3 ids, 3 calls; 2 callers of 2 tools; manager: 2 threads, memories of two sizes, 3 ids, capacity 1, depth 1, failed writes, crashes | `TelemetryExact`, `UnrestoredIsLost`; `GrowthBounded`; `FilesRestoreFaithful` |
| `solo` | 1 thread of 6 calls; 1 tool; manager, daemon and registry with 2 threads, 2 connections, 1 key; fair | `RollbackNeverRefused`, `CurrentIsRoot`, `RollbackPairMatches`; `SoloBudgetRecovers`; `CallsReturn`; `RequestsAnswered`; `RegistryRecovers` |
| `front_ends` | 3 connections, 1 hypervisor, a cache of 1; 2 clients, 3 calls, 3 tokens, 14 requests, 5 environments; 2 WASI calls of 6 tools, 3 entries and 3 replacements by others; 2 keys of a tenant, a timeout of two intervals; manifests of 5 lines; 2 verifiers, 7 envelopes | `NoInstanceLost`, `ShortageIsTransient`; `WithinOperatorPolicy`, `NegotiationNarrows`, `AttestedOnlyVerified`, `CapsuleReachesCaller`; `AuthorityFromLiveRoot`; `UndivertedAuthorized`; `RevokedKeyExpires`, `RateBounded`; `ManifestIsFaithful`; `ReplayDetected`, `ConflictRowStays` |
| `services` | manager: 2 threads, 4 ids, capacity 2, depth 2, no files; 2 deliveries of 2 events, 2 replays; 2 runs of 2 ticks; 2 callers, 3 instincts, 2 retries; 2 advisors; 3 branches; 3 snapshots, 2 faults; 2 sites, 4 heads | `GenerationIsDepth`, refinement `StoreSpec`, `RestoreFaithful`, `OrphansStayLost`; `AckedChainVerifies`, `SpooledIsAccounted`; `TimeoutsAreIsolated`, `TimedOutWorkerStops`; `CreditsAreEarned`, `FilesLagInFlight`; `OverrunNeedsReset`; `WinnerHoldsSlot`; `DeliveredInOrder`, `OkMeansReplicated`; `HeadsAreLeaves`, `HlcCausal` |

The bounds are the smallest at which the interesting case happens: a ring that
evicts while a chain hangs on the evicted snapshot, a chain at its depth limit, two
threads in one call, more connections than hypervisors, more modules than cache
entries, a profile whose ring is full, a chain of three tokens whose middle one is
revoked, a window shared by two keys, a nonce presented to two processes, two
deliveries and a replay on one spool, a head that arrives before its parent, a link
that appears where a mount was authorized.
`MaxIds`, `MaxRollbacks`, `MaxEngines`, `MaxCalls`, `MaxTokens`, `MaxTime`,
`MaxLines`, `MaxClock`, `MaxAccepted`, `MaxEvents`, `MaxReplays`, `MaxActs`,
`MaxMinutes`, `MaxConsults`, `MaxSteps`, `MaxFaults`, `MaxHeads`, `MaxMillis`,
`MaxLogical` and `MaxBacklog` bound counters that the code leaves open (`MaxSteps` is the code's own);
a behaviour stops when they are used up, which is why no configuration checks
deadlock.  Waiting for ever is what `solo` is about.  Symmetry permutes threads,
clients or tasks in runs without liveness.

Violated statements (each a finding in `PROJECT.json`):

| Run | What the code's text says | What the model of the code does |
|---|---|---|
| `daemon_permit` | "a permit implies an instance is available" | the permit is free before the detached task has returned the instance; the next `acquire` panics |
| `daemon_engine` | cached modules are reused by the daemon | a module compiled for one engine is given to a hypervisor with another |
| `fuel_budget` | the recommendation overrides `max_fuel` per invocation | a budget equal to `max_fuel` leaves the previous tool's sandbox; a concurrent swap replaces it |
| `runtime_diff` | later executions use differential snapshots | one memory of another size, or an evicted base, makes every later execution fail |
| `timeline_ids` | "distinct events cannot collide" | two denials of a session have one id; the second is dropped |
| `tenant_stale` | at the stale bound "the snapshot becomes empty and all requests are denied" | only the refresh task empties it; until its next tick requests are admitted from it |
| `llm_budget` | a budget "caps the maximum number of LLM calls per minute" | two threads set the count to zero one after the other within a minute, and both budgets are spent |
| `wasi_mounts` | filesystem access is "always derived from caller-held capability tokens" | a link put in place of an authorized mount is followed when the mount is created or opened |

For the last three a passing run has the exact statement that does hold:
`RevokedKeyExpires` (the stale bound plus one refresh interval, plus the time of the
query), `OverrunNeedsReset` (one more budget per reset) and `UndivertedAuthorized` (all
calls none of whose mounts was diverted).

Differences met while modelling that are not kept as runs.  Two connections that
miss on the same bytes both append the hash to the cache's eviction order, so a later
eviction can remove a module used more recently than one it keeps
(`module_cache.rs:73`, against "Evicts LRU entries", line 43).  Two concurrent
rollbacks can interleave their slot writes and leave the memory of one with the
execution state of the other (`hypervisor/mod.rs:568`); `RollbackPairMatches` holds
for one execution at a time only.  `execute_tool_traced` adds the checkpoint that
`current_snapshot` names (`hypervisor/mod.rs:1921`), where its comment says the trace
"is empty when the module exported no memory" (line 1905) and is made from "the
per-execution snapshot": a module without a memory, or an execution that took a
differential snapshot, leaves that slot alone, and the trace holds the checkpoint of an
earlier execution (`ReadTrace`).  `ensure_retry_enabled` (`nexus_mcp.rs:2062`) has
no callers, so a profile's `retry_enabled` gates nothing.  The retry loop never reads
`non_retryable`; `import_all` does not validate categories as `register` does; an
instinct whose text equals a static advice is merged into it and never credited.
Containment of memory scopes is not transitive: `MemoryScope::is_subset_of`
(`security/capability.rs:103`) puts every session of an agent inside the agent's
namespace and the namespace inside each of those sessions, so a chain of attenuations
can lead from one session through the namespace to another, where
`security/capability.rs:220` reads "True if `self` grants no more than `parent`".
The attempt to prove `AuthorityFromLiveRoot` showed this; that property now compares a
token with its root only along chains without a namespace token, and
`WithinOperatorPolicy` leaves out memory that a namespace token grants.  The run's
capabilities include a namespace and two sessions, so the exception does occur in it.

### Fairness

`SnapshotManager`: a thread inside a call keeps running (weak fairness), and a writer
waiting for `diff_buffer` gets it (strong: std's RwLock admits no new reader while a
writer waits).  `DaemonPool`: runnable tasks are polled (weak), tokio's semaphore
serves waiters in order (strong on `AcquirePermit`).  `AdaptiveFuel`: calls proceed
and callers come back; that runs are metered from some time on is an assumption of
`BudgetRecovers` itself.  `TenantRegistry`: the refresh task and requests are polled
(weak), time passes, and a database that is up answers before the timeout again and
again (strong); that it stays up is an assumption of `RegistryRecovers`.  `MCSolo`
states them as one conjunction: since only one component moves in a behaviour,
fairness of a disjunction of actions of different components is fairness of each.

## 4. Proofs

Every invariant and every action property that a passing run checks is also a theorem,
`Spec => []P` (or `Spec => P` for an action property and the refinement), for every
value of the constants that satisfies the named assumptions of the component's module.
Only liveness is left to the runs.  In each case `P` alone is not preserved by every
step, and the work is in the inductive invariant; there is one lemma or step per action.

Several properties speak of chains, walks and folds of any length: the diffs below a
snapshot, the links of a token, the ancestors of a head, the components of a path, the
lines of a file.  `ChainLemmas` has the two tools for them.  A statement about every
natural number is proved from its least counterexample (`LeastNat`, from the library's
theorem that `<` on the naturals is well founded).  A recursive function
`f[n \in S] == ...` is a `CHOOSE`, so its equation has to be earned: the lemmas named
`...Walks`, `...UpTo` and `...Exists` show that some function satisfies it, and the
chosen one then does.  The models write such definitions as recursive functions for
this reason, and the arms of a `CASE` exclude each other, since TLA+ leaves open which
of two arms that hold is taken.

### Snapshot manager (`SnapshotManagerProofs`)

`TypeCorrect`, `IndexAlwaysConsistent` and `RestoreAlwaysFaithful` rest on `IInv`.
`RestoreFaithful` speaks of a call that is about to answer, while the answer is put
together over many steps.  `IInv` therefore says what each stored thing means in terms
of `captured`: a retained snapshot holds the memory of its id (`RingOK`), a diff is the
page difference between the memories of its base and its id (`DiffsOK`), a whole file
holds the memory of its id (`DiskOK`), a snapshot on its way into the ring is not in it
and no two threads carry the same (`InFlightOK`), and a thread's collected chain links
its ends without a gap while the memory being patched is the one at the chain's lower
end (`ThreadsOK`).  Two lemmas carry the argument: applying the diff of two memories to
the first gives the second (`PatchIsCaptured`), and a push leaves the newest snapshots
with an index of exactly those (`PushIndexes`).  None of this depends on the base still
being retained when the diff is pushed, which is why the races found by the model are
harmless for faithfulness.

`GenerationAlwaysDepth` adds `GenerationsFixed` (together `GInv`): a thread fixes the
generation of its diff when its call starts and pushes it much later; what it fixed
stays true because a diff pushed meanwhile has a new id and so is not its base.

`ImplementsStore` is the refinement `Spec => StoreSpec`.  With `RingBounded` (the ring
never exceeds its capacity) added to `GInv`, the push of a full snapshot is `TakeFull`,
the push of a diff is `TakeDiff`, a restart is `Lose`, and every other lock section
leaves the abstract variables as they are.

`OrphansAlwaysLost` adds `Closed`: diffs and their bases have known ids.  A snapshot with
a new id then enters no existing chain (`ChainStable`), so a chain that has lost its
full snapshot never regains one.  The run checks `OrphansStayLost` without files and
restarts; the theorem has both.  `IndexConsistent` has no run of its own, since an index
that is off hands back another memory, which `RestoreFaithful` sees.

### Execution path (`RuntimeSnapshotsProofs`)

`UnrestoredAlwaysLost` rests on `RInv`: diffs and their bases
are known snapshots (`StoreOK`), and the snapshot of a call that recorded a failure
without a rollback is outside `Live`, the set of restorable snapshots, into which no
step puts a known snapshot back.
`TelemetryAlwaysExact` counts the threads between record and return.

The three theorems about serial executions assume `Solo`, that there is one thread;
with two, one call can evict what another is about to restore, and section 3 says what
becomes of the rollback slots.
`SoloRollbackNeverRefused` and `SoloRollbackPairMatches` hold with manual snapshots,
persistence and failed writes: from the moment a run has its snapshot to its rollback
nothing else can evict it (`SoloInv`).  `SoloCurrentIsRoot` also assumes `~Manual` and
`~Persist`: a snapshot taken in the manager directly, or one that stays in the ring
although its file could not be written, can push the current root out of the ring while
`current_snapshot` still names it.  With those excluded, the ring changes only where
`current_snapshot` is set next (`RootInv`).

### Adaptive fuel (`AdaptiveFuelProofs`)

`GrowthAlwaysBounded`: a budget is read, installed and run under in three steps, so
`FlightBounded` bounds what is between them as well.  That a percentile does not exceed
the largest sample is `PercentileBelow`; `Percentile` is the order statistic, the least
sample that as many samples as the rank do not exceed, which is the entry at that rank
of the sorted list.

### Tokens and the MCP server (`McpServerProofs`)

`AuthorityAlwaysFromRoot` is about the tokens alone, `ServerAuthorityFromRoot` about
those the server's handlers make.  A child's capability is inside its parent's
(`TokensOK`), containment is transitive where no namespace is involved, and a chain
whose depths fall by one link by link and that is no longer than the limit ends at a
token that was issued, so the root grants what any token of the chain is accepted for
(`LiveRoot`).  For paths this needs that the text normalization of a path is a path
without `..` (`NormalizeType`) and that prefixes are transitive.  Assumed
(`CapsAssumption`): a capability for a file carries a path and one for memory a scope,
as the variants of `Capability` do.

`NegotiationAlwaysNarrows`, `AttestationAlwaysVerified` and
`CapsuleAlwaysReachesCaller` follow from `CallInv`, which describes the record of a call stage by stage: what is
left of the requirements after which round (`NeedOK`), and which evidence a capsule can
have been given (`EvidenceOK`).  It speaks of a call's own record and of the
configuration only, so that no other call or tick can disturb it.

`AlwaysWithinPolicy` adds what is known of every token ever signed, whoever signed it:
its capability is inside the allowlist and the profile, or comes from a namespace token
(`PolicyInv`), and a call's tokens are such tokens at every stage (`StageOK`).  Assumed
(`InputsAssumption`): the specs in requests, allowlists and profiles have the fields
that `serde` gives them, only the three tools with a parameter for required
capabilities name any, and a request for a token is for one capability.

### Mounts (`McpServerProofs`)

`UndivertedAlwaysAuthorized`.  `Aim(t, path, T)` says that on the disk `t` the path, as
far as it exists, leads to a place from which the rest of it, which holds no `..`, leads
to `T`.  It is what `required_capability_mount_dir` establishes (`RequiredIsAimed`), for
one `T` only (`AimedOnce`); it survives whatever is created (`AimKeeps`: what was missing
is made along the way to `T` or is a file in the way), and it makes `prepare_mount_dir`
return `T` and create only prefixes of it (`PrepareGrows`, `PreparedIs`).  A removal or a
link can break it, but then the mount no longer resolves to `T`, which is what `Diverted`
sees (`SameAim`, `ReplaceStep`).  `T` itself leads to `T` (`TargetIsCanonical`), so that
the worker, which opens it by name, opens `T`.  `MountInv` keeps all this for every call
between derivation and opening that was not diverted.  Assumed: the disk is a tree whose
links lead to directories (`TreeAssumption`; `OtherReplaces` keeps it one), what other
processes create has a plain name (`OthersAssumption`), and a tool's mounts are a list of
paths (`PathsAssumption`).

### Tenants of the HTTP transport (`FrontEndProofs`)

`RevokedKeysAlwaysExpire`: a row read by a query is as old as the query, a snapshot
adds its own age, and that age plus the time left of the refresh under way, or until
the next, is bounded (`ExpiryInv`).  `RatesAlwaysBounded`: the admissions beyond the
current window's count are older than the window and no more than one window's worth
(`RateInv`).  Assumed: the server's own start-up check of the three periods, and
that limits have a maximum (they are `u64`).

### Daemon pool (`FrontEndProofs`)

`InstancesNeverLost` and `ShortageAlwaysTransient` count instances; counts are not
inductive.  `PoolInv` says where each instance is: the queue holds nothing twice, the
queue, the borrowers and the detached returns have no instance in common (`OnePlace`)
and leave none out (`SomePlace`), and a connection holds one exactly between pop and
drop (`BorrowOK`).  The counts follow by the cardinality theorems of the library
(`CountPlaces`).  Assumed: connections and hypervisors are finitely many.

### Profiles (`FrontEndProofs`)

`ManifestAlwaysFaithful`: the parser keeps a section and values so far, while the
property reads the file as a whole.  `ParserInv` ties the two together after each line:
unless an error was noted, every line so far has a meaning in its table, and each value
is the last one given in that table (`ParserAgrees`).  Assumed (`LinesAssumption`): a
line is blank, a header, an assignment or anything else (`junk`), and a right-hand side
that parses has a value.

### Recall (`FrontEndProofs`)

`ReplayAlwaysDetected` and `ConflictRowAlwaysStays`.  What was accepted in the past
is decided against rows that purges remove and a clock read before the transaction
began.  `RecallInv` says that what was accepted still has its row, with an expiry no
earlier, or expired before every cutoff (`Kept`), that a consumption in progress read
its clock at most one operation timeout ago (`CallsTimed`), and that two open
transactions never insert the same row (`InsertedAlone`).  The assumption `SafeCutoff`
is an obligation of whoever calls `purge_expired_before`, to which the code leaves the
cutoff: the cutoff stays behind by the operation timeout and the distance of the
clocks.

### Sandbox (`ServiceProofs`)

`TimeoutsAlwaysIsolated` and `TimedOutWorkersStop`.  `SandboxInv` ties the two epochs
together: the engine's epoch plus the bumps still owed is `current` (`EpochsAgree`),
`current` never passes the largest deadline of a call that timed out
(`AdvancedByTimeout`), and a store armed while no bump was owed traps at its own
deadline, or at the next tick if that had passed (`RunsOK`).  Assumed: the time limit is
at least one tick, as the code's rounding up makes it, and runs are finitely many.

### Timeline (`ServiceProofs`)

`ChainsAlwaysVerify`: the digest a sink carries is that of the last event
acknowledged to it (`SinkOK`).  `SpooledAlwaysAccounted`: until a replay rewrites the
file, all it has read is still there and has been settled or is in its hands
(`ReplayKnows`), while tasks only append.

### Retry, LLM and speculation (`ServiceProofs`)

`OverrunsNeedResets`: what the current minute let through is covered by one budget per
reset and by what the count still shows (`GrantsCovered`).  `WinnerAlwaysHoldsSlot`:
while the race is open no branch has succeeded (`NoSuccessYet`).
`CreditsAlwaysEarned` and `FilesLagOnlyInFlight`: what is pending was proposed by a
failed attempt after which there were refusals only, both before and while feedback is
given (`CallsOK`).

### Replication (`ReplicationProofs`)

`AlwaysDeliveredInOrder`: a frame's number names the message it carries among those
sent, and the counters count what was sent and handled (`FramesOK`, `Counted`), so the
one number a receiver accepts brings the next message.  `OkAlwaysReplicates`: what `a`
has and `b` lacks is advertised, asked for or sent and not yet handled
(`NothingForgotten`), and when neither end waits for anything nothing is on its way
(`PollsOK`).  `ClocksAlwaysCausal`: `Tick` and `Update` give a later timestamp than
what they are given, whatever the physical clock says.  `HeadsAlwaysLeaves`: a parent
is older than its child, so the walk up the ancestors ends, and facts about it are
proved from the oldest digest up (`Downward`); a new node lengthens only the walks that
ended at it, and takes from the heads exactly its ancestors (`StoreShows`).  Assumed:
snapshots are finitely many.

### Only model-checked

`CallsReturn`, `RequestsAnswered`, `RegistryRecovers` and `SoloBudgetRecovers`: fairness
and ENABLED are outside this prover.

## 5. Plan

Modules next: the capture queue of AEON memory, trace replay and history of telemetry,
the verification order of proof capsules, the CLI's commands over `AeonTimeline`; each
with its invariants and their proofs.

## 6. Not modelled

wasmtime (the guest, its allocator, its epoch checks beyond one trap), tokio, zstd, the
file system beyond what is said above, HTTP, PostgreSQL beyond locks and rows, and LLM
answers; serialization formats, canonical JSON, signatures and hashes (data conversions
whose state spaces TLC cannot enumerate); the fuel meter, which nothing in the
execution path calls; the egress policy, fixed at start-up; the Windows pipe; the CLI.
