----------------------------- MODULE DaemonPool -----------------------------
(***************************************************************************)
(* nexus-agentd: connections share a fixed pool of hypervisors and one     *)
(* cache of compiled modules.                                              *)
(*                                                                         *)
(* A request takes a permit of the pool's semaphore, then an instance from *)
(* its queue; the guard's Drop gives the instance to a detached task that  *)
(* puts it back, and releases the permit at once.  The cache is keyed by   *)
(* the hash of the WASM bytes alone, while a compiled module belongs to    *)
(* the engine it was compiled for and every sandbox has its own engine.    *)
(* One action is one critical section or one await-free stretch of code.   *)
(*                                                                         *)
(* A frame's `token' says whether it carries the configured token; a path  *)
(* is given by where the opened file really is.                            *)
(***************************************************************************)
EXTENDS Integers, Sequences, FiniteSets, SequencesExt

CONSTANTS
  Conns,        \* client connections, one task each
  Hvs,          \* the hypervisors of the pool
  Frames,       \* requests a peer may send
  Daemons,      \* environments the daemon may be started in
  MaxEntries,   \* max_entries of the module cache
  MaxEngines,   \* bound: engines ever created
  NoHv          \* "no hypervisor", and whatever else is not there

ASSUME EntriesAssumption == MaxEntries \in Nat
ASSUME EnginesAssumption == MaxEngines \in Nat /\ Cardinality(Hvs) <= MaxEngines
ASSUME PoolAssumption    == IsFiniteSet(Conns) /\ IsFiniteSet(Hvs) /\ NoHv \notin Hvs

VARIABLES
  daemon,     \* whether a token is configured, and the module directories
  available,  \* HypervisorPool.available
  permits,    \* permits left in the semaphore
  returning,  \* instances a detached task is about to put back
  engine,     \* the engine of each hypervisor's current sandbox
  engines,    \* how many engines have been created
  map,        \* CacheInner.map: bytes -> engine of the compiled module
  order,      \* CacheInner.order: eviction order
  up,         \* the accept loop is running
  pc,         \* where each connection is
  conn        \* its request: bytes, borrowed instance, engine, module, reply

pool  == <<available, permits, returning>>
cache == <<map, order>>
vars  == <<daemon, pool, engine, engines, cache, up, pc, conn>>

NoEngine == 0
Quiet == [wasm |-> NoHv, proof |-> FALSE, hv |-> NoHv, engine |-> NoEngine, module |-> NoEngine,
          reply |-> "none"]

\* main: enforce_release_auth_requirement and enforce_profile_auth_requirement.
Refused(env) ==
  \/ ~env.token /\ (env.releaseBuild \/ env.release)
  \/ env.profile # NoHv /\ (~env.profile.valid \/ (~env.token /\ env.profile.authRequired))

\* unauthorized_response: a ping needs no token.
Unauthorized(frame) == daemon.token /\ frame.type # "ping" /\ ~frame.token

\* read_allowlisted_wasm_path: a regular file in a directory of the list; a
\* list that is missing, empty or names something else rejects every path.
Allowlisted(path) ==
  /\ path.file /\ NoHv \notin daemon.dirs
  /\ \E d \in daemon.dirs : IsPrefix(d, path.real)

\* The bytes of an Execute: raw bytes need a configured token.
Loads(frame) ==
  IF frame.bytes # NoHv THEN daemon.token ELSE frame.path # NoHv /\ Allowlisted(frame.path)
WasmOf(frame) == IF frame.bytes # NoHv THEN frame.bytes ELSE frame.path.wasm

Goto(c, label) == pc' = [pc EXCEPT ![c] = label]
Set(c, record) == conn' = [conn EXCEPT ![c] = record]

\* HypervisorPool::new: `size` instances, each with a sandbox and engine
Init ==
  /\ daemon \in {[token |-> env.token, dirs |-> env.dirs] : env \in {e \in Daemons : ~Refused(e)}}
  /\ available \in {q \in [1 .. Cardinality(Hvs) -> Hvs] : IsInjective(q)}
  /\ permits = Cardinality(Hvs)
  /\ returning = {}
  /\ engine \in {f \in [Hvs -> 1 .. Cardinality(Hvs)] : IsInjective(f)}
  /\ engines = Cardinality(Hvs)
  /\ map = [w \in {} |-> NoEngine]
  /\ order = << >>
  /\ up = TRUE
  /\ pc = [c \in Conns |-> "idle"]
  /\ conn = [c \in Conns |-> Quiet]

\* A frame with an Execute request arrives and passes the checks of `serve`
Request(c, frame) ==
  /\ up
  /\ pc[c] = "idle"
  /\ frame.type = "execute" /\ ~Unauthorized(frame) /\ Loads(frame)
  /\ Set(c, [Quiet EXCEPT !.wasm = WasmOf(frame), !.proof = frame.proof])
  /\ Goto(c, "acquire")
  /\ UNCHANGED <<daemon, pool, engine, engines, cache, up>>

\* A frame that is answered at once: a ping, and a request that is refused
AnswerNow(c, frame) ==
  /\ up
  /\ pc[c] = "idle"
  /\ \/ Unauthorized(frame) /\ Set(c, [Quiet EXCEPT !.reply = "error"])
     \/ frame.type = "ping" /\ Set(c, [Quiet EXCEPT !.reply = "pong"])
     \/ /\ frame.type = "execute" /\ ~Unauthorized(frame) /\ ~Loads(frame)
        /\ Set(c, [Quiet EXCEPT !.reply = "error"])
  /\ Goto(c, "reply")
  /\ UNCHANGED <<daemon, pool, engine, engines, cache, up>>

\* HypervisorPool::acquire: the permit first ...
AcquirePermit(c) ==
  /\ pc[c] = "acquire"
  /\ permits > 0
  /\ permits' = permits - 1
  /\ Goto(c, "pop")
  /\ UNCHANGED <<daemon, available, returning, engine, engines, cache, up, conn>>

\* ... then the instance.  An empty queue is a panic: the task unwinds, the
\* permit is released and the connection is gone.
PopHypervisor(c) ==
  /\ pc[c] = "pop"
  /\ available # << >>
  /\ available' = Tail(available)
  /\ Set(c, [conn[c] EXCEPT !.hv = Head(available), !.engine = engine[Head(available)]])
  /\ Goto(c, "lookup")
  /\ UNCHANGED <<daemon, permits, returning, engine, engines, cache, up>>

PopPanics(c) ==
  /\ pc[c] = "pop"
  /\ available = << >>
  /\ permits' = permits + 1
  /\ Set(c, Quiet)
  /\ Goto(c, "closed")
  /\ UNCHANGED <<daemon, available, returning, engine, engines, cache, up>>

\* get_or_compile, first critical section
CacheHit(c) ==
  /\ pc[c] = "lookup"
  /\ LET wasm == conn[c].wasm IN
     /\ wasm \in DOMAIN map
     /\ order' = LET pos == SelectInSeq(order, LAMBDA h : h = wasm)
                 IN  Append(IF pos = 0 THEN order ELSE RemoveAt(order, pos), wasm)
     /\ Set(c, [conn[c] EXCEPT !.module = map[wasm]])
  /\ Goto(c, "swap")
  /\ UNCHANGED <<daemon, pool, engine, engines, map, up>>

CacheMiss(c) ==
  /\ pc[c] = "lookup"
  /\ conn[c].wasm \notin DOMAIN map
  /\ Goto(c, "compile")
  /\ UNCHANGED <<daemon, pool, engine, engines, cache, up, conn>>

\* Compiled outside the lock, for the engine read when the instance was
\* borrowed; bytes that do not compile end the request
CompileFails(c) ==
  /\ pc[c] = "compile"
  /\ Set(c, [conn[c] EXCEPT !.reply = "error"])
  /\ Goto(c, "drop")
  /\ UNCHANGED <<daemon, pool, engine, engines, cache, up>>

Compile(c) ==
  /\ pc[c] = "compile"
  /\ Set(c, [conn[c] EXCEPT !.module = conn[c].engine])
  /\ Goto(c, "insert")
  /\ UNCHANGED <<daemon, pool, engine, engines, cache, up>>

\* How many entries the eviction loop pops: it stops as soon as the map is
\* below the limit or the order is used up
Evicted ==
  LET left(n) == Cardinality(DOMAIN map \ Range(SubSeq(order, 1, n)))
  IN  CHOOSE n \in 0 .. Len(order) :
        /\ left(n) < MaxEntries \/ n = Len(order)
        /\ \A k \in 0 .. (n - 1) : left(k) >= MaxEntries

\* get_or_compile, second critical section: evict, then insert
Insert(c) ==
  /\ pc[c] = "insert"
  /\ LET wasm == conn[c].wasm
         kept == DOMAIN map \ Range(SubSeq(order, 1, Evicted))
     IN /\ map' = [w \in kept \cup {wasm} |->
                     IF w = wasm THEN conn[c].module ELSE map[w]]
        /\ order' = Append(SubSeq(order, Evicted + 1, Len(order)), wasm)
  /\ Goto(c, "swap")
  /\ UNCHANGED <<daemon, pool, engine, engines, up, conn>>

\* execute_tool_inner rebuilds the sandbox, with a new engine, when the fuel
\* budget of the tool is not the configured one (module AdaptiveFuel)
SwapSandbox(c) ==
  /\ pc[c] = "swap"
  /\ engines < MaxEngines
  /\ engines' = engines + 1
  /\ engine' = [engine EXCEPT ![conn[c].hv] = engines + 1]
  /\ Goto(c, "run")
  /\ UNCHANGED <<daemon, pool, cache, up, conn>>

KeepSandbox(c) ==
  /\ pc[c] = "swap"
  /\ Goto(c, "run")
  /\ UNCHANGED <<daemon, pool, engine, engines, cache, up, conn>>

\* wasmtime instantiates a module only in a store of the module's own engine
SameEngine(c) == conn[c].module = engine[conn[c].hv]

\* The run, or an error of the hypervisor instead of an output (the request
\* has no tokens for the tool, or its snapshot fails).  A request for a proof
\* capsule compiles its bytes again and leaves the cached module alone.
Execute(c) ==
  /\ pc[c] = "run"
  /\ \E reply \in {"error", IF conn[c].proof \/ SameEngine(c) THEN "executed" ELSE "invalid_module"} :
       Set(c, [conn[c] EXCEPT !.reply = reply])
  /\ Goto(c, "drop")
  /\ UNCHANGED <<daemon, pool, engine, engines, cache, up>>

\* Mutants of DropGuard: the instance is not returned after an error; nothing
\* is returned
DropGuardLeaks(c) ==
  /\ pc[c] = "drop"
  /\ returning' = IF conn[c].reply = "error" THEN returning
                  ELSE returning \cup {conn[c].hv}
  /\ Set(c, [conn[c] EXCEPT !.hv = NoHv])
  /\ Goto(c, "release")
  /\ UNCHANGED <<daemon, available, permits, engine, engines, cache, up>>

DropGuardNothing(c) ==
  /\ pc[c] = "drop"
  /\ Goto(c, "release")
  /\ UNCHANGED <<daemon, pool, engine, engines, cache, up, conn>>

\* PooledHypervisor::drop spawns the task that returns the instance; then
\* the guard's fields are dropped and with them the permit
DropGuard(c) ==
  /\ pc[c] = "drop"
  /\ returning' = returning \cup {conn[c].hv}
  /\ Set(c, [conn[c] EXCEPT !.hv = NoHv])
  /\ Goto(c, "release")
  /\ UNCHANGED <<daemon, available, permits, engine, engines, cache, up>>

ReleasePermit(c) ==
  /\ pc[c] = "release"
  /\ permits' = permits + 1
  /\ Goto(c, "reply")
  /\ UNCHANGED <<daemon, available, returning, engine, engines, cache, up, conn>>

\* The detached task
ReturnHypervisor(h) ==
  /\ up
  /\ h \in returning
  /\ returning' = returning \ {h}
  /\ available' = Append(available, h)
  /\ UNCHANGED <<daemon, permits, engine, engines, cache, up, pc, conn>>

\* Mutant of Reply: no frame is written for a request that failed
ReplyOnlyExecuted(c) ==
  /\ pc[c] = "reply"
  /\ conn[c].reply = "executed"
  /\ Set(c, Quiet)
  /\ Goto(c, "idle")
  /\ UNCHANGED <<daemon, pool, engine, engines, cache, up>>

\* write_frame, and the loop of handle_connection starts over
Reply(c) ==
  /\ pc[c] = "reply"
  /\ Set(c, Quiet)
  /\ Goto(c, "idle")
  /\ UNCHANGED <<daemon, pool, engine, engines, cache, up>>

\* The peer is gone when its answer is written
ReplyFails(c) ==
  /\ pc[c] = "reply"
  /\ Set(c, Quiet)
  /\ Goto(c, "closed")
  /\ UNCHANGED <<daemon, pool, engine, engines, cache, up>>

\* The peer closes the connection between two requests
Disconnect(c) ==
  /\ pc[c] = "idle"
  /\ Goto(c, "closed")
  /\ UNCHANGED <<daemon, pool, engine, engines, cache, up, conn>>

\* A Shutdown request ends the accept loop; `run` and then main return, and
\* the runtime drops every task at its await point
Shutdown(c, frame) ==
  /\ up
  /\ pc[c] = "idle"
  /\ frame.type = "shutdown" /\ ~Unauthorized(frame)
  /\ up' = FALSE
  /\ pc' = [d \in Conns |-> "closed"]
  /\ conn' = [d \in Conns |-> Quiet]
  /\ returning' = {}
  /\ UNCHANGED <<daemon, available, permits, engine, engines, cache>>

Serve(c) ==
  \/ AcquirePermit(c) \/ PopHypervisor(c) \/ PopPanics(c)
  \/ CacheHit(c) \/ CacheMiss(c) \/ CompileFails(c) \/ Compile(c) \/ Insert(c)
  \/ SwapSandbox(c) \/ KeepSandbox(c) \/ Execute(c)
  \/ DropGuard(c) \/ ReleasePermit(c) \/ Reply(c)

Next ==
  \/ \E c \in Conns :
       \/ \E frame \in Frames : Request(c, frame) \/ AnswerNow(c, frame) \/ Shutdown(c, frame)
       \/ Serve(c) \/ ReplyFails(c) \/ Disconnect(c)
  \/ \E h \in Hvs : ReturnHypervisor(h)

Spec == Init /\ [][Next]_vars

\* Tasks that can run are polled; the semaphore of tokio serves its waiters
\* first come, first served
Fairness ==
  /\ \A c \in Conns : WF_vars(Serve(c)) /\ SF_vars(AcquirePermit(c))
  /\ \A h \in Hvs : WF_vars(ReturnHypervisor(h))
FairSpec == Spec /\ Fairness

(***************************************************************************)
(* Properties.                                                             *)
(***************************************************************************)
Borrowing == {c \in Conns : conn[c].hv # NoHv}
Permitted == {c \in Conns : pc[c] \in {"pop", "lookup", "compile", "insert",
                                       "swap", "run", "drop", "release"}}

\* While the daemon is up no hypervisor is lost or handed to two requests:
\* each one is in the queue once, or borrowed by one connection, or on its
\* way back, whichever way its last request ended.
NoInstanceLost ==
  up => \A h \in Hvs :
          Cardinality({i \in DOMAIN available : available[i] = h})
        + Cardinality({c \in Borrowing : conn[c].hv = h})
        + (IF h \in returning THEN 1 ELSE 0) = 1

\* The queue is short of a permit holder's instance only while some instance
\* is on its way back: the shortage behind the panic is always transient.
ShortageIsTransient ==
  up => Len(available) + Cardinality(returning)
          = permits + Cardinality({c \in Conns : pc[c] \in {"pop", "release"}})

\* acquire's own assertion: "a permit implies an instance is available".
PermitImpliesInstance ==
  \A c \in Conns : pc[c] = "pop" => available # << >>

\* A request for bytes that compile is executed, whichever hypervisor serves
\* it and whoever compiled the module before.
CachedModuleRuns ==
  \A c \in Conns : conn[c].reply # "invalid_module"

\* Every request is answered, or its connection is closed.
RequestsAnswered ==
  \A c \in Conns : pc[c] = "acquire" ~> pc[c] \in {"idle", "closed"}
=============================================================================
