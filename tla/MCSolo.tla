------------------------------- MODULE MCSolo --------------------------------
(***************************************************************************)
(* Small instances of five components, for what holds only when calls do   *)
(* not overlap, or only in the end.  They share no state, so in a          *)
(* behaviour one of them, `focus', moves and the others stay as they were  *)
(* started.                                                                *)
(***************************************************************************)
EXTENDS AdaptiveFuel, RuntimeSnapshots

CONSTANTS t1, t2, a, b, h

VARIABLES
  focus,
  snapshots, index, diffs, totalSnapshots, totalRollbacks,
  disk, nextId, captured, managerPc, managerLoc,          \* SnapshotManager
  daemon, available, permits, returning, engine, engines, map,
  order, up, connPc, conn,                                \* DaemonPool
  source, db, dbUp, snap, snapAge, ticker, load, window,
  req, lastTrue, recent                                   \* TenantRegistry

Manager == INSTANCE SnapshotManager WITH
             Threads <- {t1, t2}, Pages <- {a, b}, Memories <- {<<a>>},
             Capacity <- 1, MaxDiffDepth <- 2, Persist <- FALSE,
             MaxIds <- 3, MaxRollbacks <- 1, pc <- managerPc, loc <- managerLoc

\* Two tools, and a request without the token.
Tool(wasm, token) == [type |-> "execute", token |-> token, bytes |-> wasm, path |-> 0, proof |-> FALSE]
Daemon == INSTANCE DaemonPool WITH
            Conns <- {t1, t2}, Hvs <- {h}, MaxEntries <- 1,
            Frames <- {Tool(a, TRUE), Tool(b, TRUE), Tool(b, FALSE), [type |-> "shutdown", token |-> TRUE]},
            Daemons <- {[token |-> TRUE, releaseBuild |-> TRUE, release |-> FALSE, profile |-> 0, dirs |-> {}]},
            MaxEngines <- 2, NoHv <- 0, pc <- connPc

Registry == INSTANCE TenantRegistry WITH
              Keys <- {a}, TenantOf <- [k \in {a} |-> "workspace"], Limits <- {0, 1},
              RefreshInterval <- 2, MaxStale <- 3, RefreshTimeout <- 1, RateWindow <- 2,
              DefaultLimit <- 1, MaxBacklog <- 1, NoKey <- b

managerVars == <<snapshots, index, diffs, totalSnapshots, totalRollbacks,
                 disk, nextId, captured, managerPc, managerLoc>>
daemonVars  == <<daemon, available, permits, returning, engine, engines, map, order,
                 up, connPc, conn>>
tenantVars  == <<source, db, dbUp, snap, snapAge, ticker, load, window, req, lastTrue,
                 recent>>
soloVars == <<focus, fuelVars, vars, managerVars, daemonVars, tenantVars>>

InFuel(A) ==
  focus = "fuel" /\ A /\ UNCHANGED <<focus, managerVars, vars, daemonVars, tenantVars>>
InManager(A) ==
  focus = "manager" /\ A /\ UNCHANGED <<focus, fuelVars, vars, daemonVars, tenantVars>>
InRuntime(A) ==
  focus = "runtime" /\ A /\ UNCHANGED <<focus, fuelVars, managerVars, daemonVars, tenantVars>>
InDaemon(A) ==
  focus = "daemon" /\ A /\ UNCHANGED <<focus, fuelVars, managerVars, vars, tenantVars>>
InTenants(A) ==
  focus = "tenants" /\ A /\ UNCHANGED <<focus, fuelVars, managerVars, vars, daemonVars>>

SoloInit ==
  /\ focus \in {"fuel", "manager", "runtime", "daemon", "tenants"}
  /\ FuelInit /\ Manager!Init /\ Init /\ Daemon!Init /\ Registry!TenantInit
  /\ focus # "tenants" => source = "postgres" /\ db = Registry!Empty /\ dbUp

SoloNext ==
  \/ InFuel(FuelNext) \/ InManager(Manager!Next) \/ InRuntime(Next)
  \/ InDaemon(Daemon!Next) \/ InTenants(Registry!TenantNext)

\* The fairness of AdaptiveFuel, SnapshotManager, DaemonPool and TenantRegistry.
\* Only one of them moves in a behaviour, so fairness of a disjunction of
\* actions of different components is fairness of each.
SoloFairness ==
  /\ WF_soloVars(InFuel(Proceed(t1)) \/ InManager(Manager!Step(t1))
                 \/ InDaemon(Daemon!Serve(t1)) \/ InTenants(Registry!RefreshStep))
  /\ WF_soloVars(InFuel(StartCall(t1)) \/ InManager(Manager!Step(t2))
                 \/ InDaemon(Daemon!Serve(t2)) \/ InTenants(Registry!RateLimit))
  /\ WF_soloVars(InDaemon(Daemon!ReturnHypervisor(h)) \/ InTenants(Registry!FinishRequest))
  /\ SF_soloVars(InManager(Manager!PushDiff(t1)) \/ InDaemon(Daemon!AcquirePermit(t1))
                 \/ InTenants(Registry!Tick))
  /\ SF_soloVars(InManager(Manager!PushDiff(t2)) \/ InDaemon(Daemon!AcquirePermit(t2))
                 \/ InTenants(Registry!QueryRows))
  /\ SF_soloVars(InTenants(Registry!RefreshFromSnapshot))

SoloSpec == SoloInit /\ [][SoloNext]_soloVars /\ SoloFairness

-----------------------------------------------------------------------------
\* A tool that was driven down by unmetered runs gets its full run again.
SoloBudgetRecovers == focus = "fuel" => BudgetRecovers

\* Every call of the snapshot manager returns.
CallsReturn == Manager!CallsReturn

\* Every request of the daemon is answered, or its connection is closed.
RequestsAnswered == Daemon!RequestsAnswered

\* A key the database keeps listing is accepted again and again.
RegistryRecovers == Registry!RegistryRecovers
==============================================================================
