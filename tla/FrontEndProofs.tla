--------------------------- MODULE FrontEndProofs ---------------------------
(***************************************************************************)
(* What is proved of the front ends around the server: the tenants of the  *)
(* HTTP front end, the profile a process starts from, the replay store of  *)
(* recall, and the daemon's pool.  The four share no state.                *)
(***************************************************************************)
EXTENDS TenantRegistry, ProfileManifest, RecallReplay, DaemonPool, ChainLemmas,
        FiniteSetTheorems, SequenceTheorems, TLAPS

(***************************************************************************)
(* The HTTP front end for any keys, tenants, limits and periods.           *)
(*                                                                         *)
(* How long a revoked key is admitted follows from three ages that move    *)
(* together: a row read by a query is as old as the query; a snapshot adds *)
(* its own age; and that age and what is left until the next refresh, or   *)
(* of the one under way, have a bounded sum.  How many requests a tenant   *)
(* gets follows from where the current window ends in the list of recent   *)
(* admissions.                                                             *)
(***************************************************************************)
AllLimits == Limits \cup {DefaultLimit}
RowsOK(rs) == DOMAIN rs \subseteq Keys /\ \A k \in DOMAIN rs : rs[k] \in AllLimits

\* The refresh in progress.
LoadOK ==
  \/ load = NoLoad
  \/ DOMAIN load = {"at", "left"} /\ load.at = "query" /\ load.left \in Nat
  \/ DOMAIN load = {"at", "left", "rows"} /\ load.at = "answer" /\ load.left \in Nat /\ RowsOK(load.rows)

RegistryShape ==
  /\ RowsOK(db) /\ RowsOK(snap) /\ LoadOK
  /\ req.at = "found" => req.key \in Keys /\ req.limit \in AllLimits

-----------------------------------------------------------------------------
LEMMA RowsAreOK == \A rs \in Rows : RowsOK(rs)
<1> SUFFICES ASSUME NEW rs \in Rows PROVE RowsOK(rs)
  OBVIOUS
<1>1. PICK S \in SUBSET Keys : rs \in [S -> Limits]
  BY DEF Rows
<1> QED BY <1>1 DEF RowsOK, AllLimits

LEMMA EmptyIsOK == RowsOK(Empty) /\ DOMAIN Empty = {}
BY DEF RowsOK, Empty

LEMMA IdleLoad == NoLoad.at = "idle" /\ (LoadOK /\ load.at = "idle" => load = NoLoad)
BY DEF NoLoad, LoadOK

LEMMA NoRequestAt == NoRequest.at = "none"
BY DEF NoRequest

LEMMA ShapeInit == TenantInit => RegistryShape
<1> SUFFICES ASSUME TenantInit PROVE RegistryShape
  OBVIOUS
<1>1. RowsOK(db) /\ req.at = "none"
  BY RowsAreOK, NoRequestAt DEF TenantInit
<1>2. RowsOK(snap)
  BY <1>1, EmptyIsOK DEF TenantInit, RowsOK, AllLimits
<1>3. LoadOK
  BY RegistryConfig DEF TenantInit, LoadOK
<1> QED BY <1>1, <1>2, <1>3 DEF RegistryShape

\* Budget is a period the timer can count down.
LEMMA BudgetBounds ==
  ASSUME NEW rs, NEW age \in Int, age >= Never
  PROVE  /\ Budget(rs, age) \in Nat /\ Budget(rs, age) <= RefreshTimeout
         /\ DOMAIN rs # {} /\ age # Never /\ age < MaxStale => age + Budget(rs, age) <= MaxStale
<1>1. DOMAIN rs # {} => rs # Empty
  BY EmptyIsOK
<1>2. MaxStale \in Nat /\ RefreshTimeout \in Nat
  BY RegistryConfig
<1> QED BY <1>1, <1>2 DEF Budget, Never

LEMMA ShapeNext ==
  ASSUME RegistryShape, [TenantNext]_tenantVars, snapAge \in Int, snapAge >= Never
  PROVE  RegistryShape'
<1> USE DEF RegistryShape
<1>1. CASE DbChange
  BY <1>1, RowsAreOK DEF DbChange, LoadOK
<1>2. CASE DbUpDown
  BY <1>2 DEF DbUpDown, LoadOK
<1>3. CASE StartRefresh
  <2>1. RowsOK(snap') /\ snapAge' \in Int /\ snapAge' >= Never
    BY <1>3, EmptyIsOK DEF StartRefresh, ClearIfStale, Never
  <2>2. Budget(snap', snapAge') \in Nat
    BY <2>1, BudgetBounds
  <2>3. LoadOK'
    BY <1>3, <2>2 DEF StartRefresh, LoadOK
  <2> QED BY <1>3, <2>1, <2>3 DEF StartRefresh
<1>4. CASE QueryRows
  <2>1. load.left \in Nat
    BY <1>4, IdleLoad DEF QueryRows, LoadOK
  <2>2. LoadOK'
    BY <1>4, <2>1 DEF QueryRows, LoadOK
  <2> QED BY <1>4, <2>2 DEF QueryRows
<1>5. CASE RefreshFromSnapshot
  <2>1. RowsOK(load.rows) /\ LoadOK'
    BY <1>5, IdleLoad DEF RefreshFromSnapshot, LoadOK
  <2> QED BY <1>5, <2>1 DEF RefreshFromSnapshot
<1>6. CASE RefreshFails
  BY <1>6, EmptyIsOK DEF RefreshFails, LoadOK, ClearIfStale
<1>7. CASE PassOpen \/ Reject
  BY <1>7 DEF PassOpen, Reject, LoadOK
<1>8. CASE Lookup
  BY <1>8 DEF Lookup, LoadOK, RowsOK
<1>9. CASE RateLimit
  <2>1. req'.at \in {"limited", "admitted"}
    BY <1>9 DEF RateLimit
  <2> QED BY <1>9, <2>1 DEF RateLimit, LoadOK
<1>10. CASE FinishRequest
  BY <1>10, NoRequestAt DEF FinishRequest, LoadOK
<1>11. CASE Tick
  <2>1. LoadOK'
    <3>1. CASE load.at = "idle"
      BY <1>11, <3>1, IdleLoad DEF Tick, LoadOK
    <3>2. CASE load.at # "idle"
      <4>1. load' = [load EXCEPT !.left = @ - 1] /\ load.left > 0
        BY <1>11, <3>2 DEF Tick
      <4>2. load.left \in Nat /\ "left" \in DOMAIN load /\ load # NoLoad
        BY <3>2, IdleLoad DEF LoadOK
      <4>3. load.left - 1 \in Nat
        BY <4>1, <4>2
      <4> QED BY <4>1, <4>2, <4>3 DEF LoadOK
    <3> QED BY <3>1, <3>2
  <2> QED BY <1>11, <2>1 DEF Tick
<1>12. CASE UNCHANGED tenantVars
  BY <1>12 DEF tenantVars, LoadOK
<1> QED BY <1>1, <1>2, <1>3, <1>4, <1>5, <1>6, <1>7, <1>8, <1>9, <1>10, <1>11, <1>12
     DEF TenantNext, RefreshStep, RequestStep

-----------------------------------------------------------------------------
Ages == ticker \in Int /\ snapAge \in Int /\ snapAge >= Never /\ lastTrue \in [Keys -> Nat]

\* The refresh loop evicts a snapshot in time: what is left of its life covers
\* the refresh under way, or the wait for the next one.
TimersOK ==
  /\ ticker <= RefreshInterval \/ ticker = NotStarted
  /\ DOMAIN snap # {} => snapAge # Never
  /\ load.at = "idle" =>
       /\ ticker # NotStarted
       /\ DOMAIN snap # {} => /\ snapAge < MaxStale + RefreshInterval
                              /\ snapAge + ticker < MaxStale + RefreshInterval
  /\ load.at # "idle" =>
       /\ load.left <= RefreshTimeout
       /\ DOMAIN snap # {} => snapAge + load.left <= MaxStale

\* A key in an answer was listed when the query ran, and one in the snapshot
\* when the query that filled it did.
RowsFresh ==
  /\ \A k \in DOMAIN db : lastTrue[k] = 0
  /\ load.at = "answer" => \A k \in DOMAIN load.rows : lastTrue[k] + load.left <= RefreshTimeout
  /\ \A k \in DOMAIN snap : lastTrue[k] <= snapAge + RefreshTimeout

RequestFresh ==
  req.at \in {"found", "admitted"} =>
    req.key \in Keys /\ lastTrue[req.key] < MaxStale + RefreshInterval + RefreshTimeout

ExpiryInv ==
  RegistryShape /\ Ages /\ (source = "postgres" => TimersOK /\ RowsFresh /\ RequestFresh)

LEMMA Periods ==
  /\ RefreshInterval \in Nat /\ RefreshTimeout \in Nat /\ MaxStale \in Nat
  /\ RefreshInterval > 0 /\ RefreshTimeout > 0 /\ MaxStale > 0
  /\ NotStarted = RefreshInterval + 1 /\ Never = -1
  /\ Forever = MaxStale + RefreshInterval + RefreshTimeout + 1
BY RegistryConfig DEF PeriodsAccepted, NotStarted, Never, Forever

LEMMA ExpiryInit == TenantInit => ExpiryInv
<1> SUFFICES ASSUME TenantInit PROVE ExpiryInv
  OBVIOUS
<1>1. RegistryShape
  BY ShapeInit
<1>2. Ages
  BY Periods DEF TenantInit, Ages
<1>3. ASSUME source = "postgres" PROVE TimersOK /\ RowsFresh /\ RequestFresh
  <2>1. snap = Empty /\ load = [at |-> "query", left |-> RefreshTimeout] /\ ticker = NotStarted
        /\ req.at = "none" /\ lastTrue = [k \in Keys |-> IF k \in DOMAIN db THEN 0 ELSE Forever]
    BY <1>3, NoRequestAt DEF TenantInit
  <2>2. load.at = "query" /\ load.left = RefreshTimeout /\ DOMAIN snap = {}
    BY <2>1, EmptyIsOK
  <2>3. \A k \in DOMAIN db : lastTrue[k] = 0
    BY <1>1, <2>1 DEF RegistryShape, RowsOK
  <2> QED BY <2>1, <2>2, <2>3, Periods DEF TimersOK, RowsFresh, RequestFresh
<1> QED BY <1>1, <1>2, <1>3 DEF ExpiryInv

\* Requests, and changes of the database, move no age.
LEMMA ExpiryUntimed ==
  ASSUME ExpiryInv, DbChange \/ DbUpDown \/ QueryRows \/ RequestStep, RegistryShape'
  PROVE  ExpiryInv'
<1>1. CASE DbChange
  <2>1. PICK rs \in Rows : db' = rs
               /\ lastTrue' = [k \in Keys |-> IF k \in DOMAIN rs THEN 0 ELSE lastTrue[k]]
    BY <1>1 DEF DbChange
  <2>2. UNCHANGED <<source, dbUp, snap, snapAge, ticker, load, window, req, recent>> /\ RowsOK(rs)
    BY <1>1, RowsAreOK DEF DbChange
  <2>3. lastTrue \in [Keys -> Nat] /\ RowsOK(snap) /\ LoadOK
    BY DEF ExpiryInv, Ages, RegistryShape
  <2>4. \A k \in Keys : lastTrue'[k] \in Nat /\ lastTrue'[k] <= lastTrue[k]
    BY <2>1, <2>3
  <2>5. Ages'
    BY <2>1, <2>2, <2>3 DEF ExpiryInv, Ages
  <2>6. ASSUME source' = "postgres" PROVE TimersOK' /\ RowsFresh' /\ RequestFresh'
    <3>1. source = "postgres" /\ TimersOK /\ RowsFresh /\ RequestFresh
      BY <2>2, <2>6 DEF ExpiryInv
    <3>2. TimersOK'
      BY <2>2, <3>1 DEF TimersOK
    <3>3. \A k \in DOMAIN db' : lastTrue'[k] = 0
      BY <2>1, <2>2 DEF RowsOK
    <3>4. ASSUME load.at = "answer", NEW k \in DOMAIN load.rows
          PROVE  lastTrue'[k] + load.left <= RefreshTimeout
      <4>1. k \in Keys /\ load.left \in Nat
        BY <2>3, <3>4, IdleLoad DEF LoadOK, RowsOK
      <4>2. lastTrue[k] + load.left <= RefreshTimeout
        BY <3>1, <3>4 DEF RowsFresh
      <4> QED BY <2>3, <2>4, <4>1, <4>2, Periods
    <3>5. ASSUME NEW k \in DOMAIN snap PROVE lastTrue'[k] <= snapAge + RefreshTimeout
      <4>1. k \in Keys /\ lastTrue[k] <= snapAge + RefreshTimeout /\ snapAge \in Int
        BY <2>3, <3>1 DEF RowsOK, RowsFresh, ExpiryInv, Ages
      <4> QED BY <2>3, <2>4, <4>1, Periods
    <3>6. RowsFresh'
      BY <2>2, <3>3, <3>4, <3>5 DEF RowsFresh
    <3>7. RequestFresh'
      BY <2>2, <2>3, <2>4, <3>1, Periods DEF RequestFresh
    <3> QED BY <3>2, <3>6, <3>7
  <2> QED BY <2>5, <2>6 DEF ExpiryInv
<1>2. CASE DbUpDown
  BY <1>2 DEF DbUpDown, ExpiryInv, Ages, TimersOK, RowsFresh, RequestFresh
<1>3. CASE QueryRows
  <2>1. load' = [at |-> "answer", left |-> load.left, rows |-> db] /\ load.at = "query"
        /\ UNCHANGED <<source, db, dbUp, snap, snapAge, ticker, window, req, lastTrue, recent>>
    BY <1>3 DEF QueryRows
  <2>2. load'.at = "answer" /\ load'.left = load.left /\ load'.rows = db /\ load.left \in Nat
    BY <2>1, IdleLoad DEF ExpiryInv, RegistryShape, LoadOK
  <2>3. Ages'
    BY <2>1 DEF ExpiryInv, Ages
  <2>4. ASSUME source' = "postgres" PROVE TimersOK' /\ RowsFresh' /\ RequestFresh'
    <3>1. TimersOK /\ RowsFresh /\ RequestFresh
      BY <2>1, <2>4 DEF ExpiryInv
    <3>2. TimersOK' /\ RequestFresh'
      BY <2>1, <2>2, <3>1 DEF TimersOK, RequestFresh
    <3>3. RowsFresh'
      BY <2>1, <2>2, <3>1, Periods DEF RowsFresh, TimersOK
    <3> QED BY <3>2, <3>3
  <2> QED BY <2>3, <2>4 DEF ExpiryInv
<1>4. CASE RequestStep
  <2>1. UNCHANGED <<source, db, snap, snapAge, ticker, load, lastTrue>>
    BY <1>4 DEF RequestStep, PassOpen, Reject, Lookup, RateLimit, FinishRequest
  <2>2. Ages'
    BY <2>1 DEF ExpiryInv, Ages
  <2>3. ASSUME source = "postgres" PROVE TimersOK' /\ RowsFresh' /\ RequestFresh'
    <3>1. TimersOK /\ RowsFresh /\ RequestFresh
      BY <2>3 DEF ExpiryInv
    <3>2. TimersOK' /\ RowsFresh'
      BY <2>1, <3>1 DEF TimersOK, RowsFresh
    <3>3. CASE PassOpen \/ Reject \/ FinishRequest
      <4>1. req'.at \in {"denied", "none"}
        BY <2>3, <3>3, NoRequestAt DEF PassOpen, Reject, FinishRequest
      <4> QED BY <3>2, <4>1 DEF RequestFresh
    <3>4. CASE Lookup
      <4>1. PICK k \in DOMAIN snap : req' = [at |-> "found", key |-> k, limit |-> snap[k]]
        BY <3>4 DEF Lookup
      <4>2. k \in Keys /\ lastTrue[k] \in Nat /\ lastTrue[k] <= snapAge + RefreshTimeout
            /\ snapAge \in Int /\ ticker \in Int
        BY <3>1 DEF ExpiryInv, Ages, RegistryShape, RowsOK, RowsFresh
      <4>3. load.at # "idle" => load.left \in Nat
        BY DEF ExpiryInv, RegistryShape, LoadOK, NoLoad
      <4>4. snapAge < MaxStale + RefreshInterval
        <5>1. CASE load.at = "idle"
          BY <3>1, <4>1, <4>2, <5>1, Periods DEF TimersOK
        <5>2. CASE load.at # "idle"
          <6>1. snapAge + load.left <= MaxStale /\ load.left \in Nat
            BY <3>1, <4>1, <4>3, <5>2 DEF TimersOK
          <6> QED BY <4>2, <6>1, Periods
        <5> QED BY <5>1, <5>2
      <4>5. lastTrue[k] < MaxStale + RefreshInterval + RefreshTimeout
        BY <4>2, <4>4, Periods
      <4>6. req'.key = k
        BY <4>1
      <4>7. RequestFresh'
        BY <2>1, <4>2, <4>5, <4>6 DEF RequestFresh
      <4> QED BY <3>2, <4>7
    <3>5. CASE RateLimit
      <4>1. req.at = "found" /\ (req'.at = "limited" \/ (req'.at = "admitted" /\ req'.key = req.key))
        BY <3>5 DEF RateLimit
      <4>2. RequestFresh'
        BY <2>1, <3>1, <4>1 DEF RequestFresh
      <4> QED BY <3>2, <4>2
    <3> QED BY <1>4, <3>3, <3>4, <3>5 DEF RequestStep
  <2> QED BY <2>1, <2>2, <2>3 DEF ExpiryInv
<1> QED BY <1>1, <1>2, <1>3, <1>4

\* clear_if_stale keeps a snapshot only while it is young.
LEMMA ClearedIfStale ==
  ASSUME Ages, ClearIfStale
  PROVE  /\ snapAge' \in Int /\ snapAge' >= Never
         /\ DOMAIN snap' # {} => /\ UNCHANGED <<snap, snapAge>>
                                 /\ snapAge = Never \/ snapAge < MaxStale
         /\ DOMAIN snap' # {} => DOMAIN snap # {}
<1>1. CASE Stale
  BY <1>1, EmptyIsOK, Periods DEF ClearIfStale
<1>2. CASE ~Stale
  BY <1>2, Periods DEF ClearIfStale, Stale, Ages
<1> QED BY <1>1, <1>2

LEMMA SumBelow == \A a, b, c, d \in Int : a < c /\ b <= d => a + b < c + d
OBVIOUS

LEMMA ExpiryRefresh ==
  ASSUME ExpiryInv, StartRefresh \/ RefreshFromSnapshot \/ RefreshFails, RegistryShape'
  PROVE  ExpiryInv'
<1>1. Ages /\ RowsOK(snap) /\ LoadOK /\ UNCHANGED <<source, db, req, lastTrue>>
  BY DEF ExpiryInv, RegistryShape, StartRefresh, RefreshFromSnapshot, RefreshFails
<1>2. CASE StartRefresh
  <2>1. /\ source = "postgres" /\ load.at = "idle" /\ ticker <= 0 /\ ticker' = ticker + RefreshInterval
        /\ ClearIfStale /\ load' = [at |-> "query", left |-> Budget(snap', snapAge')]
    BY <1>2 DEF StartRefresh
  <2>2. TimersOK /\ RowsFresh /\ RequestFresh
    BY <2>1 DEF ExpiryInv
  <2>3. /\ snapAge' \in Int /\ snapAge' >= Never
        /\ DOMAIN snap' # {} => /\ snap' = snap /\ snapAge' = snapAge /\ DOMAIN snap # {}
                                /\ snapAge = Never \/ snapAge < MaxStale
    BY <1>1, <2>1, ClearedIfStale
  <2>4. load'.at = "query" /\ load'.left = Budget(snap', snapAge')
    BY <2>1
  <2>5. /\ load'.left \in Nat /\ load'.left <= RefreshTimeout
        /\ DOMAIN snap' # {} /\ snapAge' # Never /\ snapAge' < MaxStale => snapAge' + load'.left <= MaxStale
    BY <2>3, <2>4, BudgetBounds
  <2>6. ticker' \in Int /\ ticker' <= RefreshInterval
    BY <1>1, <2>1, Periods DEF Ages
  <2>7. Ages'
    BY <1>1, <2>3, <2>6, Periods DEF Ages
  <2>8. DOMAIN snap' # {} => snapAge' # Never /\ snapAge' + load'.left <= MaxStale
    BY <2>2, <2>3, <2>5 DEF TimersOK
  <2>9. TimersOK'
    BY <2>4, <2>5, <2>6, <2>8, Periods DEF TimersOK
  <2>10. RowsFresh'
    <3>1. \A k \in DOMAIN snap' : lastTrue[k] <= snapAge' + RefreshTimeout
      BY <2>2, <2>3 DEF RowsFresh
    <3> QED BY <1>1, <2>2, <2>4, <3>1 DEF RowsFresh
  <2>11. RequestFresh'
    BY <1>1, <2>2 DEF RequestFresh
  <2> QED BY <2>7, <2>9, <2>10, <2>11 DEF ExpiryInv
<1>3. LoopRuns /\ Ages => /\ ticker' \in Int
                          /\ (ticker <= RefreshInterval \/ ticker = NotStarted) => ticker' <= RefreshInterval
  BY Periods DEF LoopRuns, Serving, Ages
<1>4. CASE RefreshFromSnapshot
  <2>1. /\ load.at = "answer" /\ snap' = load.rows /\ snapAge' = 0 /\ load' = NoLoad /\ LoopRuns
    BY <1>4 DEF RefreshFromSnapshot
  <2>2. Ages'
    BY <1>1, <1>3, <2>1, Periods DEF Ages
  <2>3. ASSUME source = "postgres" PROVE TimersOK' /\ RowsFresh' /\ RequestFresh'
    <3>1. TimersOK /\ RowsFresh /\ RequestFresh
      BY <2>3 DEF ExpiryInv
    <3>2. load.left \in Nat /\ RowsOK(load.rows) /\ load'.at = "idle"
      BY <1>1, <2>1, IdleLoad DEF LoadOK
    <3>4. ticker' \in Int /\ ticker' <= RefreshInterval
      BY <1>1, <1>3, <2>1, <3>1 DEF TimersOK
    <3>5. TimersOK'
      <4>1. ticker' # NotStarted /\ snapAge' # Never
        BY <2>1, <3>4, Periods
      <4>2. snapAge' \in Int /\ snapAge' < MaxStale /\ MaxStale \in Int /\ RefreshInterval \in Int
        BY <2>1, Periods
      <4>3. snapAge' < MaxStale + RefreshInterval
        BY <4>2, Periods
      <4>4. snapAge' + ticker' < MaxStale + RefreshInterval
        BY <3>4, <4>2, SumBelow
      <4> QED BY <3>2, <3>4, <4>1, <4>3, <4>4 DEF TimersOK
    <3>6. \A k \in DOMAIN load.rows : lastTrue[k] <= 0 + RefreshTimeout
      <4> SUFFICES ASSUME NEW k \in DOMAIN load.rows PROVE lastTrue[k] <= 0 + RefreshTimeout
        OBVIOUS
      <4>1. k \in Keys /\ lastTrue[k] + load.left <= RefreshTimeout
        BY <2>1, <3>1, <3>2 DEF RowsFresh, RowsOK
      <4>2. lastTrue[k] \in Nat
        BY <1>1, <4>1 DEF Ages
      <4> QED BY <3>2, <4>1, <4>2, Periods
    <3>7. RowsFresh'
      BY <1>1, <2>1, <3>1, <3>2, <3>6 DEF RowsFresh
    <3>8. RequestFresh'
      BY <1>1, <3>1 DEF RequestFresh
    <3> QED BY <3>5, <3>7, <3>8
  <2> QED BY <1>1, <2>2, <2>3 DEF ExpiryInv
<1>5. CASE RefreshFails
  <2>1. ClearIfStale /\ load' = NoLoad /\ LoopRuns /\ load.at \in {"query", "answer"}
    BY <1>5 DEF RefreshFails
  <2>2. /\ snapAge' \in Int /\ snapAge' >= Never
        /\ DOMAIN snap' # {} => /\ snap' = snap /\ snapAge' = snapAge /\ DOMAIN snap # {}
                                /\ snapAge = Never \/ snapAge < MaxStale
    BY <1>1, <2>1, ClearedIfStale
  <2>3. Ages'
    BY <1>1, <1>3, <2>1, <2>2 DEF Ages
  <2>4. ASSUME source = "postgres" PROVE TimersOK' /\ RowsFresh' /\ RequestFresh'
    <3>1. TimersOK /\ RowsFresh /\ RequestFresh
      BY <2>4 DEF ExpiryInv
    <3>2. load.left \in Nat /\ load'.at = "idle"
      BY <1>1, <2>1, IdleLoad DEF LoadOK
    <3>4. ticker' \in Int /\ ticker' <= RefreshInterval
      BY <1>1, <1>3, <2>1, <3>1 DEF TimersOK
    <3>5. DOMAIN snap' # {} => snapAge' # Never /\ snapAge' < MaxStale
      BY <2>2, <3>1 DEF TimersOK
    <3>6. TimersOK'
      <4>1. ticker' # NotStarted
        BY <3>4, Periods
      <4>2. MaxStale \in Int /\ RefreshInterval \in Int
        BY Periods
      <4>3. DOMAIN snap' # {} => snapAge' < MaxStale + RefreshInterval
        BY <2>2, <3>5, <4>2, Periods
      <4>4. DOMAIN snap' # {} => snapAge' + ticker' < MaxStale + RefreshInterval
        BY <2>2, <3>4, <3>5, <4>2, SumBelow
      <4> QED BY <3>2, <3>4, <3>5, <4>1, <4>3, <4>4 DEF TimersOK
    <3>7. \A k \in DOMAIN snap' : lastTrue[k] <= snapAge' + RefreshTimeout
      BY <2>2, <3>1 DEF RowsFresh
    <3>8. RowsFresh'
      BY <1>1, <3>1, <3>2, <3>7 DEF RowsFresh
    <3>9. RequestFresh'
      BY <1>1, <3>1 DEF RequestFresh
    <3> QED BY <3>6, <3>8, <3>9
  <2> QED BY <1>1, <2>3, <2>4 DEF ExpiryInv
<1> QED BY <1>2, <1>4, <1>5

LEMMA ExpiryTick ==
  ASSUME ExpiryInv, Tick, RegistryShape'
  PROVE  ExpiryInv'
<1>1. Ages /\ RowsOK(snap) /\ RowsOK(db) /\ LoadOK /\ UNCHANGED <<source, db, snap, req>> /\ req = NoRequest
  BY DEF ExpiryInv, RegistryShape, Tick
<1>2. \A k \in Keys : /\ lastTrue'[k] \in Nat /\ lastTrue'[k] <= lastTrue[k] + 1
                      /\ k \in DOMAIN db => lastTrue'[k] = 0
  BY <1>1 DEF Tick, Older, Ages
<1>3. Ages'
  <2>1. ticker' \in Int /\ snapAge' \in Int /\ snapAge' >= Never
    BY <1>1, Periods DEF Tick, Older, Ages
  <2>2. lastTrue' = [k \in Keys |-> lastTrue'[k]]
    BY DEF Tick
  <2> QED BY <1>2, <2>1, <2>2 DEF Ages
<1>4. ASSUME source = "postgres" PROVE TimersOK' /\ RowsFresh' /\ RequestFresh'
  <2>1. TimersOK /\ RowsFresh
    BY <1>4 DEF ExpiryInv
  <2>2. load.at # "idle" => load.left \in Nat /\ load.left > 0 /\ load'.at = load.at
                            /\ load'.left = load.left - 1 /\ (load.at = "answer" => load'.rows = load.rows)
    <3> SUFFICES ASSUME load.at # "idle"
                 PROVE  load.left \in Nat /\ load.left > 0 /\ load'.at = load.at
                        /\ load'.left = load.left - 1 /\ (load.at = "answer" => load'.rows = load.rows)
      OBVIOUS
    <3>1. load' = [load EXCEPT !.left = @ - 1] /\ load.left > 0
      BY DEF Tick
    <3> QED BY <1>1, <3>1, IdleLoad DEF LoadOK
  <2>3. load.at = "idle" => load' = load /\ ticker > 0
    BY <1>1, <1>4 DEF Tick, Ages
  <2>4. ticker' = IF ticker # NotStarted THEN ticker - 1 ELSE ticker
    BY <1>4 DEF Tick, Serving
  <2>5. DOMAIN snap # {} => snapAge' = snapAge + 1 /\ snapAge >= 0
    <3> SUFFICES ASSUME DOMAIN snap # {} PROVE snapAge' = snapAge + 1 /\ snapAge >= 0
      OBVIOUS
    <3>1. snapAge # Never /\ snapAge >= 0
      BY <1>1, <2>1, Periods DEF TimersOK, Ages
    <3>2. snapAge < Forever
      <4>1. CASE load.at = "idle"
        BY <1>1, <2>1, <4>1, Periods DEF TimersOK, Ages
      <4>2. CASE load.at # "idle"
        <5>1. snapAge + load.left <= MaxStale /\ load.left \in Nat
          BY <2>1, <2>2, <4>2 DEF TimersOK
        <5> QED BY <1>1, <5>1, Periods DEF Ages
      <4> QED BY <4>1, <4>2
    <3> QED BY <3>1, <3>2 DEF Tick, Older
  <2>6. TimersOK'
    <3>1. ticker' <= RefreshInterval \/ ticker' = NotStarted
      BY <1>1, <2>1, <2>4, Periods DEF TimersOK, Ages
    <3>2. DOMAIN snap' # {} => snapAge' # Never
      BY <1>1, <2>5, Periods DEF Ages
    <3>3. CASE load.at = "idle"
      <4>1. ticker # NotStarted /\ ticker <= RefreshInterval /\ ticker > 0
            /\ (DOMAIN snap # {} => snapAge + ticker < MaxStale + RefreshInterval)
        BY <2>1, <2>3, <3>3 DEF TimersOK
      <4>2. ticker' # NotStarted /\ ticker' >= 0
        BY <1>1, <2>4, <4>1, Periods DEF Ages
      <4>3. DOMAIN snap # {} => /\ snapAge' < MaxStale + RefreshInterval
                                /\ snapAge' + ticker' < MaxStale + RefreshInterval
        BY <1>1, <2>4, <2>5, <4>1, Periods DEF Ages
      <4> QED BY <1>1, <2>3, <3>1, <3>2, <3>3, <4>2, <4>3 DEF TimersOK
    <3>4. CASE load.at # "idle"
      <4>1. /\ load.left <= RefreshTimeout
            /\ DOMAIN snap # {} => snapAge + load.left <= MaxStale
        BY <2>1, <3>4 DEF TimersOK
      <4>2. load'.left <= RefreshTimeout
        BY <2>2, <3>4, <4>1, Periods
      <4>3. DOMAIN snap # {} => snapAge' + load'.left <= MaxStale
        BY <1>1, <2>2, <2>5, <3>4, <4>1, Periods DEF Ages
      <4> QED BY <1>1, <2>2, <3>1, <3>2, <3>4, <4>2, <4>3 DEF TimersOK
    <3> QED BY <3>3, <3>4
  <2>7. RowsFresh'
    <3>1. \A k \in DOMAIN db' : lastTrue'[k] = 0
      BY <1>1, <1>2 DEF RowsOK
    <3>2. ASSUME NEW k \in DOMAIN snap PROVE lastTrue'[k] <= snapAge' + RefreshTimeout
      <4>1. k \in Keys /\ lastTrue[k] <= snapAge + RefreshTimeout /\ snapAge' = snapAge + 1
        BY <1>1, <2>1, <2>5 DEF RowsOK, RowsFresh
      <4>2. lastTrue[k] \in Nat /\ snapAge \in Int
        BY <1>1, <4>1 DEF Ages
      <4> QED BY <1>2, <4>1, <4>2, Periods
    <3>3. ASSUME load.at = "answer", NEW k \in DOMAIN load.rows
          PROVE  lastTrue'[k] + load'.left <= RefreshTimeout
      <4>1. k \in Keys /\ lastTrue[k] + load.left <= RefreshTimeout
        BY <1>1, <2>1, <3>3, IdleLoad DEF LoadOK, RowsOK, RowsFresh
      <4>2. lastTrue[k] \in Nat /\ load.left \in Nat /\ load'.left = load.left - 1
        BY <1>1, <2>2, <3>3, <4>1 DEF Ages
      <4> QED BY <1>2, <4>1, <4>2, Periods
    <3>4. load'.at = "answer" => load.at = "answer" /\ load'.rows = load.rows
      BY <2>2, <2>3
    <3> QED BY <1>1, <3>1, <3>2, <3>3, <3>4 DEF RowsFresh
  <2>8. RequestFresh'
    BY <1>1, NoRequestAt DEF RequestFresh
  <2> QED BY <2>6, <2>7, <2>8
<1> QED BY <1>1, <1>3, <1>4 DEF ExpiryInv

LEMMA ExpiryNext == ExpiryInv /\ [TenantNext]_tenantVars => ExpiryInv'
<1> SUFFICES ASSUME ExpiryInv, [TenantNext]_tenantVars PROVE ExpiryInv'
  OBVIOUS
<1>1. RegistryShape'
  BY ShapeNext DEF ExpiryInv, Ages
<1>2. CASE TenantNext
  BY <1>1, <1>2, ExpiryUntimed, ExpiryRefresh, ExpiryTick DEF TenantNext, RefreshStep
<1>3. CASE UNCHANGED tenantVars
  BY <1>1, <1>3 DEF tenantVars, ExpiryInv, Ages, TimersOK, RowsFresh, RequestFresh
<1> QED BY <1>2, <1>3

\* For every choice of the three periods that the server starts with: a key
\* that is gone from the database is admitted for less than their sum.
THEOREM RevokedKeysAlwaysExpire == TenantSpec => []RevokedKeyExpires
<1>1. ExpiryInv => RevokedKeyExpires
  BY DEF ExpiryInv, RequestFresh, RevokedKeyExpires
<1> QED BY ExpiryInit, ExpiryNext, <1>1, PTL DEF TenantSpec

-----------------------------------------------------------------------------
TopLimit == Max(Limits \cup {DefaultLimit})

\* A tenant's window and its recent admissions, newest first: those beyond the
\* window's count are from before it was opened, and there are no more of them
\* than one window admits.
RateOK(w, ages) ==
  /\ DOMAIN w = {"age", "count"} /\ w.age \in Nat /\ w.age <= RateWindow
  /\ w.count \in Nat /\ w.count <= TopLimit
  /\ ages \in Seq(Nat) /\ \A i \in 1..Len(ages) : ages[i] < RateWindow
  /\ \A i, j \in 1..Len(ages) : i <= j => ages[i] <= ages[j]
  /\ \A i \in 1..Len(ages) : i > w.count => ages[i] >= w.age
  /\ Len(ages) <= w.count + TopLimit

RateInv ==
  /\ ExpiryInv /\ DOMAIN window = Tenants /\ DOMAIN recent = Tenants
  /\ \A t \in Tenants : RateOK(window[t], recent[t])

LEMMA TopIsTop == TopLimit \in Nat /\ \A l \in AllLimits : l \in Nat /\ l <= TopLimit
<1>1. AllLimits \subseteq Nat
  BY RegistryConfig DEF AllLimits
<1>2. TopLimit \in AllLimits /\ \A l \in AllLimits : TopLimit >= l
  BY LimitsAreBounded DEF TopLimit, Max, AllLimits
<1> QED BY <1>1, <1>2

LEMMA NewWindow ==
  ASSUME NEW w, NEW ages, RateOK(w, ages), w.age >= RateWindow
  PROVE  RateOK([age |-> 0, count |-> 0], ages)
<1>1. /\ w.age \in Nat /\ w.count \in Nat /\ w.count <= TopLimit /\ ages \in Seq(Nat) /\ Len(ages) \in Nat
      /\ \A i \in 1..Len(ages) : ages[i] \in Nat /\ ages[i] < RateWindow /\ (i > w.count => ages[i] >= w.age)
  BY DEF RateOK
<1>2. RateWindow \in Nat /\ TopLimit \in Nat
  BY RegistryConfig, TopIsTop
<1>3. Len(ages) <= w.count
  <2> SUFFICES ASSUME Len(ages) > w.count PROVE FALSE
    BY <1>1
  <2>1. Len(ages) \in 1..Len(ages)
    BY <1>1
  <2>2. ages[Len(ages)] >= w.age /\ ages[Len(ages)] < RateWindow /\ ages[Len(ages)] \in Nat
    BY <1>1, <2>1
  <2> QED BY <1>1, <1>2, <2>2
<1> DEFINE n == [age |-> 0, count |-> 0]
<1>4. DOMAIN n = {"age", "count"} /\ n.age = 0 /\ n.count = 0
  OBVIOUS
<1> HIDE DEF n
<1>5. Len(ages) <= 0 + TopLimit
  BY <1>1, <1>2, <1>3
<1>6. RateOK(n, ages)
  BY <1>1, <1>2, <1>4, <1>5 DEF RateOK
<1> QED BY <1>6 DEF n

LEMMA Admits ==
  ASSUME NEW w, NEW ages, RateOK(w, ages), w.count < TopLimit
  PROVE  RateOK([w EXCEPT !.count = @ + 1], <<0>> \o ages)
<1> DEFINE n == [w EXCEPT !.count = @ + 1]
           next == <<0>> \o ages
<1>1. DOMAIN n = {"age", "count"} /\ n.age = w.age /\ n.count = w.count + 1
  BY DEF RateOK
<1>2. <<0>> \in Seq(Nat) /\ Len(<<0>>) = 1 /\ <<0>>[1] = 0 /\ ages \in Seq(Nat) /\ Len(ages) \in Nat
  BY DEF RateOK
<1>3. /\ next \in Seq(Nat) /\ Len(next) = 1 + Len(ages)
      /\ \A i \in 1..1 + Len(ages) : next[i] = IF i <= 1 THEN <<0>>[i] ELSE ages[i - 1]
  BY <1>2, ConcatProperties
<1>4. next[1] = 0 /\ \A i \in 1..Len(next) : i # 1 => i - 1 \in 1..Len(ages) /\ next[i] = ages[i - 1]
  BY <1>2, <1>3
<1> HIDE DEF n, next
<1>5. /\ w.age \in Nat /\ w.count \in Nat /\ w.age <= RateWindow /\ Len(ages) <= w.count + TopLimit
      /\ \A i \in 1..Len(ages) : ages[i] \in Nat /\ ages[i] < RateWindow /\ (i > w.count => ages[i] >= w.age)
      /\ \A i, j \in 1..Len(ages) : i <= j => ages[i] <= ages[j]
  BY DEF RateOK
<1>6. RateWindow \in Nat /\ RateWindow > 0 /\ TopLimit \in Nat
  BY RegistryConfig, TopIsTop
<1>7. \A i \in 1..Len(next) : next[i] < RateWindow /\ (i > w.count + 1 => next[i] >= w.age)
  <2> SUFFICES ASSUME NEW i \in 1..Len(next)
               PROVE  next[i] < RateWindow /\ (i > w.count + 1 => next[i] >= w.age)
    OBVIOUS
  <2>1. CASE i = 1
    BY <1>4, <1>5, <1>6, <2>1
  <2>2. CASE i # 1
    <3>1. i - 1 \in 1..Len(ages) /\ next[i] = ages[i - 1] /\ (i > w.count + 1 => i - 1 > w.count)
      BY <1>2, <1>3, <1>4, <1>5, <2>2
    <3> QED BY <1>5, <3>1
  <2> QED BY <2>1, <2>2
<1>8. \A i, j \in 1..Len(next) : i <= j => next[i] <= next[j]
  <2> SUFFICES ASSUME NEW i \in 1..Len(next), NEW j \in 1..Len(next), i <= j PROVE next[i] <= next[j]
    OBVIOUS
  <2>1. CASE i = 1
    <3>1. next[j] \in Nat
      BY <1>3
    <3> QED BY <1>4, <2>1, <3>1
  <2>2. CASE i # 1
    <3>1. j # 1 /\ i - 1 <= j - 1
      BY <1>2, <1>3, <2>2
    <3> QED BY <1>4, <1>5, <2>2, <3>1
  <2> QED BY <2>1, <2>2
<1>9. Len(next) <= n.count + TopLimit /\ n.count \in Nat /\ n.count <= TopLimit
  BY <1>1, <1>2, <1>3, <1>5, <1>6
<1>10. RateOK(n, next)
  BY <1>1, <1>3, <1>5, <1>7, <1>8, <1>9 DEF RateOK
<1> QED BY <1>10 DEF n, next

\* A tick: every age grows, and the admissions that leave the span are the
\* last ones.
LEMMA GrowsOlder ==
  ASSUME NEW w, NEW ages, RateOK(w, ages)
  PROVE  RateOK([w EXCEPT !.age = Older(@, RateWindow)],
                [i \in 1..Cardinality({j \in DOMAIN ages : ages[j] + 1 < RateWindow}) |-> ages[i] + 1])
<1> DEFINE n == [w EXCEPT !.age = Older(@, RateWindow)]
           young == {j \in DOMAIN ages : ages[j] + 1 < RateWindow}
           m == Cardinality(young)
           next == [i \in 1..m |-> ages[i] + 1]
<1>1. /\ w.age \in Nat /\ w.count \in Nat /\ w.age <= RateWindow /\ Len(ages) <= w.count + TopLimit
      /\ w.count <= TopLimit /\ Len(ages) \in Nat /\ DOMAIN ages = 1..Len(ages)
      /\ \A i \in 1..Len(ages) : ages[i] \in Nat /\ ages[i] < RateWindow /\ (i > w.count => ages[i] >= w.age)
      /\ \A i, j \in 1..Len(ages) : i <= j => ages[i] <= ages[j]
  BY DEF RateOK
<1>2. RateWindow \in Nat /\ TopLimit \in Nat
  BY RegistryConfig, TopIsTop
<1>3. DOMAIN n = {"age", "count"} /\ n.count = w.count /\ n.age = Older(w.age, RateWindow)
  BY DEF RateOK
<1>4. n.age \in Nat /\ n.age <= RateWindow /\ n.age <= w.age + 1
  BY <1>1, <1>2, <1>3 DEF Older
<1>5. m \in Nat /\ m <= Len(ages)
  <2>0. 1 \in Int /\ Len(ages) \in Int
    BY <1>1
  <2>1. IsFiniteSet(1..Len(ages)) /\ Cardinality(1..Len(ages)) = Len(ages)
    <3>1. /\ IsFiniteSet(1..Len(ages))
          /\ Cardinality(1..Len(ages)) = IF 1 > Len(ages) THEN 0 ELSE Len(ages) - 1 + 1
      BY <2>0, FS_Interval
    <3> QED BY <1>1, <3>1
  <2>2. young \in SUBSET (1..Len(ages))
    BY <1>1
  <2> QED BY <2>1, <2>2, FS_Subset, FS_CardinalityType
<1>6. \A i \in 1..m : i \in 1..Len(ages) /\ ages[i] + 1 < RateWindow
  <2> SUFFICES ASSUME NEW i \in 1..m PROVE i \in 1..Len(ages) /\ ages[i] + 1 < RateWindow
    OBVIOUS
  <2>1. i \in 1..Len(ages) /\ i \in Int /\ i - 1 \in Int
    BY <1>1, <1>5
  <2>2. SUFFICES ASSUME ~(ages[i] + 1 < RateWindow) PROVE FALSE
    BY <2>1
  <2>3. \A j \in young : j \in 1..i - 1
    <3> SUFFICES ASSUME NEW j \in 1..Len(ages), ages[j] + 1 < RateWindow PROVE j \in 1..i - 1
      BY <1>1
    <3>1. ~(i <= j)
      BY <1>1, <1>2, <2>1, <2>2
    <3> QED BY <1>1, <2>1, <3>1
  <2>4. IsFiniteSet(1..i - 1) /\ Cardinality(1..i - 1) = i - 1
    BY <2>1, FS_Interval
  <2>5. m <= i - 1
    <3>1. young \in SUBSET (1..i - 1)
      BY <2>3
    <3> HIDE DEF young
    <3> QED BY <2>4, <3>1, FS_Subset
  <2> QED BY <1>5, <2>5
<1> HIDE DEF n, young, m
<1>7. next \in Seq(Nat) /\ Len(next) = m /\ \A i \in 1..m : next[i] = ages[i] + 1
  <2>1. next \in [1..m -> Nat]
    BY <1>1, <1>6
  <2> QED BY <1>5, <2>1
<1> HIDE DEF next
<1>8. \A i \in 1..m : next[i] < RateWindow /\ (i > n.count => next[i] >= n.age)
  BY <1>1, <1>3, <1>4, <1>6, <1>7
<1>9. \A i, j \in 1..m : i <= j => next[i] <= next[j]
  BY <1>1, <1>6, <1>7
<1>10. m <= n.count + TopLimit
  BY <1>1, <1>2, <1>3, <1>5
<1>11. RateOK(n, next)
  BY <1>1, <1>3, <1>4, <1>7, <1>8, <1>9, <1>10 DEF RateOK
<1> QED BY <1>11 DEF n, next, m, young

LEMMA RateInit == TenantInit => RateInv
<1> SUFFICES ASSUME TenantInit PROVE RateInv
  OBVIOUS
<1> DEFINE w == [age |-> RateWindow, count |-> 0]
<1>1. ExpiryInv
  BY ExpiryInit
<1>2. DOMAIN w = {"age", "count"} /\ w.age = RateWindow /\ w.count = 0
  OBVIOUS
<1> HIDE DEF w
<1>3. RateOK(w, <<>>)
  BY <1>2, RegistryConfig, TopIsTop DEF RateOK
<1>4. window = [t \in Tenants |-> w] /\ recent = [t \in Tenants |-> <<>>]
  BY DEF TenantInit, w
<1> QED BY <1>1, <1>3, <1>4 DEF RateInv

LEMMA RateNext == RateInv /\ [TenantNext]_tenantVars => RateInv'
<1> SUFFICES ASSUME RateInv, [TenantNext]_tenantVars PROVE RateInv'
  OBVIOUS
<1>1. ExpiryInv'
  BY ExpiryNext DEF RateInv
<1>2. CASE RateLimit
  <2> DEFINE t == TenantOf[req.key]
             w == RateWindowNow(t)
  <2>1. req.at = "found" /\ req.key \in Keys /\ req.limit \in AllLimits
    BY <1>2 DEF RateLimit, RateInv, ExpiryInv, RegistryShape
  <2>2. t \in Tenants /\ RateOK(window[t], recent[t]) /\ DOMAIN window = Tenants /\ DOMAIN recent = Tenants
    BY <2>1 DEF Tenants, RateInv
  <2>3. RateOK(w, recent[t])
    <3>1. CASE window[t].age >= RateWindow
      BY <2>2, <3>1, NewWindow DEF RateWindowNow
    <3>2. CASE ~(window[t].age >= RateWindow)
      BY <2>2, <3>2 DEF RateWindowNow
    <3> QED BY <3>1, <3>2
  <2>4. \/ window' = [window EXCEPT ![t] = w] /\ recent' = recent
        \/ /\ ~(w.count >= req.limit)
           /\ window' = [window EXCEPT ![t] = [w EXCEPT !.count = @ + 1]]
           /\ recent' = [recent EXCEPT ![t] = <<0>> \o @]
    BY <1>2 DEF RateLimit
  <2> HIDE DEF w
  <2>5. CASE window' = [window EXCEPT ![t] = w] /\ recent' = recent
    BY <1>1, <2>2, <2>3, <2>5 DEF RateInv
  <2>6. CASE /\ ~(w.count >= req.limit)
             /\ window' = [window EXCEPT ![t] = [w EXCEPT !.count = @ + 1]]
             /\ recent' = [recent EXCEPT ![t] = <<0>> \o @]
    <3>1. w.count < TopLimit
      <4>1. req.limit \in Nat /\ req.limit <= TopLimit /\ TopLimit \in Nat /\ w.count \in Nat
        BY <2>1, <2>3, TopIsTop DEF RateOK
      <4> QED BY <2>6, <4>1
    <3>2. RateOK([w EXCEPT !.count = @ + 1], <<0>> \o recent[t])
      BY <2>3, <3>1, Admits
    <3>3. recent' = [recent EXCEPT ![t] = <<0>> \o recent[t]]
      BY <2>6
    <3> DEFINE wide == [w EXCEPT !.count = @ + 1]
               more == <<0>> \o recent[t]
    <3>4. RateOK(wide, more) /\ window' = [window EXCEPT ![t] = wide] /\ recent' = [recent EXCEPT ![t] = more]
      BY <2>6, <3>2, <3>3
    <3> HIDE DEF wide, more
    <3> QED BY <1>1, <2>2, <3>4 DEF RateInv
  <2> QED BY <2>4, <2>5, <2>6
<1>3. CASE Tick
  <2>1. /\ window' = [t \in Tenants |-> [window[t] EXCEPT !.age = Older(@, RateWindow)]]
        /\ recent' = [t \in Tenants |->
             [i \in 1..Cardinality({j \in DOMAIN recent[t] : recent[t][j] + 1 < RateWindow})
                |-> recent[t][i] + 1]]
    BY <1>3 DEF Tick
  <2>2. ASSUME NEW t \in Tenants PROVE RateOK(window'[t], recent'[t])
    <3>1. RateOK(window[t], recent[t])
      BY DEF RateInv
    <3>2. /\ window'[t] = [window[t] EXCEPT !.age = Older(@, RateWindow)]
          /\ recent'[t] = [i \in 1..Cardinality({j \in DOMAIN recent[t] : recent[t][j] + 1 < RateWindow})
                             |-> recent[t][i] + 1]
      BY <2>1
    <3> QED BY <3>1, <3>2, GrowsOlder
  <2>3. DOMAIN window' = Tenants /\ DOMAIN recent' = Tenants
    BY <2>1
  <2> QED BY <1>1, <2>2, <2>3 DEF RateInv
<1>4. CASE UNCHANGED <<window, recent>>
  BY <1>1, <1>4 DEF RateInv
<1>5. RateLimit \/ Tick \/ UNCHANGED <<window, recent>>
  BY DEF TenantNext, RefreshStep, RequestStep, DbChange, DbUpDown, StartRefresh, QueryRows,
         RefreshFromSnapshot, RefreshFails, PassOpen, Reject, Lookup, FinishRequest, tenantVars
<1> QED BY <1>2, <1>3, <1>4, <1>5

\* For any limits, and however refreshes change them between a lookup and its
\* count: two adjacent windows are the most that any span of one window sees.
THEOREM RatesAlwaysBounded == TenantSpec => []RateBounded
<1>1. RateInv => RateBounded
  <2> SUFFICES ASSUME RateInv, NEW t \in Tenants PROVE Len(recent[t]) <= 2 * TopLimit
    BY DEF RateBounded, TopLimit
  <2>1. RateOK(window[t], recent[t])
    BY DEF RateInv
  <2>2. /\ Len(recent[t]) \in Nat /\ window[t].count \in Nat /\ TopLimit \in Nat
        /\ Len(recent[t]) <= window[t].count + TopLimit /\ window[t].count <= TopLimit
    BY <2>1, TopIsTop DEF RateOK
  <2> QED BY <2>2
<1> QED BY RateInit, RateNext, <1>1, PTL DEF TenantSpec

-----------------------------------------------------------------------------
(***************************************************************************)
(* The profile parser, for any lines in any number and order.  What the    *)
(* parser keeps, the active table and the values so far, is tied to the    *)
(* file as a whole line by line: TableAt and LastGiven are TableOf and     *)
(* LastIn of the property for a given list of lines, and a line appended   *)
(* changes them exactly as parse_profile does.                             *)
(***************************************************************************)
IsHeader(line) == line.form = "table" /\ line.name \in {"capabilities", "mcp", "execution"}
HeadersAbove(ls, i) == {j \in 1 .. (i - 1) : IsHeader(ls[j])}
Greatest(S) == CHOOSE j \in S : \A k \in S : k <= j
TableAt(ls, i) == IF HeadersAbove(ls, i) = {} THEN "top" ELSE ls[Greatest(HeadersAbove(ls, i))].name
GivenIn(ls, table, key) ==
  {i \in DOMAIN ls : ls[i].form = "assign" /\ ls[i].key = key /\ TableAt(ls, i) = table}
LastGiven(ls, table, key, default) ==
  IF GivenIn(ls, table, key) = {} THEN default ELSE ls[Greatest(GivenIn(ls, table, key))].rhs.value
CapHeaders(ls) == {i \in DOMAIN ls : ls[i] = [form |-> "table", name |-> "capabilities"]}

\* A line the parser has a meaning for, in the table it stands in.
Meant(line, table) ==
  \/ line.form = "blank"
  \/ IsHeader(line)
  \/ /\ line.form = "assign"
     /\ table = "mcp" => McpKeyOk(line.key, line.rhs)
     /\ table = "execution" => ExecutionKeyOk(line.key, line.rhs)
     /\ table \notin {"mcp", "execution"} => line.rhs.is = "string"
AllMeant(ls) == \A i \in DOMAIN ls : Meant(ls[i], TableAt(ls, i))

Entries == [{"type", "path", "pattern"} -> {NoValue} \cup {line.rhs.value : line \in Lines}]

\* An optional table: not there, or one with these fields.
OptMcp(o) ==
  \/ o = {}
  \/ \E m : o = {m} /\ DOMAIN m = {"tool_allowlist", "flags"} /\ DOMAIN m.flags = Flags
OptExecution(o) == o = {} \/ \E m : o = {m} /\ DOMAIN m = {"module_dirs", "daemon_auth_required"}

McpAgrees(o, ls) ==
  /\ \A f \in Flags : TableOr(o, RawMcp).flags[f] = LastGiven(ls, "mcp", f, NoValue)
  /\ TableOr(o, RawMcp).tool_allowlist = LastGiven(ls, "mcp", "tool_allowlist", NoValue)
ExecutionAgrees(o, ls) ==
  \A k \in {"module_dirs", "daemon_auth_required"} :
    TableOr(o, RawExecution)[k] = LastGiven(ls, "execution", k, NoValue)

ParserShape ==
  /\ lines \in Seq(Lines)
  /\ section = TableAt(lines, Len(lines) + 1)
  /\ DOMAIN raw = {"name", "capabilities", "mcp", "execution"}
  /\ raw.capabilities \in Seq(Entries)
  /\ Len(raw.capabilities) = Cardinality(CapHeaders(lines))
  /\ OptMcp(raw.mcp) /\ OptExecution(raw.execution)
  /\ section = "mcp" => raw.mcp # {}
  /\ section = "execution" => raw.execution # {}

ParserAgrees == AllMeant(lines) /\ McpAgrees(raw.mcp, lines) /\ ExecutionAgrees(raw.execution, lines)

ParserInv == ParserShape /\ (errors \/ ParserAgrees)

-----------------------------------------------------------------------------
LEMMA OnlyGreatest ==
  ASSUME NEW S \in SUBSET Nat, NEW n \in S, \A k \in S : k <= n
  PROVE  Greatest(S) = n
<1>1. Greatest(S) \in S /\ \A k \in S : k <= Greatest(S)
  BY DEF Greatest
<1>2. PICK g : g = Greatest(S)
  OBVIOUS
<1>3. g \in Nat /\ n \in Nat /\ g <= n /\ n <= g
  BY <1>1, <1>2
<1> QED BY <1>2, <1>3

LEMMA HasGreatest ==
  ASSUME NEW n \in Nat, NEW S \in SUBSET (1 .. n), S # {}
  PROVE  Greatest(S) \in S
<1>1. S \in SUBSET (0 .. n)
  OBVIOUS
<1>2. PICK k \in S : \A j \in S : j <= k
  BY <1>1, GreatestUpTo
<1>3. Greatest(S) = k
  BY <1>1, <1>2, OnlyGreatest
<1> QED BY <1>2, <1>3

\* One line more.
Extends(ls, line, ms) ==
  /\ ls \in Seq(Lines) /\ line \in Lines /\ ms = Append(ls, line)

LEMMA Extended ==
  ASSUME NEW ls, NEW line, NEW ms, Extends(ls, line, ms)
  PROVE  /\ Len(ls) \in Nat /\ Len(ms) = Len(ls) + 1 /\ ms \in Seq(Lines)
         /\ DOMAIN ls = 1 .. Len(ls) /\ DOMAIN ms = 1 .. Len(ls) + 1
         /\ \A i \in 1 .. Len(ls) : ms[i] = ls[i]
         /\ ms[Len(ls) + 1] = line
  BY DEF Extends

LEMMA TableBefore ==
  ASSUME NEW ls, NEW line, NEW ms, Extends(ls, line, ms), NEW i \in 1 .. Len(ls) + 1
  PROVE  TableAt(ms, i) = TableAt(ls, i)
<1>1. \A j \in 1 .. (i - 1) : ms[j] = ls[j]
  BY Extended
<1>2. HeadersAbove(ms, i) = HeadersAbove(ls, i)
  BY <1>1 DEF HeadersAbove
<1>3. CASE HeadersAbove(ls, i) = {}
  BY <1>2, <1>3 DEF TableAt
<1>4. CASE HeadersAbove(ls, i) # {}
  <2>1. i - 1 \in Nat /\ HeadersAbove(ls, i) \in SUBSET (1 .. (i - 1))
    BY Extended DEF HeadersAbove
  <2>2. Greatest(HeadersAbove(ls, i)) \in 1 .. (i - 1)
    BY <1>4, <2>1, HasGreatest
  <2> QED BY <1>1, <1>2, <1>4, <2>2 DEF TableAt
<1> QED BY <1>3, <1>4

LEMMA TableAfter ==
  ASSUME NEW ls, NEW line, NEW ms, Extends(ls, line, ms)
  PROVE  TableAt(ms, Len(ms) + 1) = IF IsHeader(line) THEN line.name ELSE TableAt(ls, Len(ls) + 1)
<1> DEFINE n == Len(ls)
<1>0. n \in Nat /\ Len(ms) + 1 = n + 2 /\ (n + 2) - 1 = n + 1 /\ (n + 1) - 1 = n
  BY Extended
<1>1. \A j \in 1 .. n : ms[j] = ls[j] /\ ms[n + 1] = line
  BY Extended
<1>a. ms[n + 1] = line
  BY Extended
<1>2. CASE IsHeader(line)
  <2>1. n + 1 \in HeadersAbove(ms, n + 2) /\ HeadersAbove(ms, n + 2) \in SUBSET (1 .. n + 1)
    BY <1>0, <1>a, <1>2 DEF HeadersAbove
  <2>2. Greatest(HeadersAbove(ms, n + 2)) = n + 1
    <3>1. HeadersAbove(ms, n + 2) \in SUBSET Nat /\ \A k \in HeadersAbove(ms, n + 2) : k <= n + 1
      BY <1>0, <2>1
    <3> QED BY <1>0, <2>1, <3>1, OnlyGreatest
  <2>3. TableAt(ms, n + 2) = ms[n + 1].name
    BY <2>1, <2>2 DEF TableAt
  <2> QED BY <1>0, <1>a, <1>2, <2>3
<1>3. CASE ~IsHeader(line)
  <2>1. HeadersAbove(ms, n + 2) = HeadersAbove(ls, n + 1)
    <3>1. ASSUME NEW j \in 1 .. n + 1, IsHeader(ms[j]) PROVE j \in 1 .. n /\ IsHeader(ls[j])
      BY <1>0, <1>1, <1>a, <1>3, <3>1
    <3>2. ASSUME NEW j \in 1 .. n, IsHeader(ls[j]) PROVE j \in 1 .. n + 1 /\ IsHeader(ms[j])
      BY <1>0, <1>1, <3>2
    <3> QED BY <1>0, <3>1, <3>2 DEF HeadersAbove
  <2>2. CASE HeadersAbove(ls, n + 1) = {}
    BY <1>0, <1>3, <2>1, <2>2 DEF TableAt
  <2>3. CASE HeadersAbove(ls, n + 1) # {}
    <3>1. HeadersAbove(ls, n + 1) \in SUBSET (1 .. n)
      BY <1>0 DEF HeadersAbove
    <3>2. Greatest(HeadersAbove(ls, n + 1)) \in 1 .. n
      BY <1>0, <2>3, <3>1, HasGreatest
    <3> QED BY <1>0, <1>1, <1>3, <2>1, <2>3, <3>2 DEF TableAt
  <2> QED BY <2>2, <2>3
<1> QED BY <1>2, <1>3

LEMMA LastAfter ==
  ASSUME NEW ls, NEW line, NEW ms, Extends(ls, line, ms), NEW table, NEW key, NEW default
  PROVE  LastGiven(ms, table, key, default) =
           IF line.form = "assign" /\ line.key = key /\ TableAt(ls, Len(ls) + 1) = table
           THEN line.rhs.value ELSE LastGiven(ls, table, key, default)
<1> DEFINE n == Len(ls)
           here == line.form = "assign" /\ line.key = key /\ TableAt(ls, n + 1) = table
<1>1. n \in Nat /\ DOMAIN ls = 1 .. n /\ DOMAIN ms = 1 .. n + 1
  BY Extended
<1>2. \A j \in 1 .. n : ms[j] = ls[j]
  BY Extended
<1>3. ms[n + 1] = line
  BY Extended
<1>4. \A j \in 1 .. n + 1 : TableAt(ms, j) = TableAt(ls, j)
  BY TableBefore
<1>5. GivenIn(ls, table, key) \in SUBSET (1 .. n) /\ GivenIn(ms, table, key) \in SUBSET (1 .. n + 1)
  BY <1>1 DEF GivenIn
<1>6. \A j \in 1 .. n : j \in GivenIn(ms, table, key) <=> j \in GivenIn(ls, table, key)
  <2> SUFFICES ASSUME NEW j \in 1 .. n
               PROVE  j \in GivenIn(ms, table, key) <=> j \in GivenIn(ls, table, key)
    OBVIOUS
  <2>1. ms[j] = ls[j] /\ TableAt(ms, j) = TableAt(ls, j) /\ j \in 1 .. n + 1
    BY <1>1, <1>2, <1>4
  <2> QED BY <1>1, <2>1 DEF GivenIn
<1>7. n + 1 \in GivenIn(ms, table, key) <=> here
  <2>1. TableAt(ms, n + 1) = TableAt(ls, n + 1) /\ n + 1 \in DOMAIN ms
    BY <1>1, <1>4
  <2> QED BY <1>3, <2>1 DEF GivenIn
<1>8. CASE here
  <2>1. Greatest(GivenIn(ms, table, key)) = n + 1
    <3>1. /\ n + 1 \in GivenIn(ms, table, key) /\ GivenIn(ms, table, key) \in SUBSET Nat
          /\ \A k \in GivenIn(ms, table, key) : k <= n + 1
      BY <1>1, <1>5, <1>7, <1>8
    <3> QED BY <3>1, OnlyGreatest
  <2> QED BY <1>3, <1>7, <1>8, <2>1 DEF LastGiven
<1>9. CASE ~here
  <2>1. GivenIn(ms, table, key) = GivenIn(ls, table, key)
    <3>1. \A j \in GivenIn(ms, table, key) : j \in 1 .. n
      BY <1>1, <1>5, <1>7, <1>9
    <3> QED BY <1>5, <1>6, <3>1
  <2>2. CASE GivenIn(ls, table, key) = {}
    BY <1>9, <2>1, <2>2 DEF LastGiven
  <2>3. CASE GivenIn(ls, table, key) # {}
    <3>1. Greatest(GivenIn(ls, table, key)) \in 1 .. n
      BY <1>1, <1>5, <2>3, HasGreatest
    <3> QED BY <1>2, <1>9, <2>1, <2>3, <3>1 DEF LastGiven
  <2> QED BY <2>2, <2>3
<1> QED BY <1>8, <1>9

LEMMA MeantAfter ==
  ASSUME NEW ls, NEW line, NEW ms, Extends(ls, line, ms), AllMeant(ls),
         Meant(line, TableAt(ls, Len(ls) + 1))
  PROVE  AllMeant(ms)
<1> SUFFICES ASSUME NEW i \in DOMAIN ms PROVE Meant(ms[i], TableAt(ms, i))
  BY DEF AllMeant
<1>1. TableAt(ms, i) = TableAt(ls, i)
  BY Extended, TableBefore
<1>2. CASE i = Len(ls) + 1
  BY <1>1, <1>2, Extended
<1>3. CASE i \in 1 .. Len(ls)
  BY <1>1, <1>3, Extended DEF AllMeant
<1> QED BY <1>2, <1>3, Extended

LEMMA HeadersAfter ==
  ASSUME NEW ls, NEW line, NEW ms, Extends(ls, line, ms)
  PROVE  /\ Cardinality(CapHeaders(ls)) \in Nat
         /\ Cardinality(CapHeaders(ms)) = Cardinality(CapHeaders(ls))
              + IF line.form = "table" /\ line.name = "capabilities" THEN 1 ELSE 0
<1> DEFINE n == Len(ls)
           cap == [form |-> "table", name |-> "capabilities"]
<1>1. n \in Nat /\ DOMAIN ls = 1 .. n /\ DOMAIN ms = 1 .. n + 1
  BY Extended
<1>2. \A j \in 1 .. n : ms[j] = ls[j]
  BY Extended
<1>3. ms[n + 1] = line
  BY Extended
<1>4. CapHeaders(ls) \in SUBSET (1 .. n)
  BY <1>1 DEF CapHeaders
<1>5. IsFiniteSet(CapHeaders(ls)) /\ Cardinality(CapHeaders(ls)) \in Nat
  <2>1. IsFiniteSet(1 .. n)
    BY <1>1, FS_Interval
  <2>2. IsFiniteSet(CapHeaders(ls))
    BY <1>4, <2>1, FS_Subset
  <2> QED BY <2>2, FS_CardinalityType
<1>6. line = cap <=> line.form = "table" /\ line.name = "capabilities"
  <2>1. LineOK(line)
    BY LinesAssumption DEF Extends
  <2>2. line.form = "table" => line = [form |-> "table", name |-> line.name]
    BY <2>1 DEF LineOK
  <2> QED BY <2>2
<1>7. CASE line = cap
  <2>1. CapHeaders(ms) = CapHeaders(ls) \cup {n + 1} /\ n + 1 \notin CapHeaders(ls)
    BY <1>1, <1>2, <1>3, <1>7 DEF CapHeaders
  <2>2. Cardinality(CapHeaders(ls) \cup {n + 1}) = Cardinality(CapHeaders(ls)) + 1
    BY <1>5, <2>1, FS_AddElement
  <2> QED BY <1>5, <1>6, <1>7, <2>1, <2>2
<1>8. CASE line # cap
  <2>1. CapHeaders(ms) = CapHeaders(ls)
    BY <1>1, <1>2, <1>3, <1>8 DEF CapHeaders
  <2> QED BY <1>5, <1>6, <1>8, <2>1
<1> QED BY <1>7, <1>8

-----------------------------------------------------------------------------
LEMMA OptTable ==
  ASSUME NEW new
  PROVE  /\ TableOr({}, new) = new
         /\ \A m : TableOr({m}, new) = m
         /\ \A o : TableOr(Inserted(o, new), new) = TableOr(o, new)
<1>1. TableOr({}, new) = new
  BY DEF TableOr, Inserted
<1>2. \A m : TableOr({m}, new) = m
  BY DEF TableOr, Inserted
<1>3. \A o : TableOr(Inserted(o, new), new) = TableOr(o, new)
  BY DEF TableOr, Inserted
<1> QED BY <1>1, <1>2, <1>3

LEMMA ParserInit == ProfileInit => ParserInv
<1> SUFFICES ASSUME ProfileInit PROVE ParserInv
  OBVIOUS
<1>1. /\ lines = <<>> /\ section = "top" /\ raw = RawProfile
      /\ Len(lines) = 0 /\ DOMAIN lines = {}
  BY DEF ProfileInit
<1>2. HeadersAbove(lines, Len(lines) + 1) = {}
  BY <1>1 DEF HeadersAbove
<1>3. CapHeaders(lines) = {} /\ \A table, key : GivenIn(lines, table, key) = {}
  BY <1>1 DEF CapHeaders, GivenIn
<1>4. Cardinality(CapHeaders(lines)) = 0
  BY <1>3, FS_EmptySet
<1>5. /\ raw.capabilities = <<>> /\ raw.mcp = {} /\ raw.execution = {}
      /\ DOMAIN raw = {"name", "capabilities", "mcp", "execution"}
  BY <1>1 DEF RawProfile
<1>6. ParserShape
  BY <1>1, <1>2, <1>4, <1>5 DEF ParserShape, TableAt, OptMcp, OptExecution
<1>7. TableOr(raw.mcp, RawMcp) = RawMcp /\ TableOr(raw.execution, RawExecution) = RawExecution
  BY <1>5, OptTable
<1>8. \A table, key : LastGiven(lines, table, key, NoValue) = NoValue
  BY <1>3 DEF LastGiven
<1>9. McpAgrees(raw.mcp, lines)
  BY <1>7, <1>8 DEF McpAgrees, RawMcp
<1>10. ExecutionAgrees(raw.execution, lines)
  BY <1>7, <1>8 DEF ExecutionAgrees, RawExecution
<1> QED BY <1>1, <1>6, <1>9, <1>10 DEF ParserInv, ParserAgrees, AllMeant

\* What reading a line has to preserve, when it stands in the table `section'.
LEMMA ReadKeeps ==
  ASSUME ParserInv, NEW line, Extends(lines, line, lines'),
         section' = IF IsHeader(line) THEN line.name ELSE section,
         DOMAIN raw' = {"name", "capabilities", "mcp", "execution"},
         raw'.capabilities \in Seq(Entries),
         Len(raw'.capabilities) = Len(raw.capabilities)
           + IF line.form = "table" /\ line.name = "capabilities" THEN 1 ELSE 0,
         OptMcp(raw'.mcp), OptExecution(raw'.execution),
         raw.mcp # {} \/ section' = "mcp" => raw'.mcp # {},
         raw.execution # {} \/ section' = "execution" => raw'.execution # {},
         \/ errors'
         \/ /\ ~errors /\ Meant(line, section)
            /\ McpAgrees(raw.mcp, lines) => McpAgrees(raw'.mcp, lines')
            /\ ExecutionAgrees(raw.execution, lines) => ExecutionAgrees(raw'.execution, lines')
  PROVE  ParserInv'
<1>1. PICK ls, ms : ls = lines /\ ms = lines'
  OBVIOUS
<1>2. section = TableAt(ls, Len(ls) + 1) /\ Extends(ls, line, ms)
  BY <1>1 DEF ParserInv, ParserShape
<1>3. section' = TableAt(ms, Len(ms) + 1) /\ ms \in Seq(Lines)
  BY <1>2, TableAfter, Extended
<1>4. Len(raw'.capabilities) = Cardinality(CapHeaders(ms))
  <2>1. Len(raw.capabilities) = Cardinality(CapHeaders(ls))
    BY <1>1 DEF ParserInv, ParserShape
  <2> QED BY <1>2, <2>1, HeadersAfter
<1>5. section' = "mcp" => raw'.mcp # {}
  OBVIOUS
<1>6. section' = "execution" => raw'.execution # {}
  OBVIOUS
<1>7. ParserShape'
  BY <1>1, <1>3, <1>4, <1>5, <1>6 DEF ParserShape
<1>8. CASE errors'
  BY <1>7, <1>8 DEF ParserInv
<1>9. CASE ~errors'
  <2>1. ParserAgrees /\ Meant(line, section)
    BY <1>9 DEF ParserInv
  <2>2. AllMeant(ms)
    BY <1>1, <1>2, <2>1, MeantAfter DEF ParserAgrees
  <2>3. McpAgrees(raw'.mcp, ms) /\ ExecutionAgrees(raw'.execution, ms)
    BY <1>1, <1>9, <2>1 DEF ParserAgrees
  <2>4. ParserAgrees'
    BY <1>1, <2>2, <2>3 DEF ParserAgrees
  <2> QED BY <1>7, <2>4 DEF ParserInv
<1> QED BY <1>8, <1>9

\* A line that is no assignment to the table leaves the last values as they are.
LEMMA AgreesElsewhere ==
  ASSUME NEW ls, NEW line, NEW ms, Extends(ls, line, ms), NEW o
  PROVE  /\ (line.form # "assign" \/ TableAt(ls, Len(ls) + 1) # "mcp") /\ McpAgrees(o, ls)
              => McpAgrees(o, ms) /\ McpAgrees(Inserted(o, RawMcp), ms)
         /\ (line.form # "assign" \/ TableAt(ls, Len(ls) + 1) # "execution") /\ ExecutionAgrees(o, ls)
              => ExecutionAgrees(o, ms) /\ ExecutionAgrees(Inserted(o, RawExecution), ms)
<1>1. ASSUME line.form # "assign" \/ TableAt(ls, Len(ls) + 1) # "mcp", McpAgrees(o, ls)
      PROVE  McpAgrees(o, ms) /\ McpAgrees(Inserted(o, RawMcp), ms)
  <2>1. \A key : LastGiven(ms, "mcp", key, NoValue) = LastGiven(ls, "mcp", key, NoValue)
    BY <1>1, LastAfter
  <2>2. TableOr(Inserted(o, RawMcp), RawMcp) = TableOr(o, RawMcp)
    BY OptTable
  <2> QED BY <1>1, <2>1, <2>2 DEF McpAgrees
<1>2. ASSUME line.form # "assign" \/ TableAt(ls, Len(ls) + 1) # "execution", ExecutionAgrees(o, ls)
      PROVE  ExecutionAgrees(o, ms) /\ ExecutionAgrees(Inserted(o, RawExecution), ms)
  <2>1. \A key : LastGiven(ms, "execution", key, NoValue) = LastGiven(ls, "execution", key, NoValue)
    BY <1>2, LastAfter
  <2>2. TableOr(Inserted(o, RawExecution), RawExecution) = TableOr(o, RawExecution)
    BY OptTable
  <2> QED BY <1>2, <2>1, <2>2 DEF ExecutionAgrees
<1> QED BY <1>1, <1>2

\* An assignment to [mcp], and to [execution], updates its last value.
LEMMA McpSetAgrees ==
  ASSUME NEW ls, NEW line, NEW ms, Extends(ls, line, ms), line.form = "assign",
         TableAt(ls, Len(ls) + 1) = "mcp", NEW o, OptMcp(o), o # {}
  PROVE  LET p == {McpSet(m, line.key, line.rhs) : m \in o}
         IN /\ OptMcp(p) /\ p # {}
            /\ McpKeyOk(line.key, line.rhs) /\ McpAgrees(o, ls) => McpAgrees(p, ms)
<1>1. PICK m : o = {m} /\ DOMAIN m = {"tool_allowlist", "flags"} /\ DOMAIN m.flags = Flags
  BY DEF OptMcp
<1>2. PICK t : t = McpSet(m, line.key, line.rhs)
  OBVIOUS
<1>3. {McpSet(x, line.key, line.rhs) : x \in o} = {t}
  BY <1>1, <1>2
<1>4. DOMAIN t = {"tool_allowlist", "flags"} /\ DOMAIN t.flags = Flags
  BY <1>1, <1>2 DEF McpSet
<1>5. OptMcp({t})
  BY <1>4 DEF OptMcp
<1>6. ASSUME McpKeyOk(line.key, line.rhs), McpAgrees(o, ls) PROVE McpAgrees({t}, ms)
  <2>1. TableOr(o, RawMcp) = m /\ TableOr({t}, RawMcp) = t
    BY <1>1, OptTable
  <2>2. \A key : LastGiven(ms, "mcp", key, NoValue) =
          IF line.key = key THEN line.rhs.value ELSE LastGiven(ls, "mcp", key, NoValue)
    BY LastAfter
  <2>3. "tool_allowlist" \notin Flags
    BY DEF Flags
  <2>4. CASE line.key = "tool_allowlist"
    <3>1. t.tool_allowlist = line.rhs.value /\ t.flags = m.flags
      BY <1>1, <1>2, <1>6, <2>4 DEF McpSet
    <3> QED BY <1>6, <2>1, <2>2, <2>3, <2>4, <3>1 DEF McpAgrees
  <2>5. CASE line.key \in Flags
    <3>1. t.tool_allowlist = m.tool_allowlist /\ t.flags = [m.flags EXCEPT ![line.key] = line.rhs.value]
      BY <1>1, <1>2, <1>6, <2>3, <2>5 DEF McpSet
    <3>2. \A f \in Flags : t.flags[f] = IF line.key = f THEN line.rhs.value ELSE m.flags[f]
      BY <1>1, <3>1
    <3>3. ASSUME NEW f \in Flags PROVE t.flags[f] = LastGiven(ms, "mcp", f, NoValue)
      BY <1>6, <2>1, <2>2, <3>2 DEF McpAgrees
    <3>4. line.key # "tool_allowlist"
      BY <2>3, <2>5
    <3>5. t.tool_allowlist = LastGiven(ms, "mcp", "tool_allowlist", NoValue)
      BY <1>6, <2>1, <2>2, <3>1, <3>4 DEF McpAgrees
    <3> QED BY <2>1, <3>3, <3>5 DEF McpAgrees
  <2> QED BY <1>6, <2>4, <2>5 DEF McpKeyOk
<1> QED BY <1>3, <1>5, <1>6

LEMMA ExecutionSetAgrees ==
  ASSUME NEW ls, NEW line, NEW ms, Extends(ls, line, ms), line.form = "assign",
         TableAt(ls, Len(ls) + 1) = "execution", NEW o, OptExecution(o), o # {}
  PROVE  LET p == {ExecutionSet(m, line.key, line.rhs) : m \in o}
         IN /\ OptExecution(p) /\ p # {}
            /\ ExecutionKeyOk(line.key, line.rhs) /\ ExecutionAgrees(o, ls) => ExecutionAgrees(p, ms)
<1>1. PICK m : o = {m} /\ DOMAIN m = {"module_dirs", "daemon_auth_required"}
  BY DEF OptExecution
<1>2. PICK t : t = ExecutionSet(m, line.key, line.rhs)
  OBVIOUS
<1>3. {ExecutionSet(x, line.key, line.rhs) : x \in o} = {t}
  BY <1>1, <1>2
<1>4. DOMAIN t = {"module_dirs", "daemon_auth_required"}
  BY <1>1, <1>2 DEF ExecutionSet
<1>5. OptExecution({t})
  BY <1>4 DEF OptExecution
<1>6. ASSUME ExecutionKeyOk(line.key, line.rhs), ExecutionAgrees(o, ls) PROVE ExecutionAgrees({t}, ms)
  <2>1. TableOr(o, RawExecution) = m /\ TableOr({t}, RawExecution) = t
    BY <1>1, OptTable
  <2>2. \A key : LastGiven(ms, "execution", key, NoValue) =
          IF line.key = key THEN line.rhs.value ELSE LastGiven(ls, "execution", key, NoValue)
    BY LastAfter
  <2>3. t = [m EXCEPT ![line.key] = line.rhs.value]
    BY <1>2, <1>6 DEF ExecutionSet
  <2>4. \A k \in {"module_dirs", "daemon_auth_required"} :
          t[k] = IF line.key = k THEN line.rhs.value ELSE m[k]
    BY <1>1, <2>3
  <2> QED BY <1>6, <2>1, <2>2, <2>4 DEF ExecutionAgrees
<1> QED BY <1>3, <1>5, <1>6

\* An entry stays an entry.
LEMMA CapabilitySetOK ==
  ASSUME NEW line \in Lines, NEW caps \in Seq(Entries)
  PROVE  LET new == [caps EXCEPT ![Len(caps)] = CapabilitySet(caps[Len(caps)], line.key, line.rhs.value)]
         IN new \in Seq(Entries) /\ Len(new) = Len(caps)
<1>1. ASSUME NEW e \in Entries PROVE CapabilitySet(e, line.key, line.rhs.value) \in Entries
  BY DEF CapabilitySet, Entries
<1>2. PICK v : v = CapabilitySet(caps[Len(caps)], line.key, line.rhs.value)
  OBVIOUS
<1>3. Len(caps) # 0 => v \in Entries
  BY <1>1, <1>2
<1>4. CASE Len(caps) = 0
  <2>1. [caps EXCEPT ![Len(caps)] = v] = caps
    BY <1>4
  <2> QED BY <1>2, <2>1
<1>5. CASE Len(caps) # 0
  <2>1. Len(caps) \in DOMAIN caps
    BY <1>5
  <2> QED BY <1>2, <1>3, <1>5, <2>1, ExceptSeq
<1> QED BY <1>4, <1>5

LEMMA ReadHeader ==
  ASSUME ParserInv, NEW line, Extends(lines, line, lines'), line.form = "table", Header(line.name)
  PROVE  ParserInv'
<1>1. /\ DOMAIN raw = {"name", "capabilities", "mcp", "execution"} /\ raw.capabilities \in Seq(Entries)
      /\ OptMcp(raw.mcp) /\ OptExecution(raw.execution)
  BY DEF ParserInv, ParserShape
<1>2. PICK ls, ms : ls = lines /\ ms = lines'
  OBVIOUS
<1>3. ASSUME NEW o
      PROVE  /\ McpAgrees(o, lines) => McpAgrees(o, lines') /\ McpAgrees(Inserted(o, RawMcp), lines')
             /\ ExecutionAgrees(o, lines) =>
                  ExecutionAgrees(o, lines') /\ ExecutionAgrees(Inserted(o, RawExecution), lines')
  BY <1>2, AgreesElsewhere
<1>4. IsHeader(line) => Meant(line, section)
  BY DEF Meant
<1>5. CASE line.name = "capabilities"
  <2>1. section' = "capabilities" /\ raw' = OpensCapability /\ UNCHANGED errors
    BY <1>5 DEF Header
  <2>2. RawCapability \in Entries
    BY DEF RawCapability, Entries
  <2>3. /\ DOMAIN raw' = DOMAIN raw /\ raw'.mcp = raw.mcp /\ raw'.execution = raw.execution
        /\ raw'.capabilities = Append(raw.capabilities, RawCapability)
    BY <1>1, <2>1 DEF OpensCapability
  <2>4. raw'.capabilities \in Seq(Entries) /\ Len(raw'.capabilities) = Len(raw.capabilities) + 1
    BY <1>1, <2>2, <2>3
  <2> QED BY <1>1, <1>3, <1>4, <1>5, <2>1, <2>3, <2>4, ReadKeeps DEF IsHeader
<1>6. CASE line.name = "mcp"
  <2>1. section' = "mcp" /\ raw' = [raw EXCEPT !.mcp = Inserted(raw.mcp, RawMcp)] /\ UNCHANGED errors
    BY <1>6 DEF Header
  <2>2. /\ DOMAIN raw' = DOMAIN raw /\ raw'.capabilities = raw.capabilities /\ raw'.execution = raw.execution
        /\ raw'.mcp = Inserted(raw.mcp, RawMcp)
    BY <1>1, <2>1
  <2>3. OptMcp(raw'.mcp) /\ raw'.mcp # {}
    <3>1. OptMcp({RawMcp})
      BY DEF OptMcp, RawMcp
    <3> QED BY <1>1, <2>2, <3>1 DEF Inserted
  <2>4. /\ raw'.capabilities \in Seq(Entries)
        /\ Len(raw'.capabilities) = Len(raw.capabilities) + 0
    BY <1>1, <2>2
  <2> QED BY <1>1, <1>3, <1>4, <1>6, <2>1, <2>2, <2>3, <2>4, ReadKeeps DEF IsHeader
<1>7. CASE line.name = "execution"
  <2>1. section' = "execution" /\ raw' = [raw EXCEPT !.execution = Inserted(raw.execution, RawExecution)]
        /\ UNCHANGED errors
    BY <1>7 DEF Header
  <2>2. /\ DOMAIN raw' = DOMAIN raw /\ raw'.capabilities = raw.capabilities /\ raw'.mcp = raw.mcp
        /\ raw'.execution = Inserted(raw.execution, RawExecution)
    BY <1>1, <2>1
  <2>3. OptExecution(raw'.execution) /\ raw'.execution # {}
    <3>1. OptExecution({RawExecution})
      BY DEF OptExecution, RawExecution
    <3> QED BY <1>1, <2>2, <3>1 DEF Inserted
  <2>4. /\ raw'.capabilities \in Seq(Entries)
        /\ Len(raw'.capabilities) = Len(raw.capabilities) + 0
    BY <1>1, <2>2
  <2> QED BY <1>1, <1>3, <1>4, <1>7, <2>1, <2>2, <2>3, <2>4, ReadKeeps DEF IsHeader
<1>8. CASE line.name \notin {"capabilities", "mcp", "execution"}
  <2>1. errors' /\ section' = section /\ raw' = raw
    BY <1>8 DEF Header
  <2>2. Len(raw'.capabilities) = Len(raw.capabilities) + 0
    BY <1>1, <2>1
  <2>3. (section = "mcp" => raw.mcp # {}) /\ (section = "execution" => raw.execution # {})
    BY DEF ParserInv, ParserShape
  <2> QED BY <1>1, <1>8, <2>1, <2>2, <2>3, ReadKeeps DEF IsHeader
<1> QED BY <1>5, <1>6, <1>7, <1>8

\* A line that changes no table: blank, in error, or the name of the profile.
LEMMA ReadOther ==
  ASSUME ParserInv, NEW line, Extends(lines, line, lines'), ~IsHeader(line), line.form # "table",
         section' = section, DOMAIN raw' = {"name", "capabilities", "mcp", "execution"},
         raw'.capabilities \in Seq(Entries), Len(raw'.capabilities) = Len(raw.capabilities),
         raw'.mcp = raw.mcp, raw'.execution = raw.execution,
         \/ errors'
         \/ /\ ~errors /\ Meant(line, section)
            /\ line.form # "assign" \/ section \notin {"mcp", "execution"}
  PROVE  ParserInv'
<1>1. /\ raw.capabilities \in Seq(Entries) /\ OptMcp(raw.mcp) /\ OptExecution(raw.execution)
      /\ section = "mcp" => raw.mcp # {}
      /\ section = "execution" => raw.execution # {}
      /\ section = TableAt(lines, Len(lines) + 1)
  BY DEF ParserInv, ParserShape
<1>2. PICK ls, ms, o, p : ls = lines /\ ms = lines' /\ o = raw.mcp /\ p = raw.execution
  OBVIOUS
<1>3. line.form # "assign" \/ section \notin {"mcp", "execution"} =>
        /\ McpAgrees(raw.mcp, lines) => McpAgrees(raw.mcp, lines')
        /\ ExecutionAgrees(raw.execution, lines) => ExecutionAgrees(raw.execution, lines')
  <2>1. line.form # "assign" \/ section \notin {"mcp", "execution"} =>
          /\ McpAgrees(o, ls) => McpAgrees(o, ms)
          /\ ExecutionAgrees(p, ls) => ExecutionAgrees(p, ms)
    BY <1>1, <1>2, AgreesElsewhere
  <2> QED BY <1>2, <2>1
<1>4. Len(raw'.capabilities) = Len(raw.capabilities) + 0
  BY <1>1
<1> QED BY <1>1, <1>3, <1>4, ReadKeeps

LEMMA ReadAssign ==
  ASSUME ParserInv, NEW line, Extends(lines, line, lines'), line.form = "assign",
         Assign(line.key, line.rhs)
  PROVE  ParserInv'
<1>1. /\ DOMAIN raw = {"name", "capabilities", "mcp", "execution"} /\ raw.capabilities \in Seq(Entries)
      /\ OptMcp(raw.mcp) /\ OptExecution(raw.execution)
      /\ section = "mcp" => raw.mcp # {}
      /\ section = "execution" => raw.execution # {}
      /\ section = TableAt(lines, Len(lines) + 1) /\ Len(raw.capabilities) + 0 = Len(raw.capabilities)
  BY DEF ParserInv, ParserShape
<1>2. section' = section /\ ~IsHeader(line) /\ line \in Lines
  BY DEF Assign, IsHeader, Extends
<1>3. PICK ls, ms, o, x : ls = lines /\ ms = lines' /\ o = raw.mcp /\ x = raw.execution
  OBVIOUS
<1>4. CASE section = "mcp"
  <2> DEFINE p == {McpSet(m, line.key, line.rhs) : m \in raw.mcp}
  <2>1. raw' = [raw EXCEPT !.mcp = p] /\ errors' = (errors \/ ~McpKeyOk(line.key, line.rhs))
    BY <1>4 DEF Assign
  <2>2. /\ OptMcp(p) /\ p # {}
        /\ McpKeyOk(line.key, line.rhs) /\ McpAgrees(o, ls) => McpAgrees(p, ms)
    BY <1>1, <1>3, <1>4, McpSetAgrees
  <2>3. ExecutionAgrees(x, ls) => ExecutionAgrees(x, ms)
    BY <1>1, <1>3, <1>4, AgreesElsewhere
  <2> HIDE DEF p
  <2>4. /\ DOMAIN raw' = DOMAIN raw /\ raw'.capabilities = raw.capabilities /\ raw'.execution = raw.execution
        /\ raw'.mcp = p
    BY <1>1, <2>1
  <2>5. errors' \/ (~errors /\ McpKeyOk(line.key, line.rhs))
    BY <2>1
  <2>6. McpKeyOk(line.key, line.rhs) => Meant(line, section)
    BY <1>4 DEF Meant
  <2>7. McpKeyOk(line.key, line.rhs) =>
          /\ McpAgrees(raw.mcp, lines) => McpAgrees(raw'.mcp, lines')
          /\ ExecutionAgrees(raw.execution, lines) => ExecutionAgrees(raw'.execution, lines')
    BY <1>3, <2>2, <2>3, <2>4
  <2> QED BY <1>1, <1>2, <1>4, <2>2, <2>4, <2>5, <2>6, <2>7, ReadKeeps
<1>5. CASE section = "execution"
  <2> DEFINE p == {ExecutionSet(m, line.key, line.rhs) : m \in raw.execution}
  <2>1. raw' = [raw EXCEPT !.execution = p] /\ errors' = (errors \/ ~ExecutionKeyOk(line.key, line.rhs))
    BY <1>5 DEF Assign
  <2>2. /\ OptExecution(p) /\ p # {}
        /\ ExecutionKeyOk(line.key, line.rhs) /\ ExecutionAgrees(x, ls) => ExecutionAgrees(p, ms)
    BY <1>1, <1>3, <1>5, ExecutionSetAgrees
  <2>3. McpAgrees(o, ls) => McpAgrees(o, ms)
    BY <1>1, <1>3, <1>5, AgreesElsewhere
  <2> HIDE DEF p
  <2>4. /\ DOMAIN raw' = DOMAIN raw /\ raw'.capabilities = raw.capabilities /\ raw'.mcp = raw.mcp
        /\ raw'.execution = p
    BY <1>1, <2>1
  <2>5. errors' \/ (~errors /\ ExecutionKeyOk(line.key, line.rhs))
    BY <2>1
  <2>6. ExecutionKeyOk(line.key, line.rhs) => Meant(line, section)
    BY <1>5 DEF Meant
  <2>7. ExecutionKeyOk(line.key, line.rhs) =>
          /\ McpAgrees(raw.mcp, lines) => McpAgrees(raw'.mcp, lines')
          /\ ExecutionAgrees(raw.execution, lines) => ExecutionAgrees(raw'.execution, lines')
    BY <1>3, <2>2, <2>3, <2>4
  <2> QED BY <1>1, <1>2, <1>5, <2>2, <2>4, <2>5, <2>6, <2>7, ReadKeeps
<1>6. CASE section \in {"top", "capabilities"} /\ line.rhs.is # "string"
  <2>1. errors' /\ raw' = raw
    BY <1>6 DEF Assign
  <2> QED BY <1>1, <1>2, <2>1, ReadOther
<1>7. CASE section = "capabilities" /\ line.rhs.is = "string"
  <2> DEFINE c == raw.capabilities
             new == [c EXCEPT ![Len(c)] = CapabilitySet(c[Len(c)], line.key, line.rhs.value)]
  <2>1. raw' = [raw EXCEPT !.capabilities = new] /\ UNCHANGED errors
    BY <1>7 DEF Assign
  <2>2. new \in Seq(Entries) /\ Len(new) = Len(c)
    BY <1>1, <1>2, CapabilitySetOK
  <2> HIDE DEF new
  <2>3. /\ DOMAIN raw' = DOMAIN raw /\ raw'.capabilities = new /\ raw'.mcp = raw.mcp
        /\ raw'.execution = raw.execution
    BY <1>1, <2>1
  <2>4. Meant(line, section)
    BY <1>7 DEF Meant
  <2>5. errors' \/ ~errors
    BY <2>1
  <2> QED BY <1>1, <1>2, <1>7, <2>2, <2>3, <2>4, <2>5, ReadOther
<1>8. CASE section = "top" /\ line.rhs.is = "string"
  <2>1. raw' \in {[raw EXCEPT !.name = line.rhs.value], raw} /\ UNCHANGED errors
    BY <1>8 DEF Assign
  <2>2. /\ DOMAIN raw' = DOMAIN raw /\ raw'.capabilities = raw.capabilities /\ raw'.mcp = raw.mcp
        /\ raw'.execution = raw.execution
    BY <1>1, <2>1
  <2>3. Meant(line, section)
    BY <1>8 DEF Meant
  <2>4. errors' \/ ~errors
    BY <2>1
  <2> QED BY <1>1, <1>2, <1>8, <2>2, <2>3, <2>4, ReadOther
<1>9. section \in {"top", "capabilities", "mcp", "execution"}
  <2>1. PICK ls2, n : ls2 = lines /\ n = Len(lines) + 1 /\ n - 1 \in Nat /\ section = TableAt(ls2, n)
    BY DEF ParserInv, ParserShape
  <2>2. CASE HeadersAbove(ls2, n) = {}
    BY <2>1, <2>2 DEF TableAt
  <2>3. CASE HeadersAbove(ls2, n) # {}
    <3>1. HeadersAbove(ls2, n) \in SUBSET (1 .. (n - 1))
      BY DEF HeadersAbove
    <3>2. Greatest(HeadersAbove(ls2, n)) \in HeadersAbove(ls2, n)
      BY <2>1, <2>3, <3>1, HasGreatest
    <3>3. IsHeader(ls2[Greatest(HeadersAbove(ls2, n))])
      BY <3>2 DEF HeadersAbove
    <3> QED BY <2>1, <2>3, <3>3 DEF TableAt, IsHeader
  <2> QED BY <2>2, <2>3
<1> QED BY <1>4, <1>5, <1>6, <1>7, <1>8, <1>9

LEMMA ParserStep == ParserInv /\ [ProfileNext]_profileVars => ParserInv'
<1> SUFFICES ASSUME ParserInv, [ProfileNext]_profileVars PROVE ParserInv'
  OBVIOUS
<1>1. CASE UNCHANGED <<lines, section, raw, errors>>
  BY <1>1 DEF ParserInv, ParserShape, ParserAgrees
<1>2. ASSUME NEW line \in Lines, ReadLine(line) PROVE ParserInv'
  <2>1. Extends(lines, line, lines') /\ LineOK(line)
    BY <1>2, LinesAssumption DEF ReadLine, Extends, ParserInv, ParserShape
  <2>2. /\ DOMAIN raw = {"name", "capabilities", "mcp", "execution"}
        /\ raw.capabilities \in Seq(Entries)
    BY DEF ParserInv, ParserShape
  <2>3. CASE line.form = "table"
    BY <1>2, <2>1, <2>3, ReadHeader DEF ReadLine
  <2>4. CASE line.form = "assign"
    BY <1>2, <2>1, <2>4, ReadAssign DEF ReadLine
  <2>5. CASE line.form = "blank"
    <3>1. UNCHANGED <<section, raw, errors>>
      BY <1>2, <2>5 DEF ReadLine
    <3>2. Meant(line, section) /\ ~IsHeader(line)
      BY <2>5 DEF Meant, IsHeader
    <3>3. errors' \/ ~errors
      BY <3>1
    <3> QED BY <2>1, <2>2, <2>5, <3>1, <3>2, <3>3, ReadOther
  <2>6. CASE line.form = "junk"
    <3>1. errors' /\ UNCHANGED <<section, raw>>
      BY <1>2, <2>6 DEF ReadLine
    <3>2. ~IsHeader(line)
      BY <2>6 DEF IsHeader
    <3> QED BY <2>1, <2>2, <2>6, <3>1, <3>2, ReadOther
  <2> QED BY <2>1, <2>3, <2>4, <2>5, <2>6 DEF LineOK
<1> QED BY <1>1, <1>2 DEF ProfileNext, profileVars, Finish

-----------------------------------------------------------------------------
\* unwrap_or gives the last value its default.
LEMMA LastOr ==
  ASSUME NEW ls \in Seq(Lines), AllMeant(ls), NEW table \in {"mcp", "execution"}, NEW key, NEW default
  PROVE  LastGiven(ls, table, key, default) = Or(LastGiven(ls, table, key, NoValue), default)
<1> DEFINE given == GivenIn(ls, table, key)
           g == Greatest(given)
<1>1. CASE given = {}
  BY <1>1 DEF LastGiven, Or
<1>2. CASE given # {}
  <2>1. Len(ls) \in Nat /\ given \in SUBSET (1 .. Len(ls)) /\ DOMAIN ls = 1 .. Len(ls)
    BY DEF GivenIn
  <2>2. g \in given
    BY <1>2, <2>1, HasGreatest
  <2>3. g \in DOMAIN ls /\ ls[g].form = "assign" /\ TableAt(ls, g) = table
    BY <2>2 DEF GivenIn
  <2>4. McpKeyOk(ls[g].key, ls[g].rhs) \/ ExecutionKeyOk(ls[g].key, ls[g].rhs)
    BY <2>3 DEF AllMeant, Meant, IsHeader
  <2>5. ls[g].rhs.is # "none"
    BY <2>4 DEF McpKeyOk, ExecutionKeyOk
  <2>6. LineOK(ls[g])
    BY <2>3, LinesAssumption
  <2>7. ls[g].rhs.value # NoValue
    BY <2>3, <2>5, <2>6 DEF LineOK
  <2> QED BY <1>2, <2>7 DEF LastGiven, Or
<1> QED BY <1>1, <1>2

\* The property's reading of the file is the one of this module.
LEMMA SameReading ==
  /\ \A i : TableOf(i) = TableAt(lines, i)
  /\ \A table, key, default : LastIn(table, key, default) = LastGiven(lines, table, key, default)
<1>1. \A i : TableOf(i) = TableAt(lines, i)
  BY DEF TableOf, TableAt, Greatest, HeadersAbove, IsHeader
<1>2. ASSUME NEW table, NEW key, NEW default
      PROVE  LastIn(table, key, default) = LastGiven(lines, table, key, default)
  <2> DEFINE given == {i \in DOMAIN lines : /\ lines[i].form = "assign" /\ lines[i].key = key
                                            /\ TableOf(i) = table}
  <2>1. LastIn(table, key, default) =
          IF given = {} THEN default ELSE lines[CHOOSE i \in given : \A k \in given : k <= i].rhs.value
    BY DEF LastIn
  <2>2. given = GivenIn(lines, table, key)
    BY <1>1 DEF GivenIn
  <2> HIDE DEF given
  <2> QED BY <2>1, <2>2 DEF LastGiven, Greatest
<1> QED BY <1>1, <1>2

\* What one entry declares.
LEMMA DeclaredOK ==
  ASSUME NEW e, Declared(e) # {}
  PROVE  /\ (CHOOSE x \in Declared(e) : TRUE).kind \notin {"all", "none", "unknown"}
         /\ (CHOOSE x \in Declared(e) : TRUE).kind # "memory_preview" =>
              (CHOOSE x \in Declared(e) : TRUE).at \notin {NoValue, ""}
<1>1. PICK k, v, c : /\ k = Canonical(e.type) /\ v = RequiredValue(e, k)
                     /\ c = CHOOSE x \in Declared(e) : TRUE
  OBVIOUS
<1>2. k \in {"read_file", "write_file", "list_dir", "http_get", "http_post", "execute",
             "mount_tmpfs", "memory_preview", "unknown"}
  BY <1>1 DEF Canonical
<1>3. k # "unknown"
  BY <1>1 DEF Declared
<1>4. v # "" \/ v = NoValue
  BY <1>1 DEF RequiredValue
<1>5. CASE k = "memory_preview"
  <2>1. Declared(e) = {[kind |-> k]}
    BY <1>1, <1>3, <1>5 DEF Declared
  <2>2. c = [kind |-> k]
    BY <1>1, <2>1
  <2>3. c.kind = "memory_preview"
    BY <1>5, <2>2
  <2> QED BY <1>1, <2>3
<1>6. CASE k # "memory_preview"
  <2>1. v # NoValue /\ Declared(e) = {[kind |-> k, at |-> v]}
    BY <1>1, <1>3, <1>6 DEF Declared
  <2>2. c = [kind |-> k, at |-> v]
    BY <1>1, <2>1
  <2>3. c.kind = k /\ c.at = v
    BY <2>2
  <2>4. c.kind \notin {"all", "none", "unknown"} /\ c.at \notin {NoValue, ""}
    BY <1>2, <1>3, <1>4, <2>1, <2>3
  <2> QED BY <1>1, <2>4
<1> QED BY <1>5, <1>6

\* What the end of the file makes of what was read.
LEMMA FinishFaithful ==
  ASSUME ParserInv, Finish
  PROVE  ManifestIsFaithful'
<1> DEFINE caps == [i \in DOMAIN raw.capabilities |-> CHOOSE c \in Declared(raw.capabilities[i]) : TRUE]
<1>1. lines' = lines
  BY DEF Finish
<1>2. CASE errors \/ ~CapabilitiesOk
  BY <1>2 DEF Finish, ManifestIsFaithful
<1>3. CASE ~(errors \/ ~CapabilitiesOk)
  <2>1. PICK m : /\ manifest' = {m} /\ m.capabilities = caps /\ m.mcp = McpPolicy
                 /\ m.execution = ExecutionPolicy
    <3>1. PICK n : n = IF raw.name \in {NoValue, ""} THEN "stem" ELSE raw.name
      OBVIOUS
    <3>2. manifest' = {[name |-> n, capabilities |-> caps, mcp |-> McpPolicy, execution |-> ExecutionPolicy]}
      BY <1>3, <3>1 DEF Finish
    <3> HIDE DEF caps
    <3>3. PICK m : m = [name |-> n, capabilities |-> caps, mcp |-> McpPolicy, execution |-> ExecutionPolicy]
      OBVIOUS
    <3> QED BY <3>2, <3>3
  <2>2. ParserShape /\ ParserAgrees /\ CapabilitiesOk
    BY <1>3 DEF ParserInv
  <2>3. \A f \in Flags : McpPolicy.flags[f] = LastGiven(lines, "mcp", f, FALSE)
    <3>1. \A f \in Flags : McpPolicy.flags[f] = Or(TableOr(raw.mcp, RawMcp).flags[f], FALSE)
      BY DEF McpPolicy
    <3> QED BY <2>2, <3>1, LastOr DEF ParserAgrees, ParserShape, McpAgrees
  <2>4. McpPolicy.tool_allowlist = LastGiven(lines, "mcp", "tool_allowlist", NoValue)
    BY <2>2 DEF McpPolicy, ParserAgrees, McpAgrees
  <2>5. /\ ExecutionPolicy.daemon_auth_required = LastGiven(lines, "execution", "daemon_auth_required", FALSE)
        /\ ExecutionPolicy.module_dirs = LastGiven(lines, "execution", "module_dirs", {})
    <3>1. /\ ExecutionPolicy.daemon_auth_required =
               Or(TableOr(raw.execution, RawExecution)["daemon_auth_required"], FALSE)
          /\ ExecutionPolicy.module_dirs = Or(TableOr(raw.execution, RawExecution)["module_dirs"], {})
      BY DEF ExecutionPolicy
    <3> QED BY <2>2, <3>1, LastOr, ZenonT(30) DEF ParserAgrees, ParserShape, ExecutionAgrees
  <2>6. Len(caps) = Cardinality(CapHeaders(lines))
    <3>1. DOMAIN raw.capabilities = 1 .. Len(raw.capabilities) /\ Len(raw.capabilities) \in Nat
      BY <2>2 DEF ParserShape
    <3>2. DOMAIN caps = 1 .. Len(raw.capabilities)
      BY <3>1
    <3>3. caps \in [1 .. Len(raw.capabilities) -> {caps[i] : i \in 1 .. Len(raw.capabilities)}]
      BY <3>1
    <3>4. caps \in Seq({caps[i] : i \in 1 .. Len(raw.capabilities)})
      BY <3>1, <3>3, SeqDef, ZenonT(30)
    <3>5. Len(caps) = Len(raw.capabilities)
      <4> HIDE DEF caps
      <4> QED BY <3>1, <3>2, <3>4, LenProperties
    <3> QED BY <2>2, <3>5 DEF ParserShape
  <2>7. \A i \in DOMAIN caps : /\ caps[i].kind \notin {"all", "none", "unknown"}
                               /\ caps[i].kind # "memory_preview" => caps[i].at \notin {NoValue, ""}
    BY <2>2, DeclaredOK DEF CapabilitiesOk
  <2>8. ASSUME NEW i \in DOMAIN lines
        PROVE  \/ lines[i].form = "blank"
               \/ lines[i].form = "table" /\ lines[i].name \in {"capabilities", "mcp", "execution"}
               \/ lines[i].form = "assign" /\
                    CASE TableAt(lines, i) = "mcp" -> lines[i].key \in Flags \cup {"tool_allowlist"}
                      [] TableAt(lines, i) = "execution" ->
                           lines[i].key \in {"module_dirs", "daemon_auth_required"}
                      [] OTHER -> lines[i].rhs.is = "string"
    <3>1. Meant(lines[i], TableAt(lines, i))
      BY <2>2 DEF ParserAgrees, AllMeant
    <3> QED BY <3>1 DEF Meant, IsHeader, McpKeyOk, ExecutionKeyOk
  <2> HIDE DEF caps
  <2>9. ManifestIsFaithful'
    <3> SUFFICES ASSUME NEW q, q = m
                 PROVE  /\ \A f \in Flags : q.mcp.flags[f] = LastIn("mcp", f, FALSE)'
                        /\ q.mcp.tool_allowlist = LastIn("mcp", "tool_allowlist", NoValue)'
                        /\ q.execution.daemon_auth_required = LastIn("execution", "daemon_auth_required", FALSE)'
                        /\ q.execution.module_dirs = LastIn("execution", "module_dirs", {})'
                        /\ Len(q.capabilities) = Cardinality(CapHeaders(lines'))
                        /\ \A i \in DOMAIN q.capabilities :
                             /\ q.capabilities[i].kind \notin {"all", "none", "unknown"}
                             /\ q.capabilities[i].kind # "memory_preview" =>
                                  q.capabilities[i].at \notin {NoValue, ""}
                        /\ \A i \in DOMAIN lines' :
                             \/ lines'[i].form = "blank"
                             \/ /\ lines'[i].form = "table"
                                /\ lines'[i].name \in {"capabilities", "mcp", "execution"}
                             \/ lines'[i].form = "assign" /\
                                  CASE TableOf(i)' = "mcp" -> lines'[i].key \in Flags \cup {"tool_allowlist"}
                                    [] TableOf(i)' = "execution" ->
                                         lines'[i].key \in {"module_dirs", "daemon_auth_required"}
                                    [] OTHER -> lines'[i].rhs.is = "string"
      BY <2>1 DEF ManifestIsFaithful, CapHeaders
    <3>1. /\ \A i : TableOf(i)' = TableAt(lines, i)
          /\ \A table, key, default : LastIn(table, key, default)' = LastGiven(lines, table, key, default)
      <4>1. /\ \A i : TableOf(i)' = TableOf(i)
            /\ \A table, key, default : LastIn(table, key, default)' = LastIn(table, key, default)
        BY <1>1 DEF TableOf, LastIn
      <4> QED BY <4>1, SameReading
    <3> QED BY <1>1, <2>1, <2>3, <2>4, <2>5, <2>6, <2>7, <2>8, <3>1
  <2> QED BY <2>9
<1> QED BY <1>2, <1>3

\* A profile that load_and_validate accepts says what its file says, whatever
\* the lines and their order: the policies are the last values given in their
\* own tables and off otherwise, every entry became one capability with its
\* value, and no line without a meaning was let through.
THEOREM ManifestAlwaysFaithful == ProfileSpec => []ManifestIsFaithful
<1>1. ProfileInit => ManifestIsFaithful
  BY DEF ProfileInit, ManifestIsFaithful
<1>2. ASSUME ParserInv, ManifestIsFaithful, [ProfileNext]_profileVars PROVE ManifestIsFaithful'
  <2>1. CASE UNCHANGED profileVars
    <3>1. lines' = lines /\ manifest' = manifest
      BY <2>1 DEF profileVars
    <3>2. /\ \A i : TableOf(i)' = TableOf(i)
          /\ \A table, key, default : LastIn(table, key, default)' = LastIn(table, key, default)
      BY <3>1 DEF TableOf, LastIn
    <3> QED BY <1>2, <3>1, <3>2 DEF ManifestIsFaithful
  <2>2. CASE Finish
    BY <1>2, <2>2, FinishFaithful
  <2>3. ASSUME NEW line \in Lines, ReadLine(line) PROVE ManifestIsFaithful'
    BY <2>3 DEF ReadLine, ManifestIsFaithful
  <2> QED BY <1>2, <2>1, <2>2, <2>3 DEF ProfileNext
<1> QED BY <1>1, <1>2, ParserInit, ParserStep, PTL DEF ProfileSpec

-----------------------------------------------------------------------------
(***************************************************************************)
(* Replay detection for any number of verifiers, envelopes and keys, any   *)
(* clocks and any timing of timeouts, lost answers, restarts and purges.   *)
(*                                                                         *)
(* ReplayDetected alone is not inductive: it speaks of what was accepted,  *)
(* while the next acceptance is decided by the rows and by a clock read    *)
(* before the transaction began.  Kept says why the two agree: what was    *)
(* accepted has its row, with an expiry no earlier, or is older than any   *)
(* clock reading that a consumption in progress may have been checked      *)
(* against, which is what the margin of the cutoff is for.                 *)
(***************************************************************************)
\* The replay key of an envelope: it commits to the key that signed it.
RowOf(e) == <<<<e.signer, e.tenant>>, e.nonce>>

CallRecord ==
  [at : {"begin", "inserted", "conflict", "extended"}, env : Envelopes,
   row : {RowOf(e) : e \in Envelopes}, read : Int, since : Nat]

RecallTypeOK ==
  /\ verify \in [Verifiers -> CallRecord \cup {NoCall}]
  /\ \A k \in DOMAIN rows : rows[k] \in Int
  /\ time \in Nat /\ accepted \in Seq(CallRecord)

\* A consumption in progress is for its envelope's replay key, and its clock
\* was read at most the operation timeout ago.
CallsTimed ==
  \A v \in Verifiers : verify[v].at # "idle" =>
    /\ verify[v].row = RowOf(verify[v].env)
    /\ verify[v].read = verify[v].since + ClockOffset[v]
    /\ verify[v].since <= time /\ time - verify[v].since <= OperationTimeout

\* A row inserted by an open transaction is in nobody else's sight, and no
\* second one inserts it.
InsertedAlone ==
  \A v \in Verifiers : verify[v].at = "inserted" =>
    /\ verify[v].row \notin DOMAIN rows
    /\ \A w \in Verifiers \ {v} : verify[w].at = "inserted" => verify[w].row # verify[v].row

\* What was accepted still has its row, or is older than any purge's cutoff.
KeptOne(a) ==
  /\ a.row = RowOf(a.env)
  /\ \/ a.row \in DOMAIN rows /\ rows[a.row] >= a.env.expires
     \/ a.env.expires < time - PurgeMargin
Kept == \A i \in DOMAIN accepted : KeptOne(accepted[i])

RecallInv ==
  RecallTypeOK /\ CallsTimed /\ InsertedAlone /\ ConflictRowStays /\ Kept /\ ReplayDetected

-----------------------------------------------------------------------------
\* A call in progress is a record of the fields verify_json carries.
LEMMA CallInProgress ==
  ASSUME RecallTypeOK, NEW v \in Verifiers
  PROVE  /\ verify[v].at # "idle" => verify[v] \in CallRecord
         /\ verify[v].at = "idle" => verify[v] = NoCall
         /\ NoCall.at = "idle"
         /\ \A r \in CallRecord : r.at # "idle" /\ r # NoCall
BY DEF RecallTypeOK, CallRecord, NoCall

LEMMA RecallInitInv == RecallInit => RecallInv
<1> SUFFICES ASSUME RecallInit PROVE RecallInv
  OBVIOUS
<1>1. rows = <<>> /\ accepted = <<>> /\ time = 0 /\ DOMAIN rows = {} /\ DOMAIN accepted = {}
  BY DEF RecallInit
<1>2. \A v \in Verifiers : verify[v] = NoCall /\ verify[v].at = "idle"
  BY DEF RecallInit, NoCall
<1>3. RecallTypeOK
  BY <1>1, EmptySeq DEF RecallInit, RecallTypeOK
<1>4. CallsTimed /\ InsertedAlone /\ ConflictRowStays /\ Kept /\ ReplayDetected
  BY <1>1, <1>2 DEF CallsTimed, InsertedAlone, ConflictRowStays, Kept, ReplayDetected
<1> QED BY <1>3, <1>4 DEF RecallInv

\* A step that only ends the call of one verifier.
LEMMA EndCall ==
  ASSUME RecallInv, NEW v \in Verifiers, verify' = [verify EXCEPT ![v] = NoCall],
         UNCHANGED <<rows, time, accepted>>
  PROVE  RecallInv'
<1>1. /\ verify'[v] = NoCall /\ verify'[v].at = "idle"
      /\ \A w \in Verifiers \ {v} : verify'[w] = verify[w]
      /\ verify' \in [Verifiers -> CallRecord \cup {NoCall}]
  BY CallInProgress DEF RecallInv, RecallTypeOK
<1>2. RecallTypeOK' /\ CallsTimed'
  BY <1>1 DEF RecallInv, RecallTypeOK, CallsTimed
<1>3. InsertedAlone' /\ ConflictRowStays'
  BY <1>1 DEF RecallInv, InsertedAlone, ConflictRowStays
<1>4. Kept' /\ ReplayDetected'
  BY DEF RecallInv, Kept, KeptOne, ReplayDetected
<1> QED BY <1>2, <1>3, <1>4 DEF RecallInv

\* verify_json up to consume_once: the namespace it derives is that of the
\* key the signature was checked with.
LEMMA VerifyJsonStep ==
  ASSUME RecallInv, NEW v \in Verifiers, VerifyJson(v)
  PROVE  RecallInv'
<1>1. PICK e \in Envelopes :
        /\ Signed(v, e)
        /\ verify' = [verify EXCEPT ![v] =
             [at |-> "begin", env |-> e, row |-> <<ReplayNamespace(v, e), e.nonce>>,
              read |-> ClockOf(v), since |-> time]]
  BY DEF VerifyJson
<1>2. <<ReplayNamespace(v, e), e.nonce>> = RowOf(e)
  BY <1>1 DEF Signed, ReplayNamespace, RowOf
<1> DEFINE r == [at |-> "begin", env |-> e, row |-> RowOf(e), read |-> ClockOf(v), since |-> time]
<1>3. /\ r \in CallRecord /\ r.at = "begin" /\ r.row = RowOf(e) /\ r.env = e
      /\ r.read = time + ClockOffset[v] /\ r.since = time
  BY RecallAssumption DEF RecallInv, RecallTypeOK, CallRecord, ClockOf
<1>4. verify' = [verify EXCEPT ![v] = r] /\ UNCHANGED <<rows, time, accepted>>
  BY <1>1, <1>2 DEF VerifyJson
<1> HIDE DEF r
<1>5. /\ verify'[v] = r /\ \A w \in Verifiers \ {v} : verify'[w] = verify[w]
      /\ verify' \in [Verifiers -> CallRecord \cup {NoCall}]
  BY <1>3, <1>4 DEF RecallInv, RecallTypeOK
<1>6. RecallTypeOK'
  BY <1>4, <1>5 DEF RecallInv, RecallTypeOK
<1>7. CallsTimed'
  BY <1>3, <1>4, <1>5, SafeCutoff DEF RecallInv, RecallTypeOK, CallsTimed
<1>8. InsertedAlone' /\ ConflictRowStays'
  BY <1>3, <1>4, <1>5 DEF RecallInv, InsertedAlone, ConflictRowStays
<1>9. Kept' /\ ReplayDetected'
  BY <1>4 DEF RecallInv, Kept, KeptOne, ReplayDetected
<1> QED BY <1>6, <1>7, <1>8, <1>9 DEF RecallInv

\* A statement of the transaction: only where the call is changes.
LEMMA PhaseStep ==
  ASSUME RecallInv, NEW v \in Verifiers, NEW at \in {"inserted", "conflict", "extended"},
         verify[v].at # "idle", Phase(v, at), UNCHANGED <<rows, time, accepted>>,
         at = "inserted" => verify[v].row \notin DOMAIN rows /\ Others(v, "inserted") = {},
         at # "inserted" => verify[v].row \in DOMAIN rows
  PROVE  RecallInv'
<1>0. verify[v] \in CallRecord
  BY CallInProgress DEF RecallInv
<1> DEFINE r == [verify[v] EXCEPT !.at = at]
<1>1. /\ r \in CallRecord /\ r.at = at /\ r.env = verify[v].env /\ r.row = verify[v].row
      /\ r.read = verify[v].read /\ r.since = verify[v].since
  BY <1>0 DEF CallRecord
<1>2. verify' = [verify EXCEPT ![v] = r]
  BY DEF Phase
<1> HIDE DEF r
<1>3. /\ verify'[v] = r /\ \A w \in Verifiers \ {v} : verify'[w] = verify[w]
      /\ verify' \in [Verifiers -> CallRecord \cup {NoCall}]
  BY <1>1, <1>2 DEF RecallInv, RecallTypeOK
<1>4. RecallTypeOK'
  BY <1>3 DEF RecallInv, RecallTypeOK
<1>5. CallsTimed'
  BY <1>1, <1>3 DEF RecallInv, CallsTimed
<1>6. \A w \in Verifiers \ {v} : at = "inserted" /\ verify[w].at = "inserted" => verify[w].row # verify[v].row
  BY DEF Others, InTransaction
<1>7. InsertedAlone'
  BY <1>1, <1>3, <1>6 DEF RecallInv, InsertedAlone
<1>8. ConflictRowStays'
  BY <1>1, <1>3 DEF RecallInv, ConflictRowStays
<1>9. Kept' /\ ReplayDetected'
  BY DEF RecallInv, Kept, KeptOne, ReplayDetected
<1> QED BY <1>4, <1>5, <1>7, <1>8, <1>9 DEF RecallInv

\* The row a commit leaves: no expiry moves back, and no row goes.
LEMMA CommittedRows ==
  ASSUME RecallInv, NEW v \in Verifiers, verify[v].at \in {"inserted", "extended"}
  PROVE  LET r == verify[v].row IN
         /\ DOMAIN Committed(v) = DOMAIN rows \cup {r}
         /\ \A k \in DOMAIN Committed(v) : Committed(v)[k] \in Int
         /\ \A k \in DOMAIN rows : Committed(v)[k] >= rows[k]
         /\ Committed(v)[r] >= verify[v].env.expires
         /\ \A k \in DOMAIN rows \ {r} : Committed(v)[k] = rows[k]
<1>1. verify[v] \in CallRecord /\ verify[v].env.expires \in Int
  BY CallInProgress, RecallAssumption DEF RecallInv, CallRecord
<1>2. \A k \in DOMAIN rows : rows[k] \in Int
  BY DEF RecallInv, RecallTypeOK
<1>3. CASE verify[v].at = "inserted"
  <2>1. verify[v].row \notin DOMAIN rows
    BY <1>3 DEF RecallInv, InsertedAlone
  <2> QED BY <1>1, <1>2, <1>3, <2>1 DEF Committed
<1>4. CASE verify[v].at = "extended"
  <2>1. verify[v].row \in DOMAIN rows
    BY <1>4 DEF RecallInv, ConflictRowStays
  <2> QED BY <1>1, <1>2, <1>4, <2>1 DEF Committed, Larger
<1> QED BY <1>3, <1>4

\* A commit, whether or not its answer arrives.
LEMMA CommitStep ==
  ASSUME RecallInv, NEW v \in Verifiers, Commit(v) \/ CommitUnanswered(v)
  PROVE  RecallInv'
<1> DEFINE r == verify[v].row
<1>0. verify[v].at \in {"inserted", "extended"} /\ verify[v] \in CallRecord
  BY CallInProgress DEF Commit, CommitUnanswered, RecallInv
<1>1. /\ rows' = Committed(v) /\ verify' = [verify EXCEPT ![v] = NoCall] /\ time' = time
      /\ \/ accepted' = accepted
         \/ verify[v].at = "inserted" /\ accepted' = Append(accepted, verify[v])
  BY DEF Commit, CommitUnanswered
<1>2. /\ verify'[v] = NoCall /\ verify'[v].at = "idle"
      /\ \A w \in Verifiers \ {v} : verify'[w] = verify[w]
      /\ verify' \in [Verifiers -> CallRecord \cup {NoCall}]
  BY <1>1, CallInProgress DEF RecallInv, RecallTypeOK
<1>3. /\ DOMAIN rows' = DOMAIN rows \cup {r}
      /\ \A k \in DOMAIN rows' : rows'[k] \in Int
      /\ \A k \in DOMAIN rows : rows'[k] >= rows[k]
      /\ rows'[r] >= verify[v].env.expires
  BY <1>0, <1>1, CommittedRows
<1>4. RecallTypeOK'
  BY <1>0, <1>1, <1>2, <1>3, AppendProperties DEF RecallInv, RecallTypeOK
<1>5. CallsTimed'
  BY <1>1, <1>2 DEF RecallInv, CallsTimed
<1>6. InsertedAlone'
  BY <1>0, <1>2, <1>3 DEF RecallInv, InsertedAlone, ConflictRowStays
<1>7. ConflictRowStays'
  BY <1>2, <1>3 DEF RecallInv, ConflictRowStays
<1>8. \A a \in CallRecord : KeptOne(a) => KeptOne(a)'
  <2> SUFFICES ASSUME NEW a \in CallRecord, KeptOne(a) PROVE KeptOne(a)'
    OBVIOUS
  <2>1. a.env.expires \in Int
    BY RecallAssumption DEF CallRecord
  <2> QED BY <1>1, <1>3, <2>1 DEF KeptOne, RecallInv, RecallTypeOK
<1>9. CASE accepted' = accepted
  <2>1. Kept' /\ ReplayDetected'
    BY <1>8, <1>9 DEF RecallInv, RecallTypeOK, Kept, ReplayDetected
  <2> QED BY <1>4, <1>5, <1>6, <1>7, <2>1 DEF RecallInv
<1>10. CASE verify[v].at = "inserted" /\ accepted' = Append(accepted, verify[v])
  <2>1. /\ DOMAIN accepted = 1 .. Len(accepted) /\ Len(accepted) \in Nat
        /\ DOMAIN accepted' = 1 .. Len(accepted) + 1
        /\ \A i \in DOMAIN accepted : accepted'[i] = accepted[i] /\ accepted[i] \in CallRecord
        /\ accepted'[Len(accepted) + 1] = verify[v]
    BY <1>0, <1>10, AppendProperties DEF RecallInv, RecallTypeOK
  <2>2. \A a \in CallRecord : a = verify[v] => KeptOne(a)'
    <3>1. verify[v].row = RowOf(verify[v].env)
      BY <1>0 DEF RecallInv, CallsTimed
    <3> QED BY <1>3, <3>1 DEF KeptOne
  <2>3. Kept'
    BY <1>0, <1>8, <2>1, <2>2 DEF RecallInv, Kept
  <2>4. ASSUME NEW i \in DOMAIN accepted, SameNonce(accepted[i].env, verify[v].env)
        PROVE  verify[v].read >= accepted[i].env.expires
    <3>1. /\ accepted[i].row = RowOf(accepted[i].env) /\ KeptOne(accepted[i])
          /\ verify[v].row = RowOf(verify[v].env)
      BY <1>0 DEF RecallInv, Kept, KeptOne, CallsTimed
    <3>2. accepted[i].row = verify[v].row
      BY <2>4, <3>1 DEF SameNonce, RowOf
    <3>3. accepted[i].env.expires < time - PurgeMargin
      BY <1>10, <3>1, <3>2 DEF KeptOne, RecallInv, InsertedAlone
    <3>4. /\ verify[v].read = verify[v].since + ClockOffset[v]
          /\ time - verify[v].since <= OperationTimeout
          /\ verify[v].since \in Nat /\ time \in Nat
      BY <1>0 DEF RecallInv, CallsTimed, CallRecord, RecallTypeOK
    <3>5. accepted[i].env.expires \in Int
      BY <2>1, RecallAssumption DEF CallRecord
    <3> QED BY <3>3, <3>4, <3>5, SafeCutoff, RecallAssumption
  <2>5. ReplayDetected'
    BY <2>1, <2>4 DEF RecallInv, ReplayDetected
  <2> QED BY <1>4, <1>5, <1>6, <1>7, <2>3, <2>5 DEF RecallInv
<1> QED BY <1>1, <1>9, <1>10

\* A purge, under the exclusive lock: nobody is in a transaction, and what
\* goes has expired before every reading a consumption may still use.
LEMMA PurgeStep ==
  ASSUME RecallInv, PurgeExpiredBefore
  PROVE  RecallInv'
<1>0. PICK cutoff \in 0 .. (time - PurgeMargin) : \E purged \in Batch(cutoff) :
        /\ rows' = [k \in DOMAIN rows \ purged |-> rows[k]]
        /\ UNCHANGED <<trusted, verify, time, accepted>>
  BY DEF PurgeExpiredBefore, PurgeUnlocked
<1>1. PICK purged \in Batch(cutoff) :
        /\ rows' = [k \in DOMAIN rows \ purged |-> rows[k]]
        /\ UNCHANGED <<trusted, verify, time, accepted>>
  BY <1>0
<1>2. \A k \in purged : k \in DOMAIN rows /\ rows[k] < cutoff
  BY <1>1 DEF Batch, Expired
<1>3. \A v \in Verifiers : verify[v].at \notin {"inserted", "conflict", "extended"}
  BY DEF PurgeExpiredBefore, InTransaction
<1>4. RecallTypeOK' /\ CallsTimed' /\ InsertedAlone' /\ ConflictRowStays' /\ ReplayDetected'
  BY <1>1, <1>3 DEF RecallInv, RecallTypeOK, CallsTimed, InsertedAlone, ConflictRowStays, ReplayDetected
<1>5. Kept'
  <2> SUFFICES ASSUME NEW i \in DOMAIN accepted PROVE KeptOne(accepted[i])'
    BY <1>1 DEF Kept
  <2>1. KeptOne(accepted[i]) /\ accepted[i] \in CallRecord /\ accepted'[i] = accepted[i]
    BY <1>1 DEF RecallInv, Kept, RecallTypeOK
  <2>2. accepted[i].env.expires \in Int /\ time \in Nat
    BY <2>1, RecallAssumption DEF CallRecord, RecallInv, RecallTypeOK
  <2>3. CASE accepted[i].row \in purged
    <3>1. rows[accepted[i].row] \in Int
      BY <1>2, <2>3 DEF RecallInv, RecallTypeOK
    <3> QED BY <1>1, <1>2, <2>1, <2>2, <2>3, <3>1, RecallAssumption DEF KeptOne
  <2>4. CASE accepted[i].row \notin purged
    BY <1>1, <2>1, <2>4 DEF KeptOne
  <2> QED BY <2>3, <2>4
<1> QED BY <1>4, <1>5 DEF RecallInv

\* Time passes, but not beyond the timeout of a consumption in progress.
LEMMA TickStep ==
  ASSUME RecallInv, RecallTick
  PROVE  RecallInv'
<1>1. time' = time + 1 /\ UNCHANGED <<trusted, verify, rows, accepted>> /\ time \in Nat
  BY DEF RecallTick, RecallInv, RecallTypeOK
<1>2. CallsTimed'
  <2>1. ASSUME NEW v \in Verifiers, verify[v].at # "idle"
        PROVE  verify[v].since <= time' /\ time' - verify[v].since <= OperationTimeout
    <3>1. verify[v] # NoCall /\ verify[v].since \in Nat
      BY <2>1, CallInProgress DEF RecallInv, CallRecord
    <3> QED BY <1>1, <2>1, <3>1, SafeCutoff DEF RecallTick, RecallInv, CallsTimed
  <2>2. verify' = verify
    BY <1>1
  <2> QED BY <2>1, <2>2 DEF RecallInv, CallsTimed
<1>3. RecallTypeOK' /\ InsertedAlone' /\ ConflictRowStays' /\ ReplayDetected'
  BY <1>1 DEF RecallInv, RecallTypeOK, InsertedAlone, ConflictRowStays, ReplayDetected
<1>4. Kept'
  <2> SUFFICES ASSUME NEW i \in DOMAIN accepted PROVE KeptOne(accepted[i])'
    BY <1>1 DEF Kept
  <2>1. KeptOne(accepted[i]) /\ accepted[i] \in CallRecord /\ accepted'[i] = accepted[i]
    BY <1>1 DEF RecallInv, Kept, RecallTypeOK
  <2>2. accepted[i].env.expires \in Int
    BY <2>1, RecallAssumption DEF CallRecord
  <2> QED BY <1>1, <2>1, <2>2, RecallAssumption DEF KeptOne
<1> QED BY <1>2, <1>3, <1>4 DEF RecallInv

\* Every step keeps the invariant.
LEMMA RecallNextInv == RecallInv /\ [RecallNext]_recallVars => RecallInv'
<1> SUFFICES ASSUME RecallInv, [RecallNext]_recallVars PROVE RecallInv'
  OBVIOUS
<1>1. ASSUME NEW v \in Verifiers, InsertNonce(v)
      PROVE  RecallInv'
  BY <1>1, PhaseStep DEF InsertNonce
<1>2. ASSUME NEW v \in Verifiers, Extend(v)
      PROVE  RecallInv'
  BY <1>2, PhaseStep DEF Extend
<1>3. ASSUME NEW v \in Verifiers, Abort(v) \/ Restart(v)
      PROVE  RecallInv'
  BY <1>3, EndCall DEF Abort, Restart
<1>4. CASE UNCHANGED recallVars
  BY <1>4 DEF recallVars, RecallInv, RecallTypeOK, CallsTimed, InsertedAlone, ConflictRowStays,
              Kept, KeptOne, ReplayDetected
<1> QED BY <1>1, <1>2, <1>3, <1>4, VerifyJsonStep, CommitStep, PurgeStep, TickStep DEF RecallNext

\* For any verifiers, keys, envelopes, clocks, timeouts and purge batches: a
\* nonce is accepted again only by a verification whose clock had reached the
\* expiry it was accepted with.
THEOREM ReplayAlwaysDetected == RecallSpec => []ReplayDetected
<1>1. RecallInv => ReplayDetected
  BY DEF RecallInv
<1> QED BY <1>1, RecallInitInv, RecallNextInv, PTL DEF RecallSpec

\* For the same: the row a consumer conflicted with is there when it looks it
\* up, so the RowNotFound branch of consume_transaction is not reached.
THEOREM ConflictRowAlwaysStays == RecallSpec => []ConflictRowStays
<1>1. RecallInv => ConflictRowStays
  BY DEF RecallInv
<1> QED BY <1>1, RecallInitInv, RecallNextInv, PTL DEF RecallSpec

-----------------------------------------------------------------------------
(***************************************************************************)
(* The daemon's pool for any number of connections and hypervisors.  The   *)
(* counts of NoInstanceLost and ShortageIsTransient are not inductive by   *)
(* themselves: they need to know which connections hold an instance (those *)
(* between pop and drop), that the queue holds nothing twice, and that the *)
(* queue, the borrowers and the detached tasks have no instance in common. *)
(***************************************************************************)
Holding == {"lookup", "compile", "insert", "swap", "run", "drop"}
Between == {"pop", "release"}

PoolTypeOK ==
  /\ pc = [c \in Conns |-> pc[c]] /\ DOMAIN conn = Conns
  /\ available \in Seq(Hvs) /\ returning \in SUBSET Hvs /\ permits \in Nat /\ up \in BOOLEAN

\* A connection holds an instance exactly from the pop to the drop.
BorrowOK ==
  \A c \in Conns :
    /\ DOMAIN conn[c] = {"wasm", "proof", "hv", "engine", "module", "reply"}
    /\ IF pc[c] \in Holding THEN conn[c].hv \in Hvs ELSE conn[c].hv = NoHv

\* Each instance is in one place ...
OnePlace ==
  /\ \A i, j \in DOMAIN available : available[i] = available[j] => i = j
  /\ \A c, d \in Conns : conn[c].hv \in Hvs /\ conn[c].hv = conn[d].hv => c = d
  /\ \A i \in DOMAIN available : available[i] \notin returning
  /\ \A i \in DOMAIN available, c \in Conns : available[i] # conn[c].hv
  /\ \A c \in Conns : conn[c].hv \notin returning

\* ... and each is somewhere.
SomePlace ==
  \A h \in Hvs :
    \/ h \in returning \/ \E i \in DOMAIN available : available[i] = h
    \/ \E c \in Conns : conn[c].hv = h

PoolInv ==
  /\ PoolTypeOK /\ BorrowOK
  /\ up => OnePlace /\ SomePlace
  /\ ShortageIsTransient

Waiting == {c \in Conns : pc[c] \in Between}

-----------------------------------------------------------------------------
LEMMA QuietConn ==
  /\ DOMAIN Quiet = {"wasm", "proof", "hv", "engine", "module", "reply"} /\ Quiet.hv = NoHv
BY DEF Quiet

\* HypervisorPool::new puts every instance into the queue.
LEMMA PoolInitInv == Init => PoolInv
<1> SUFFICES ASSUME Init PROVE PoolInv
  OBVIOUS
<1>0. Cardinality(Hvs) \in Nat
  BY PoolAssumption, FS_CardinalityType
<1>1. /\ available \in [1 .. Cardinality(Hvs) -> Hvs] /\ available \in Injection(1 .. Cardinality(Hvs), Hvs)
      /\ \A i, j \in 1 .. Cardinality(Hvs) : available[i] = available[j] => i = j
  BY DEF Init, IsInjective, Injection
<1>2. available \in Surjection(1 .. Cardinality(Hvs), Hvs)
  <2>1. Cardinality(1 .. Cardinality(Hvs)) = Cardinality(Hvs)
    BY <1>0, FS_Interval
  <2> QED BY <1>1, <2>1, PoolAssumption, FS_Injection
<1>3. \A h \in Hvs : \E i \in 1 .. Cardinality(Hvs) : available[i] = h
  BY <1>2 DEF Surjection
<1>4. /\ available \in Seq(Hvs) /\ Len(available) = Cardinality(Hvs)
      /\ DOMAIN available = 1 .. Cardinality(Hvs)
  BY <1>0, <1>1
<1>5. PoolTypeOK /\ BorrowOK
  BY <1>0, <1>4, QuietConn DEF Init, PoolTypeOK, BorrowOK, Holding
<1>6. OnePlace /\ SomePlace
  BY <1>1, <1>3, <1>4, QuietConn, PoolAssumption DEF Init, OnePlace, SomePlace
<1>7. ShortageIsTransient
  <2>1. {c \in Conns : pc[c] \in {"pop", "release"}} = {} /\ returning = {}
    BY DEF Init
  <2> QED BY <1>0, <1>4, <2>1, FS_EmptySet DEF Init, ShortageIsTransient
<1> QED BY <1>5, <1>6, <1>7 DEF PoolInv

\* A step of one connection that neither takes nor gives an instance or a
\* permit.
LEMMA AsideStep ==
  ASSUME PoolInv, NEW c \in Conns, NEW label, pc' = [pc EXCEPT ![c] = label],
         UNCHANGED <<available, permits, returning, up>>,
         pc[c] \notin Between, label \notin Between, pc[c] \in Holding <=> label \in Holding,
         DOMAIN conn' = Conns,
         \A d \in Conns : conn'[d].hv = conn[d].hv /\ DOMAIN conn'[d] = DOMAIN conn[d]
  PROVE  PoolInv'
<1>1. \A d \in Conns : pc'[d] = IF d = c THEN label ELSE pc[d]
  BY DEF PoolInv, PoolTypeOK
<1>2. PoolTypeOK'
  BY DEF PoolInv, PoolTypeOK
<1>3. BorrowOK'
  BY <1>1 DEF PoolInv, BorrowOK
<1>4. (up => OnePlace /\ SomePlace)'
  BY DEF PoolInv, OnePlace, SomePlace
<1>5. ShortageIsTransient'
  <2>1. {d \in Conns : pc'[d] \in {"pop", "release"}} = {d \in Conns : pc[d] \in {"pop", "release"}}
    BY <1>1 DEF Between
  <2> QED BY <2>1 DEF PoolInv, ShortageIsTransient
<1> QED BY <1>2, <1>3, <1>4, <1>5 DEF PoolInv

\* Setting fields other than hv keeps the instance.
LEMMA OtherFields ==
  ASSUME PoolInv, NEW c \in Conns, NEW r, Set(c, r),
         r.hv = conn[c].hv, DOMAIN r = DOMAIN conn[c]
  PROVE  /\ DOMAIN conn' = Conns
         /\ \A d \in Conns : conn'[d].hv = conn[d].hv /\ DOMAIN conn'[d] = DOMAIN conn[d]
BY DEF PoolInv, PoolTypeOK, Set

\* A frame arrives, and a connection ends or starts over.
LEMMA FrameStep ==
  ASSUME PoolInv, NEW c \in Conns,
         \/ \E frame \in Frames : Request(c, frame) \/ AnswerNow(c, frame)
         \/ Reply(c) \/ ReplyFails(c) \/ Disconnect(c)
  PROVE  PoolInv'
<1>1. pc[c] \in {"idle", "reply"}
  BY DEF Request, AnswerNow, Reply, ReplyFails, Disconnect
<1>2. conn[c].hv = NoHv /\ DOMAIN conn[c] = DOMAIN Quiet
  BY <1>1, QuietConn DEF PoolInv, BorrowOK, Holding
<1>3. PICK label : pc' = [pc EXCEPT ![c] = label] /\ label \in {"acquire", "reply", "closed", "idle"}
  BY DEF Request, AnswerNow, Reply, ReplyFails, Disconnect, Goto
<1>4. UNCHANGED <<available, permits, returning, up>>
  BY DEF Request, AnswerNow, Reply, ReplyFails, Disconnect, pool
<1>5. UNCHANGED conn \/ \E r : Set(c, r) /\ r.hv = NoHv /\ DOMAIN r = DOMAIN Quiet
  <2>1. ASSUME NEW frame \in Frames, Request(c, frame)
        PROVE  \E r : Set(c, r) /\ r.hv = NoHv /\ DOMAIN r = DOMAIN Quiet
    <3> DEFINE r == [Quiet EXCEPT !.wasm = WasmOf(frame), !.proof = frame.proof]
    <3>1. r.hv = NoHv /\ DOMAIN r = DOMAIN Quiet
      BY QuietConn
    <3>2. Set(c, r)
      BY <2>1 DEF Request
    <3> QED BY <3>1, <3>2
  <2>2. ASSUME NEW frame \in Frames, AnswerNow(c, frame)
        PROVE  \E r : Set(c, r) /\ r.hv = NoHv /\ DOMAIN r = DOMAIN Quiet
    <3>1. PICK word : Set(c, [Quiet EXCEPT !.reply = word])
      BY <2>2 DEF AnswerNow
    <3> DEFINE r == [Quiet EXCEPT !.reply = word]
    <3>2. r.hv = NoHv /\ DOMAIN r = DOMAIN Quiet
      BY QuietConn
    <3> QED BY <3>1, <3>2
  <2>3. CASE Reply(c) \/ ReplyFails(c)
    BY <2>3, QuietConn DEF Reply, ReplyFails
  <2>4. CASE Disconnect(c)
    BY <2>4 DEF Disconnect
  <2> QED BY <2>1, <2>2, <2>3, <2>4
<1>6. /\ DOMAIN conn' = Conns
      /\ \A d \in Conns : conn'[d].hv = conn[d].hv /\ DOMAIN conn'[d] = DOMAIN conn[d]
  <2>1. CASE UNCHANGED conn
    BY <2>1 DEF PoolInv, PoolTypeOK
  <2>2. CASE \E r : Set(c, r) /\ r.hv = NoHv /\ DOMAIN r = DOMAIN Quiet
    BY <1>2, <2>2, OtherFields
  <2> QED BY <1>5, <2>1, <2>2
<1> QED BY <1>1, <1>3, <1>4, <1>6, AsideStep DEF Holding, Between

\* A request uses its instance: the cache, the compiler, the sandbox.
LEMMA UseStep ==
  ASSUME PoolInv, NEW c \in Conns,
         \/ CacheHit(c) \/ CacheMiss(c) \/ CompileFails(c) \/ Compile(c) \/ Insert(c)
         \/ SwapSandbox(c) \/ KeepSandbox(c) \/ Execute(c)
  PROVE  PoolInv'
<1>1. pc[c] \in {"lookup", "compile", "insert", "swap", "run"}
  BY DEF CacheHit, CacheMiss, CompileFails, Compile, Insert, SwapSandbox, KeepSandbox, Execute
<1>2. PICK label : pc' = [pc EXCEPT ![c] = label] /\ label \in Holding
  BY DEF CacheHit, CacheMiss, CompileFails, Compile, Insert, SwapSandbox, KeepSandbox, Execute,
         Goto, Holding
<1>3. UNCHANGED <<available, permits, returning, up>>
  BY DEF CacheHit, CacheMiss, CompileFails, Compile, Insert, SwapSandbox, KeepSandbox, Execute, pool
<1>4. \/ UNCHANGED conn \/ \E x : Set(c, [conn[c] EXCEPT !.module = x])
      \/ \E x : Set(c, [conn[c] EXCEPT !.reply = x])
  BY DEF CacheHit, CacheMiss, CompileFails, Compile, Insert, SwapSandbox, KeepSandbox, Execute
<1>5. \A x : LET m == [conn[c] EXCEPT !.module = x]
                 r == [conn[c] EXCEPT !.reply = x]
             IN  /\ m.hv = conn[c].hv /\ DOMAIN m = DOMAIN conn[c]
                 /\ r.hv = conn[c].hv /\ DOMAIN r = DOMAIN conn[c]
  BY DEF PoolInv, BorrowOK
<1>6. /\ DOMAIN conn' = Conns
      /\ \A d \in Conns : conn'[d].hv = conn[d].hv /\ DOMAIN conn'[d] = DOMAIN conn[d]
  <2>1. CASE UNCHANGED conn
    BY <2>1 DEF PoolInv, PoolTypeOK
  <2>2. ASSUME NEW x, Set(c, [conn[c] EXCEPT !.module = x]) \/ Set(c, [conn[c] EXCEPT !.reply = x])
        PROVE  /\ DOMAIN conn' = Conns
               /\ \A d \in Conns : conn'[d].hv = conn[d].hv /\ DOMAIN conn'[d] = DOMAIN conn[d]
    BY <1>5, <2>2, OtherFields
  <2> QED BY <1>4, <2>1, <2>2
<1> QED BY <1>1, <1>2, <1>3, <1>6, AsideStep DEF Holding, Between

\* The number of connections that hold a permit but no instance, before and
\* after a step of one of them.
LEMMA WaitingCounts ==
  ASSUME PoolInv, NEW c \in Conns, NEW label, pc' = [pc EXCEPT ![c] = label]
  PROVE  /\ Cardinality(Waiting) \in Nat
         /\ (pc[c] \in Between) /\ (label \notin Between) => Cardinality(Waiting') = Cardinality(Waiting) - 1
         /\ (pc[c] \notin Between) /\ (label \in Between) => Cardinality(Waiting') = Cardinality(Waiting) + 1
<1>1. \A d \in Conns : pc'[d] = IF d = c THEN label ELSE pc[d]
  BY DEF PoolInv, PoolTypeOK
<1>2. IsFiniteSet(Waiting)
  BY PoolAssumption, FS_Subset DEF Waiting
<1>3. (pc[c] \in Between) /\ (label \notin Between) => Waiting' = Waiting \ {c} /\ c \in Waiting
  BY <1>1 DEF Waiting
<1>4. (pc[c] \notin Between) /\ (label \in Between) => Waiting' = Waiting \cup {c} /\ c \notin Waiting
  BY <1>1 DEF Waiting
<1> QED BY <1>2, <1>3, <1>4, FS_CardinalityType, FS_AddElement, FS_RemoveElement

\* ShortageIsTransient in terms of Waiting.
LEMMA Shortage ==
  ShortageIsTransient <=>
    (up => Len(available) + Cardinality(returning) = permits + Cardinality(Waiting))
BY DEF ShortageIsTransient, Waiting, Between

LEMMA ReturningCount ==
  ASSUME PoolTypeOK
  PROVE  IsFiniteSet(returning) /\ Cardinality(returning) \in Nat /\ Len(available) \in Nat
         /\ DOMAIN available = 1 .. Len(available)
BY PoolAssumption, FS_Subset, FS_CardinalityType DEF PoolTypeOK

\* A permit is taken or released, and no instance moves.
LEMMA PermitStep ==
  ASSUME PoolInv, NEW c \in Conns, AcquirePermit(c) \/ PopPanics(c) \/ ReleasePermit(c)
  PROVE  PoolInv'
<1>1. pc[c] \in {"acquire", "pop", "release"} /\ conn[c].hv = NoHv
  BY DEF AcquirePermit, PopPanics, ReleasePermit, PoolInv, BorrowOK, Holding
<1>2. PICK label : /\ pc' = [pc EXCEPT ![c] = label] /\ label \in {"pop", "closed", "reply"}
                   /\ label \in Between <=> pc[c] = "acquire"
                   /\ permits' = IF pc[c] = "acquire" THEN permits - 1 ELSE permits + 1
                   /\ pc[c] = "acquire" => permits > 0
  BY DEF AcquirePermit, PopPanics, ReleasePermit, Goto, Between
<1>3. UNCHANGED <<available, returning, up>> /\ (UNCHANGED conn \/ Set(c, Quiet))
  BY DEF AcquirePermit, PopPanics, ReleasePermit
<1>4. /\ DOMAIN conn' = Conns
      /\ \A d \in Conns : conn'[d].hv = conn[d].hv /\ DOMAIN conn'[d] = DOMAIN conn[d]
  <2>1. CASE UNCHANGED conn
    BY <2>1 DEF PoolInv, PoolTypeOK
  <2>2. CASE Set(c, Quiet)
    BY <1>1, <2>2, QuietConn, OtherFields DEF PoolInv, BorrowOK
  <2> QED BY <1>3, <2>1, <2>2
<1>5. \A d \in Conns : pc'[d] = IF d = c THEN label ELSE pc[d]
  BY <1>2 DEF PoolInv, PoolTypeOK
<1>6. PoolTypeOK'
  <2>1. permits' \in Nat
    BY <1>2 DEF PoolInv, PoolTypeOK
  <2>2. pc' = [d \in Conns |-> pc'[d]]
    BY <1>2 DEF PoolInv, PoolTypeOK
  <2> QED BY <1>3, <1>4, <2>1, <2>2 DEF PoolInv, PoolTypeOK
<1>7. BorrowOK'
  BY <1>1, <1>2, <1>4, <1>5 DEF PoolInv, BorrowOK, Holding
<1>8. (up => OnePlace /\ SomePlace)'
  BY <1>3, <1>4 DEF PoolInv, OnePlace, SomePlace
<1>9. ShortageIsTransient'
  <2>1. /\ Cardinality(Waiting) \in Nat
        /\ Cardinality(Waiting') = IF pc[c] = "acquire" THEN Cardinality(Waiting) + 1 ELSE Cardinality(Waiting) - 1
    BY <1>1, <1>2, WaitingCounts DEF Between
  <2>2. up => Len(available) + Cardinality(returning) = permits + Cardinality(Waiting)
    BY Shortage DEF PoolInv
  <2>3. permits \in Nat
    BY DEF PoolInv, PoolTypeOK
  <2>4. (up => Len(available) + Cardinality(returning) = permits + Cardinality(Waiting))'
    BY <1>2, <1>3, <2>1, <2>2, <2>3, ReturningCount DEF PoolInv
  <2> QED BY <2>4 DEF ShortageIsTransient, Waiting, Between
<1> QED BY <1>6, <1>7, <1>8, <1>9 DEF PoolInv

\* The instance at the head of the queue is borrowed.
LEMMA PopStep ==
  ASSUME PoolInv, NEW c \in Conns, PopHypervisor(c)
  PROVE  PoolInv'
<1> DEFINE h == Head(available)
           r == [conn[c] EXCEPT !.hv = h, !.engine = engine[h]]
<1>1. pc[c] = "pop" /\ conn[c].hv = NoHv /\ available # <<>> /\ UNCHANGED <<permits, returning, up>>
  BY DEF PopHypervisor, PoolInv, BorrowOK, Holding
<1>2. /\ h \in Hvs /\ h = available[1] /\ available' \in Seq(Hvs) /\ Len(available') = Len(available) - 1
      /\ \A i \in 1 .. Len(available) - 1 : available'[i] = available[i + 1]
      /\ Len(available) \in Nat \ {0} /\ DOMAIN available = 1 .. Len(available)
      /\ DOMAIN available' = 1 .. Len(available) - 1
  BY <1>1, HeadTailProperties, EmptySeq DEF PopHypervisor, PoolInv, PoolTypeOK
<1>3. r.hv = h /\ DOMAIN r = DOMAIN conn[c]
  BY DEF PoolInv, BorrowOK
<1>4. conn' = [conn EXCEPT ![c] = r] /\ pc' = [pc EXCEPT ![c] = "lookup"]
  BY DEF PopHypervisor, Set, Goto
<1> HIDE DEF r, h
<1>5. \A d \in Conns : /\ pc'[d] = IF d = c THEN "lookup" ELSE pc[d]
                       /\ conn'[d] = IF d = c THEN r ELSE conn[d]
  BY <1>4 DEF PoolInv, PoolTypeOK
<1>6. PoolTypeOK'
  BY <1>1, <1>2, <1>4 DEF PoolInv, PoolTypeOK
<1>7. BorrowOK'
  BY <1>2, <1>3, <1>5 DEF PoolInv, BorrowOK, Holding
<1>8. ASSUME up PROVE OnePlace'
  <2>1. \A i \in DOMAIN available' : available'[i] = available[i + 1] /\ i + 1 \in DOMAIN available
                                     /\ available'[i] # h
    BY <1>2, <1>8 DEF PoolInv, OnePlace
  <2>2. \A i, j \in DOMAIN available' : available'[i] = available'[j] => i = j
    BY <1>2, <1>8, <2>1 DEF PoolInv, OnePlace
  <2>3. /\ \A d, e \in Conns : conn'[d].hv \in Hvs /\ conn'[d].hv = conn'[e].hv => d = e
        /\ \A d \in Conns : conn'[d].hv \notin returning'
    BY <1>1, <1>2, <1>3, <1>5, <1>8 DEF PoolInv, OnePlace
  <2>4. /\ \A i \in DOMAIN available' : available'[i] \notin returning'
        /\ \A i \in DOMAIN available', d \in Conns : available'[i] # conn'[d].hv
    BY <1>1, <1>3, <1>5, <1>8, <2>1 DEF PoolInv, OnePlace
  <2> QED BY <2>2, <2>3, <2>4 DEF OnePlace
<1>9. ASSUME up PROVE SomePlace'
  <2> SUFFICES ASSUME NEW g \in Hvs
               PROVE  \/ g \in returning' \/ \E i \in DOMAIN available' : available'[i] = g
                      \/ \E d \in Conns : conn'[d].hv = g
    BY DEF SomePlace
  <2>1. CASE g \in returning
    BY <1>1, <2>1
  <2>2. ASSUME NEW i \in DOMAIN available, available[i] = g
        PROVE  (\E k \in DOMAIN available' : available'[k] = g) \/ (\E d \in Conns : conn'[d].hv = g)
    <3>1. CASE i = 1
      BY <1>2, <1>3, <1>5, <2>2, <3>1
    <3>2. CASE i # 1
      <4>1. i - 1 \in DOMAIN available' /\ available'[i - 1] = g
        BY <1>2, <2>2, <3>2
      <4> QED BY <4>1
    <3> QED BY <3>1, <3>2
  <2>3. ASSUME NEW d \in Conns, conn[d].hv = g
        PROVE  conn'[d].hv = g
    BY <1>1, <1>5, <2>3, PoolAssumption
  <2> QED BY <1>9, <2>1, <2>2, <2>3 DEF PoolInv, SomePlace
<1>10. ShortageIsTransient'
  <2>0. pc' = [pc EXCEPT ![c] = "lookup"] /\ pc[c] \in Between /\ "lookup" \notin Between
    BY <1>1, <1>4 DEF Between
  <2>1. Cardinality(Waiting) \in Nat /\ Cardinality(Waiting') = Cardinality(Waiting) - 1
    BY <2>0, WaitingCounts
  <2>2. up => Len(available) + Cardinality(returning) = permits + Cardinality(Waiting)
    BY Shortage DEF PoolInv
  <2>3. Cardinality(returning) \in Nat /\ permits \in Nat /\ Len(available) \in Nat
    BY ReturningCount DEF PoolInv, PoolTypeOK
  <2>4. (up => Len(available) + Cardinality(returning) = permits + Cardinality(Waiting))'
    <3>1. Len(available') = Len(available) - 1 /\ returning' = returning /\ permits' = permits /\ up' = up
      BY <1>1, <1>2
    <3> QED BY <2>1, <2>2, <2>3, <3>1
  <2> QED BY <2>4 DEF ShortageIsTransient, Waiting, Between
<1> QED BY <1>1, <1>6, <1>7, <1>8, <1>9, <1>10 DEF PoolInv

\* The guard is dropped: the instance is on its way back.
LEMMA DropStep ==
  ASSUME PoolInv, NEW c \in Conns, DropGuard(c)
  PROVE  PoolInv'
<1> DEFINE h == conn[c].hv
           r == [conn[c] EXCEPT !.hv = NoHv]
<1>1. pc[c] = "drop" /\ h \in Hvs /\ UNCHANGED <<permits, available, up>> /\ returning' = returning \cup {h}
  BY DEF DropGuard, PoolInv, BorrowOK, Holding
<1>3. r.hv = NoHv /\ DOMAIN r = DOMAIN conn[c]
  BY DEF PoolInv, BorrowOK
<1>4. conn' = [conn EXCEPT ![c] = r] /\ pc' = [pc EXCEPT ![c] = "release"]
  BY DEF DropGuard, Set, Goto
<1> HIDE DEF r
<1>5. \A d \in Conns : /\ pc'[d] = IF d = c THEN "release" ELSE pc[d]
                       /\ conn'[d] = IF d = c THEN r ELSE conn[d]
  BY <1>4 DEF PoolInv, PoolTypeOK
<1>6. PoolTypeOK'
  BY <1>1, <1>4 DEF PoolInv, PoolTypeOK
<1>7. BorrowOK'
  BY <1>3, <1>5 DEF PoolInv, BorrowOK, Holding
<1>8. up => OnePlace' /\ SomePlace'
  <2>1. NoHv \notin Hvs /\ NoHv \notin returning'
    BY <1>1, PoolAssumption DEF PoolInv, PoolTypeOK
  <2>2. \A i \in DOMAIN available : available[i] \in Hvs
    BY DEF PoolInv, PoolTypeOK
  <2>3. up => OnePlace'
    BY <1>1, <1>3, <1>5, <2>1, <2>2 DEF PoolInv, OnePlace
  <2>4. up => SomePlace'
    BY <1>1, <1>5 DEF PoolInv, SomePlace
  <2> QED BY <2>3, <2>4
<1>9. ShortageIsTransient'
  <2>1. Cardinality(Waiting) \in Nat /\ Cardinality(Waiting') = Cardinality(Waiting) + 1
    BY <1>1, <1>4, WaitingCounts DEF Between
  <2>2. up => Len(available) + Cardinality(returning) = permits + Cardinality(Waiting)
    BY Shortage DEF PoolInv
  <2>3. up => Cardinality(returning') = Cardinality(returning) + 1
    BY <1>1, ReturningCount, FS_AddElement DEF PoolInv, OnePlace
  <2>4. (up => Len(available) + Cardinality(returning) = permits + Cardinality(Waiting))'
    BY <1>1, <2>1, <2>2, <2>3, ReturningCount DEF PoolInv, PoolTypeOK
  <2> QED BY <2>4 DEF ShortageIsTransient, Waiting, Between
<1> QED BY <1>1, <1>6, <1>7, <1>8, <1>9 DEF PoolInv

\* The detached task puts an instance back.
LEMMA ReturnStep ==
  ASSUME PoolInv, NEW h \in Hvs, ReturnHypervisor(h)
  PROVE  PoolInv'
<1>1. /\ up /\ h \in returning /\ returning' = returning \ {h}
      /\ available' = Append(available, h) /\ UNCHANGED <<permits, up, pc, conn>>
  BY DEF ReturnHypervisor
<1>2. /\ available' \in Seq(Hvs) /\ Len(available') = Len(available) + 1 /\ Len(available) \in Nat
      /\ \A i \in 1 .. Len(available) : available'[i] = available[i]
      /\ available'[Len(available) + 1] = h
      /\ DOMAIN available = 1 .. Len(available) /\ DOMAIN available' = 1 .. Len(available) + 1
  BY <1>1, AppendProperties DEF PoolInv, PoolTypeOK
<1>3. PoolTypeOK' /\ BorrowOK'
  BY <1>1, <1>2 DEF PoolInv, PoolTypeOK, BorrowOK
<1>4. OnePlace'
  <2>1. \A i \in DOMAIN available : available[i] # h
    BY <1>1 DEF PoolInv, OnePlace
  <2>2. \A c \in Conns : conn[c].hv # h
    BY <1>1 DEF PoolInv, OnePlace
  <2> QED BY <1>1, <1>2, <2>1, <2>2 DEF PoolInv, OnePlace
<1>5. SomePlace'
  <2> SUFFICES ASSUME NEW g \in Hvs
               PROVE  \/ g \in returning' \/ \E i \in DOMAIN available' : available'[i] = g
                      \/ \E c \in Conns : conn'[c].hv = g
    BY DEF SomePlace
  <2> QED BY <1>1, <1>2 DEF PoolInv, SomePlace
<1>6. ShortageIsTransient'
  <2>1. Cardinality(returning') = Cardinality(returning) - 1
    BY <1>1, ReturningCount, FS_RemoveElement DEF PoolInv
  <2>2. IsFiniteSet(Waiting) /\ Cardinality(Waiting) \in Nat /\ Waiting' = Waiting
    BY <1>1, PoolAssumption, FS_Subset, FS_CardinalityType DEF Waiting
  <2>3. up => Len(available) + Cardinality(returning) = permits + Cardinality(Waiting)
    BY Shortage DEF PoolInv
  <2>4. (up => Len(available) + Cardinality(returning) = permits + Cardinality(Waiting))'
    BY <1>1, <1>2, <2>1, <2>2, <2>3, ReturningCount DEF PoolInv, PoolTypeOK
  <2> QED BY <2>4 DEF ShortageIsTransient, Waiting, Between
<1> QED BY <1>3, <1>4, <1>5, <1>6 DEF PoolInv

\* A shutdown drops every task: nothing is promised of the pool any more.
LEMMA ShutdownStep ==
  ASSUME PoolInv, NEW c \in Conns, NEW frame \in Frames, Shutdown(c, frame)
  PROVE  PoolInv'
BY QuietConn DEF Shutdown, PoolInv, PoolTypeOK, BorrowOK, ShortageIsTransient, Holding

LEMMA PoolNextInv == PoolInv /\ [Next]_vars => PoolInv'
<1> SUFFICES ASSUME PoolInv, [Next]_vars PROVE PoolInv'
  OBVIOUS
<1>1. CASE UNCHANGED vars
  BY <1>1 DEF vars, pool, cache, PoolInv, PoolTypeOK, BorrowOK, OnePlace, SomePlace, ShortageIsTransient
<1>2. ASSUME NEW c \in Conns, Serve(c)
      PROVE  PoolInv'
  BY <1>2, FrameStep, UseStep, PermitStep, PopStep, DropStep DEF Serve
<1>3. CASE Next
  BY <1>2, <1>3, FrameStep, ShutdownStep, ReturnStep DEF Next
<1> QED BY <1>1, <1>3

\* The count of NoInstanceLost, from the places.
LEMMA CountPlaces == PoolInv => NoInstanceLost
<1> SUFFICES ASSUME PoolInv, up, NEW h \in Hvs
             PROVE  Cardinality({i \in DOMAIN available : available[i] = h})
                    + Cardinality({c \in Borrowing : conn[c].hv = h})
                    + (IF h \in returning THEN 1 ELSE 0) = 1
  BY DEF NoInstanceLost
<1> DEFINE Q == {i \in DOMAIN available : available[i] = h}
           B == {c \in Borrowing : conn[c].hv = h}
<1>0. h # NoHv /\ OnePlace /\ SomePlace
  BY PoolAssumption DEF PoolInv
<1>1. CASE h \in returning
  <2>1. Q = {} /\ B = {}
    BY <1>0, <1>1 DEF OnePlace, Borrowing
  <2>2. Cardinality(Q) = 0 /\ Cardinality(B) = 0
    BY <2>1, FS_EmptySet
  <2> QED BY <1>1, <2>2
<1>2. ASSUME NEW i \in DOMAIN available, available[i] = h
      PROVE  Cardinality(Q) + Cardinality(B) + (IF h \in returning THEN 1 ELSE 0) = 1
  <2>1. Q = {i} /\ B = {} /\ h \notin returning
    BY <1>0, <1>2 DEF OnePlace, Borrowing
  <2>2. Cardinality(Q) = 1 /\ Cardinality(B) = 0
    BY <2>1, FS_EmptySet, FS_Singleton
  <2> QED BY <2>1, <2>2
<1>3. ASSUME NEW c \in Conns, conn[c].hv = h
      PROVE  Cardinality(Q) + Cardinality(B) + (IF h \in returning THEN 1 ELSE 0) = 1
  <2>1. Q = {} /\ B = {c} /\ h \notin returning
    BY <1>0, <1>3 DEF OnePlace, Borrowing
  <2>2. Cardinality(Q) = 0 /\ Cardinality(B) = 1
    BY <2>1, FS_EmptySet, FS_Singleton
  <2> QED BY <2>1, <2>2
<1> QED BY <1>0, <1>1, <1>2, <1>3 DEF SomePlace

\* For any connections, hypervisors and frames, whichever way each request
\* ends: no hypervisor is lost and none is handed to two requests.
THEOREM InstancesNeverLost == Spec => []NoInstanceLost
BY PoolInitInv, PoolNextInv, CountPlaces, PTL DEF Spec

\* For the same: the queue is short of a permit holder's instance only by the
\* instances that detached tasks are about to put back.
THEOREM ShortageAlwaysTransient == Spec => []ShortageIsTransient
<1>1. PoolInv => ShortageIsTransient
  BY DEF PoolInv
<1> QED BY <1>1, PoolInitInv, PoolNextInv, PTL DEF Spec
=============================================================================
