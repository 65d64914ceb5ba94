------------------------- MODULE AdaptiveFuelProofs -------------------------
(***************************************************************************)
(* Adaptive budgets for any number of callers and tools, any demands, any  *)
(* percentile and any size of the sample ring.                             *)
(*                                                                         *)
(* GrowthBounded compares budgets with the largest limit a run ever had.   *)
(* It is not inductive: a budget is read in one step, installed in another *)
(* and run under in a third, with other calls between them, so what is in  *)
(* flight has to be bounded as well; and that a percentile of samples does *)
(* not exceed the largest of them is a fact about ranks.                   *)
(***************************************************************************)
EXTENDS AdaptiveFuel, ChainLemmas, SequenceTheorems

CallRecord ==
  [tool : Tools \cup {NoCall.tool}, swapped : BOOLEAN, budget : Nat, limit : Nat, used : Nat]

FuelTypeOK ==
  /\ samples \in [Tools -> Seq(Nat)]
  /\ limit \in Nat /\ peak \in Nat
  /\ call \in [Callers -> CallRecord]
  /\ stage \in [Callers -> {"idle", "swap", "run", "running", "record"}]

\* What GrowthBounded allows when the largest limit so far is p.
Ceiling(p) == Max2(Floor, Headroom(p))

Below(profile, p) == \A i \in DOMAIN profile : profile[i] <= p

\* Everything in flight is bounded by the largest limit so far.
FlightBounded ==
  /\ \A t \in Tools : Below(samples[t], peak)
  /\ MaxFuel <= peak
  /\ limit <= Ceiling(peak)
  /\ \A c \in Callers :
       /\ call[c].used <= peak
       /\ stage[c] = "swap" => call[c].budget <= Ceiling(peak)
       /\ stage[c] = "running" => call[c].limit <= peak

FuelInv == FuelTypeOK /\ FlightBounded

-----------------------------------------------------------------------------
\* The rank of a percentile is one of the places of the profile.
LEMMA RankInRange ==
  ASSUME NEW n \in Nat \ {0}, NEW pct \in 1 .. 100
  PROVE  Rank(n, pct) \in 1 .. n
<1>1. pct * n \in Nat /\ pct * n <= 100 * n
  OBVIOUS
<1>2. PICK m \in Nat : m = pct * n
  BY <1>1
<1>3. (m + 99) \div 100 <= n /\ (m + 99) \div 100 \in Nat
  BY <1>1, <1>2
<1> QED BY <1>2, <1>3 DEF Rank, Max2

\* A percentile of samples that are at most p is at most p.
LEMMA PercentileBelow ==
  ASSUME NEW profile \in Seq(Nat), profile # <<>>, NEW p \in Nat, Below(profile, p),
         NEW pct \in 1 .. 100
  PROVE  Percentile(profile, pct) \in Nat /\ Percentile(profile, pct) <= p
<1> DEFINE R == {profile[i] : i \in DOMAIN profile}
           T == {x \in R : Cardinality(UpTo(profile, x)) >= Rank(Len(profile), pct)}
<1>1. /\ Len(profile) \in Nat \ {0} /\ DOMAIN profile = 1 .. Len(profile)
      /\ \A i \in DOMAIN profile : profile[i] \in Nat
  OBVIOUS
<1>2. R \in SUBSET (0 .. p)
  BY <1>1 DEF Below
<1>3. R # {}
  <2>1. 1 \in DOMAIN profile
    BY <1>1
  <2>2. profile[1] \in R
    BY <2>1
  <2> QED BY <2>2, Zenon
<1>4. PICK top \in R : \A x \in R : x <= top
  BY <1>2, <1>3, GreatestUpTo
<1>5. UpTo(profile, top) = 1 .. Len(profile)
  BY <1>1, <1>4 DEF UpTo
<1>6. Cardinality(UpTo(profile, top)) = Len(profile)
  BY <1>1, <1>5, FS_Interval, SMTT(30)
<1>7. top \in T
  <2>1. PICK r : r = Rank(Len(profile), pct) /\ r \in 1 .. Len(profile)
    BY <1>1, RankInRange
  <2>2. PICK k : k = Cardinality(UpTo(profile, top)) /\ k = Len(profile)
    BY <1>6
  <2>3. k >= r
    BY <1>1, <2>1, <2>2
  <2> QED BY <1>4, <2>1, <2>2, <2>3
<1>8. PICK x \in T : \A y \in T : x <= y
  <2>1. T \in SUBSET Nat /\ T # {}
    BY <1>2, <1>7
  <2> QED BY <2>1, LeastNat
<1>9. Min(T) \in T
  BY <1>8 DEF Min
<1>10. Percentile(profile, pct) = Min(T)
  BY DEF Percentile, Range
<1> QED BY <1>2, <1>9, <1>10

LEMMA CeilingGrows ==
  ASSUME NEW p \in Nat, NEW q \in Nat, p <= q
  PROVE  Ceiling(p) \in Nat /\ Ceiling(p) <= Ceiling(q) /\ p <= Ceiling(p)
<1>1. /\ Headroom(p) \in Nat /\ Headroom(q) \in Nat /\ Headroom(p) <= Headroom(q)
      /\ p <= Headroom(p)
  BY DEF Headroom
<1> QED BY <1>1, FuelAssumption DEF Ceiling, Max2

\* What the policy recommends.
LEMMA BudgetBounded ==
  ASSUME FuelInv, NEW t \in Tools
  PROVE  BudgetFor(t) \in Nat /\ BudgetFor(t) <= Ceiling(peak)
<1>1. samples[t] \in Seq(Nat) /\ Below(samples[t], peak) /\ peak \in Nat
  BY DEF FuelInv, FuelTypeOK, FlightBounded
<1>2. CASE Len(samples[t]) >= MinSamples
  <2>1. samples[t] # <<>>
    BY <1>1, <1>2, SamplesAssumption
  <2>2. PICK x \in Nat : x = Percentile(samples[t], Percent) /\ x <= peak
    BY <1>1, <2>1, PercentAssumption, PercentileBelow
  <2>3. Headroom(x) \in Nat /\ Headroom(x) <= Headroom(peak) /\ Headroom(peak) \in Nat
    BY <1>1, <2>2 DEF Headroom
  <2>4. BudgetFor(t) = Max2(Headroom(x), Floor)
    BY <1>2, <2>2 DEF BudgetFor
  <2> QED BY <2>3, <2>4, FuelAssumption DEF Max2, Ceiling
<1>3. CASE ~(Len(samples[t]) >= MinSamples)
  BY <1>1, <1>3, FuelAssumption, CeilingGrows DEF BudgetFor, FuelInv, FlightBounded
<1> QED BY <1>2, <1>3

\* What is below the bounds stays there when the largest limit grows.
LEMMA BoundsKeep ==
  ASSUME NEW p \in Nat, NEW q \in Nat, p <= q
  PROVE  /\ \A n \in Nat : n <= p => n <= q
         /\ \A n \in Nat : n <= Ceiling(p) => n <= Ceiling(q)
         /\ \A profile \in Seq(Nat) : Below(profile, p) => Below(profile, q)
<1>1. Ceiling(p) \in Nat /\ Ceiling(q) \in Nat /\ Ceiling(p) <= Ceiling(q)
  BY CeilingGrows
<1> QED BY <1>1 DEF Below

-----------------------------------------------------------------------------
LEMMA FuelStarts == FuelInit => FuelInv
<1> SUFFICES ASSUME FuelInit PROVE FuelInv
  OBVIOUS
<1>1. NoCall \in CallRecord /\ NoCall.used = 0
  BY DEF NoCall, CallRecord
<1>2. FuelTypeOK
  BY <1>1, FuelAssumption DEF FuelInit, FuelTypeOK
<1>3. \A t \in Tools : Below(samples[t], peak)
  BY DEF FuelInit, Below
<1>4. FlightBounded
  BY <1>1, <1>3, FuelAssumption, CeilingGrows DEF FuelInit, FlightBounded
<1> QED BY <1>2, <1>4 DEF FuelInv

\* A step of one call that leaves the samples alone.
LEMMA CallStep ==
  ASSUME FuelInv, NEW c \in Callers, NEW s \in CallRecord,
         NEW at \in {"idle", "swap", "run", "running", "record"},
         SetCall(c, s), Advance(c, at), UNCHANGED samples,
         peak' \in Nat, peak <= peak', limit' \in Nat, limit' <= Ceiling(peak'),
         s.used <= peak', at = "swap" => s.budget <= Ceiling(peak'),
         at = "running" => s.limit <= peak'
  PROVE  FuelInv'
<1>1. PICK p, q : p = peak /\ q = peak'
  OBVIOUS
<1>2. /\ \A n \in Nat : n <= p => n <= q
      /\ \A n \in Nat : n <= Ceiling(p) => n <= Ceiling(q)
      /\ \A profile \in Seq(Nat) : Below(profile, p) => Below(profile, q)
  BY <1>1, BoundsKeep DEF FuelInv, FuelTypeOK
<1>3. FuelTypeOK'
  BY DEF FuelInv, FuelTypeOK, SetCall, Advance
<1>4. \A t \in Tools : Below(samples'[t], peak')
  BY <1>1, <1>2 DEF FuelInv, FuelTypeOK, FlightBounded
<1>5. MaxFuel <= peak'
  BY FuelAssumption DEF FuelInv, FuelTypeOK, FlightBounded
<1>6. ASSUME NEW d \in Callers
      PROVE  /\ call'[d].used <= peak'
             /\ stage'[d] = "swap" => call'[d].budget <= Ceiling(peak')
             /\ stage'[d] = "running" => call'[d].limit <= peak'
  <2>1. CASE d = c
    BY <2>1 DEF FuelInv, FuelTypeOK, SetCall, Advance
  <2>2. CASE d # c
    <3>1. call'[d] = call[d] /\ stage'[d] = stage[d] /\ call[d] \in CallRecord
      BY <2>2 DEF FuelInv, FuelTypeOK, SetCall, Advance
    <3>2. call[d].used \in Nat /\ call[d].budget \in Nat /\ call[d].limit \in Nat
      BY <3>1 DEF CallRecord
    <3> QED BY <1>1, <1>2, <3>1, <3>2 DEF FuelInv, FlightBounded
  <2> QED BY <2>1, <2>2
<1> QED BY <1>3, <1>4, <1>5, <1>6 DEF FuelInv, FlightBounded, Ceiling, Below

LEMMA FuelStep == FuelInv /\ [FuelNext]_fuelVars => FuelInv'
<1> SUFFICES ASSUME FuelInv, [FuelNext]_fuelVars PROVE FuelInv'
  OBVIOUS
<1>1. CASE UNCHANGED fuelVars
  BY <1>1 DEF fuelVars, FuelInv, FuelTypeOK, FlightBounded, Below, Ceiling
<1>2. SUFFICES ASSUME NEW c \in Callers, StartCall(c) \/ Proceed(c) PROVE FuelInv'
  BY <1>1 DEF FuelNext
<1>3. /\ peak \in Nat /\ limit \in Nat /\ limit <= Ceiling(peak) /\ call[c] \in CallRecord
      /\ call[c].used <= peak /\ NoCall \in CallRecord /\ NoCall.used = 0 /\ NoCall.budget = 0
  BY DEF FuelInv, FuelTypeOK, FlightBounded, NoCall, CallRecord
<1>4. call[c].budget \in Nat /\ call[c].limit \in Nat /\ call[c].used \in Nat
  BY <1>3 DEF CallRecord
<1>5. ASSUME NEW tool \in Tools, Start(c, tool) PROVE FuelInv'
  <2>1. PICK b \in Nat : b = BudgetFor(tool) /\ b <= Ceiling(peak)
    BY BudgetBounded
  <2> DEFINE s == [NoCall EXCEPT !.tool = tool, !.budget = b]
  <2>2. s \in CallRecord /\ s.used = 0 /\ s.budget = b
    BY <2>1 DEF NoCall, CallRecord
  <2>3. SetCall(c, s) /\ Advance(c, "swap") /\ UNCHANGED <<samples, limit, peak>>
    BY <1>5, <2>1 DEF Start
  <2> HIDE DEF s
  <2> QED BY <1>3, <2>1, <2>2, <2>3, CallStep
<1>6. ASSUME NEW tool \in Tools, StartWasi(c, tool) PROVE FuelInv'
  <2> DEFINE s == [NoCall EXCEPT !.tool = tool]
  <2>1. s \in CallRecord /\ s.used = 0
    BY DEF NoCall, CallRecord
  <2>2. SetCall(c, s) /\ Advance(c, "run") /\ UNCHANGED <<samples, limit, peak>>
    BY <1>6 DEF StartWasi
  <2> HIDE DEF s
  <2> QED BY <1>3, <2>1, <2>2, CallStep
<1>7. CASE Swap(c)
  <2> DEFINE s == [call[c] EXCEPT !.swapped = TRUE]
  <2>1. s \in CallRecord /\ s.used = call[c].used
    BY <1>3 DEF CallRecord
  <2>2. call[c].budget <= Ceiling(peak)
    BY <1>7 DEF Swap, FuelInv, FlightBounded
  <2>3. SetCall(c, s) /\ Advance(c, "run") /\ UNCHANGED <<samples, peak>>
    BY <1>7 DEF Swap
  <2>4. limit' \in Nat /\ limit' <= Ceiling(peak)
    BY <1>3, <1>4, <1>7, <2>2 DEF Swap
  <2> HIDE DEF s
  <2> QED BY <1>3, <2>1, <2>3, <2>4, CallStep
<1>8. CASE SwapFails(c)
  <2>1. SetCall(c, call[c]) /\ Advance(c, "run") /\ UNCHANGED <<samples, limit, peak>>
    BY <1>8 DEF SwapFails, SetCall, FuelInv, FuelTypeOK
  <2> QED BY <1>3, <2>1, CallStep
<1>9. CASE RunTool(c)
  <2> DEFINE s == [call[c] EXCEPT !.limit = limit]
  <2>1. s \in CallRecord /\ s.used = call[c].used /\ s.limit = limit
    BY <1>3 DEF CallRecord
  <2>2. SetCall(c, s) /\ Advance(c, "running") /\ UNCHANGED <<samples, limit>> /\ peak' = Max2(peak, limit)
    BY <1>9 DEF RunTool
  <2>3. peak' \in Nat /\ peak <= peak' /\ limit <= peak'
    BY <1>3, <2>2 DEF Max2
  <2>4. PICK p, q : p = peak /\ q = peak'
    OBVIOUS
  <2>5. limit <= Ceiling(q)
    BY <1>3, <2>3, <2>4, BoundsKeep
  <2>6. limit <= Ceiling(peak')
    BY <2>4, <2>5 DEF Ceiling
  <2>7. limit' \in Nat /\ limit' <= Ceiling(peak') /\ s.used <= peak' /\ s.limit <= peak'
    BY <1>3, <1>4, <2>1, <2>2, <2>3, <2>6
  <2> HIDE DEF s
  <2>8. s.used <= peak' /\ "running" # "swap"
    BY <2>7
  <2> QED BY <2>1, <2>2, <2>3, <2>7, <2>8, CallStep
<1>10. ASSUME NEW u \in Nat, u <= peak, SetCall(c, [call[c] EXCEPT !.used = u]), Advance(c, "record"),
              UNCHANGED <<samples, limit, peak>>
       PROVE  FuelInv'
  <2> DEFINE s == [call[c] EXCEPT !.used = u]
  <2>1. s \in CallRecord /\ s.used = u
    BY <1>3 DEF CallRecord
  <2>2. SetCall(c, s)
    BY <1>10
  <2> HIDE DEF s
  <2> QED BY <1>3, <1>10, <2>1, <2>2, CallStep
<1>11. ASSUME NEW demand \in Demands, Finish(c, demand) PROVE FuelInv'
  <2>1. PICK u \in Nat : u = Min2(demand, call[c].limit) /\ u <= call[c].limit
    BY <1>4, DemandsAssumption DEF Min2
  <2>2. call[c].limit <= peak
    BY <1>11 DEF Finish, Running, FuelInv, FlightBounded
  <2>3. u <= peak
    BY <1>3, <1>4, <2>1, <2>2
  <2> QED BY <1>10, <1>11, <2>1, <2>3 DEF Finish
<1>12. CASE FinishUnmetered(c)
  BY <1>3, <1>10, <1>12 DEF FinishUnmetered
<1>13. CASE RecordFuel(c)
  <2>1. PICK t, u : t = call[c].tool /\ u = call[c].used /\ u \in Nat /\ u <= peak
    BY <1>3 DEF CallRecord
  <2>2. \A profile \in Seq(Nat) : Below(profile, peak) =>
          PushSample(profile, u) \in Seq(Nat) /\ Below(PushSample(profile, u), peak)
    <3> SUFFICES ASSUME NEW profile \in Seq(Nat), Below(profile, peak)
                 PROVE  PushSample(profile, u) \in Seq(Nat) /\ Below(PushSample(profile, u), peak)
      OBVIOUS
    <3>1. PICK kept \in Seq(Nat) : /\ PushSample(profile, u) = Append(kept, u)
                                   /\ Below(kept, peak)
      <4>1. CASE Len(profile) >= MaxSamples /\ profile # <<>>
        <5>1. /\ Tail(profile) \in Seq(Nat) /\ DOMAIN Tail(profile) = 1 .. Len(profile) - 1
              /\ \A i \in 1 .. Len(profile) - 1 : Tail(profile)[i] = profile[i + 1]
          BY <4>1, HeadTailProperties
        <5>2. \A i \in 1 .. Len(profile) - 1 : i + 1 \in DOMAIN profile
          OBVIOUS
        <5>3. Below(Tail(profile), peak)
          BY <5>1, <5>2 DEF Below
        <5> QED BY <4>1, <5>1, <5>3 DEF PushSample
      <4>2. CASE ~(Len(profile) >= MaxSamples)
        BY <4>2 DEF PushSample
      <4>3. CASE profile = <<>>
        BY <4>2, <4>3, SamplesAssumption
      <4> QED BY <4>1, <4>2, <4>3
    <3>2. \A i \in 1 .. Len(kept) + 1 : Append(kept, u)[i] = IF i = Len(kept) + 1 THEN u ELSE kept[i]
      OBVIOUS
    <3>3. Append(kept, u) \in Seq(Nat) /\ DOMAIN Append(kept, u) = 1 .. Len(kept) + 1
      BY <2>1
    <3> QED BY <2>1, <3>1, <3>2, <3>3 DEF Below
  <2>3. samples' = [samples EXCEPT ![t] = PushSample(samples[t], u)] /\ UNCHANGED <<limit, peak>>
    BY <1>13, <2>1 DEF RecordFuel
  <2>4. samples' \in [Tools -> Seq(Nat)] /\ \A o \in Tools : Below(samples'[o], peak)
    BY <2>2, <2>3 DEF FuelInv, FuelTypeOK, FlightBounded
  <2>5. SetCall(c, NoCall) /\ Advance(c, "idle")
    BY <1>13 DEF RecordFuel
  <2>6. FuelTypeOK'
    BY <1>3, <2>3, <2>4, <2>5 DEF FuelInv, FuelTypeOK, SetCall, Advance
  <2>7. ASSUME NEW d \in Callers
        PROVE  /\ call'[d].used <= peak'
               /\ stage'[d] = "swap" => call'[d].budget <= Ceiling(peak)
               /\ stage'[d] = "running" => call'[d].limit <= peak'
    BY <1>3, <2>3, <2>5 DEF FuelInv, FuelTypeOK, FlightBounded, SetCall, Advance
  <2> QED BY <2>3, <2>4, <2>6, <2>7 DEF FuelInv, FlightBounded, Below, Ceiling
<1> QED BY <1>2, <1>5, <1>6, <1>7, <1>8, <1>9, <1>11, <1>12, <1>13 DEF StartCall, Proceed

\* A budget, the limit that is installed and the fuel a run reports never
\* exceed one and a half times the largest limit any run had before (or the
\* floor of the policy), however FuelBudgetPolicy's readings and the swaps of
\* the sandbox interleave: growth is geometric at worst.
THEOREM GrowthAlwaysBounded == FuelSpec => []GrowthBounded
<1>1. FuelInv => GrowthBounded
  <2> SUFFICES ASSUME FuelInv PROVE GrowthBounded
    OBVIOUS
  <2>1. \A t \in Tools : BudgetFor(t) <= Ceiling(peak)
    BY BudgetBounded
  <2> QED BY <2>1 DEF GrowthBounded, FuelInv, FlightBounded, Ceiling
<1> QED BY <1>1, FuelStarts, FuelStep, PTL DEF FuelSpec
=============================================================================
