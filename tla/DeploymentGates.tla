-------------------------- MODULE DeploymentGates ---------------------------
(***************************************************************************)
(* The gate evaluator of a deployment, as a function of the steps found in *)
(* the audit window.  A step is [ok, ms, cost]: did it complete, how long  *)
(* it took (-1 if not reported), its price in micros.  Ratios are kept as  *)
(* integers by cross-multiplication; thresholds are percentages.           *)
(***************************************************************************)
EXTENDS Integers, FiniteSets, FiniteSetsExt, Functions

CONSTANTS MaxSuccessDelta, MaxP95Ratio, MaxCostRatio, MinShadowCompletion,
          MinShadowSamples, MaxQualityDelta, MinQualitySamples

ASSUME ThresholdsAssumption ==
  /\ {MaxSuccessDelta, MinShadowCompletion, MinShadowSamples,
      MaxQualityDelta, MinQualitySamples} \subseteq Nat
  /\ MaxP95Ratio \in Nat /\ MaxCostRatio \in Nat
  /\ MaxP95Ratio >= 100 /\ MaxCostRatio >= 100

Size(s) == Cardinality(DOMAIN s)
Completed(s) == Cardinality({i \in DOMAIN s : s[i].ok})

\* Nearest rank: the least duration that 95 of 100 measured steps do not exceed.
\* -1 if nothing was measured.
Measured(s) == {i \in DOMAIN s : s[i].ms >= 0}
UpTo(s, v) == Cardinality({i \in Measured(s) : s[i].ms <= v})
P95(s) ==
  LET n == Cardinality(Measured(s)) IN
  IF n = 0 THEN -1
  ELSE Min({v \in {s[i].ms : i \in Measured(s)} : UpTo(s, v) >= (19 * n + 19) \div 20})

TotalCost(s) == SumFunctionOnSet([i \in DOMAIN s |-> s[i].cost], DOMAIN s)

SuccessBreach(cand, inc) ==
  Size(inc) > 0 /\ 100 * Completed(cand) * Size(inc)
                     < (100 * Completed(inc) - MaxSuccessDelta * Size(inc)) * Size(cand)
LatencyBreach(cand, inc) ==
  LET c == P95(cand)  i == P95(inc) IN
  c >= 0 /\ i > 0 /\ 100 * c > MaxP95Ratio * i
CostBreach(cand, inc) ==
  /\ Size(inc) > 0 /\ TotalCost(inc) > 0
  /\ 100 * TotalCost(cand) * Size(inc) > MaxCostRatio * TotalCost(inc) * Size(cand)

\* Judged quality [mean, n] of both sides; a side without a mean (-1) or with
\* too few samples leaves quality out.
QualityBreach(q) ==
  /\ q.cand.mean >= 0 /\ q.inc.mean >= 0
  /\ q.cand.n >= MinQualitySamples /\ q.inc.n >= MinQualitySamples
  /\ q.inc.mean - q.cand.mean > MaxQualityDelta

\* The canary gate compares the steps of the two versions in the window.
Canary(cand, inc, priced, q) ==
  IF Size(cand) = 0 THEN "insufficient_data"
  ELSE IF SuccessBreach(cand, inc) \/ LatencyBreach(cand, inc)
          \/ (priced /\ CostBreach(cand, inc)) \/ QualityBreach(q)
       THEN "fail" ELSE "pass"

\* The shadow gate joins each shadow result with the primary step of its key;
\* what has no primary is dropped.
Paired(shadow, primary) ==
  LET keys == DOMAIN shadow \cap DOMAIN primary IN
  [cand |-> Restrict(shadow, keys), inc |-> Restrict(primary, keys)]
Shadow(shadow, primary, priced, q) ==
  LET p == Paired(shadow, primary) IN
  IF Size(p.cand) < MinShadowSamples THEN "insufficient_data"
  ELSE IF \/ 100 * Completed(p.cand) < MinShadowCompletion * Size(p.cand)
          \/ LatencyBreach(p.cand, p.inc) \/ (priced /\ CostBreach(p.cand, p.inc))
          \/ QualityBreach(q)
       THEN "fail" ELSE "pass"

-----------------------------------------------------------------------------
(* Bounded inputs.                                                         *)

CONSTANTS Steps       \* the steps that make up the windows checked
ASSUME StepsAssumption == Steps \subseteq [ok : BOOLEAN, ms : Nat \cup {-1}, cost : Nat]
Windows == UNION {[1..n -> Steps] : n \in 0..2}
NoQuality == [cand |-> [mean |-> -1, n |-> 0], inc |-> [mean |-> -1, n |-> 0]]
Dropped == [cand |-> [mean |-> 0, n |-> MinQualitySamples],
            inc |-> [mean |-> MaxQualityDelta + 1, n |-> MinQualitySamples]]

SameOrWorse(a, b) ==
  /\ DOMAIN a = DOMAIN b
  /\ \A i \in DOMAIN a : /\ a[i].ok => b[i].ok
                         /\ a[i].ms >= 0 <=> b[i].ms >= 0
                         /\ a[i].ms >= b[i].ms
                         /\ a[i].cost >= b[i].cost

\* A candidate that fails a gate still fails it after doing worse: fewer of its
\* steps complete, they take longer, they cost more, or
\* they are judged worse.
WorseStillFails ==
  \A inc \in Windows, a, b \in Windows, p, q \in {NoQuality, Dropped} :
    SameOrWorse(a, b) /\ p \in {q, Dropped} =>
      /\ Canary(b, inc, TRUE, q) = "fail" => Canary(a, inc, TRUE, p) = "fail"
      /\ Shadow(b, inc, TRUE, q) = "fail" => Shadow(a, inc, TRUE, p) = "fail"

=============================================================================
