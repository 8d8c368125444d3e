--------------------------- MODULE ReleaseProofs ----------------------------
(***************************************************************************)
(* What lets an agent version serve, and what takes it away.  The          *)
(* registry and the deployment that drives it, for any versions, ramp,     *)
(* thresholds and callers (Deployment); the ladder of online evaluation,   *)
(* for any tenants, jobs, answers, verdicts and thresholds (Quality).      *)
(* They are two specifications, and each theorem is about one of them.     *)
(***************************************************************************)
EXTENDS Deployment, Quality, FiniteSums

-----------------------------------------------------------------------------
(* Registry and deployment.                                                *)

-----------------------------------------------------------------------------
(* Gates.                                                                  *)

GateStep == [ok : BOOLEAN, ms : Nat \cup {-1}, cost : Nat]
IsWindow(s) == IsFiniteSet(DOMAIN s) /\ \A i \in DOMAIN s : s[i] \in GateStep

\* A nonempty finite set of numbers has a least one, which Min yields.
LEMMA LeastOf ==
  ASSUME NEW S, \A x \in S : x \in Int, IsFiniteSet(S), S # {}
  PROVE  Min(S) \in S /\ \A y \in S : Min(S) <= y
<1> DEFINE below(x) == {y \in S : y <= x}
           B == {below(x) : x \in S}
<1>1. PICK T \in B : \A U \in B : U \subseteq T => U = T
  <2>1. \A x \in S : below(x) \in SUBSET S
    OBVIOUS
  <2>2. B \in SUBSET SUBSET S /\ B # {}
    BY <2>1
  <2>3. \A C \in SUBSET SUBSET S : C # {} => \E T \in C : \A U \in C : U \subseteq T => U = T
    BY SmallestSet
  <2>4. QED
    BY <2>2, <2>3
<1>2. PICK x \in S : T = below(x)
  BY <1>1
<1>3. ASSUME NEW z \in S, ~(x <= z) PROVE FALSE
  <2>0. \A y \in S : y \in Int
    OBVIOUS
  <2>1. below(z) \subseteq below(x) /\ x \in below(x) /\ x \notin below(z)
    <3>1. x \in Int /\ z \in Int /\ z <= x /\ ~(x <= z)
      BY <1>3, <2>0
    <3>2. \A y \in S : y <= z => y <= x
      BY <2>0, <3>1
    <3>3. x <= x
      BY <3>1
    <3>4. QED
      BY <3>1, <3>2, <3>3
  <2>2. below(z) \in B
    OBVIOUS
  <2> HIDE DEF B
  <2>3. QED
    BY <1>1, <1>2, <2>1, <2>2
<1>4. QED
  BY <1>2, <1>3 DEF Min

\* It has a greatest one too.
LEMMA GreatestOf ==
  ASSUME NEW S, \A x \in S : x \in Int, IsFiniteSet(S), S # {}
  PROVE  \E x \in S : \A y \in S : y <= x
<1> DEFINE above(x) == {y \in S : x <= y}
           B == {above(x) : x \in S}
<1>1. PICK T \in B : \A U \in B : U \subseteq T => U = T
  <2>1. \A x \in S : above(x) \in SUBSET S
    OBVIOUS
  <2>2. B \in SUBSET SUBSET S /\ B # {}
    BY <2>1
  <2>3. \A C \in SUBSET SUBSET S : C # {} => \E T \in C : \A U \in C : U \subseteq T => U = T
    BY SmallestSet
  <2>4. QED
    BY <2>2, <2>3
<1>2. PICK x \in S : T = above(x)
  BY <1>1
<1>3. ASSUME NEW z \in S, ~(z <= x) PROVE FALSE
  <2>0. \A y \in S : y \in Int
    OBVIOUS
  <2>1. above(z) \subseteq above(x) /\ x \in above(x) /\ x \notin above(z)
    <3>1. x \in Int /\ z \in Int /\ x <= z /\ ~(z <= x)
      BY <1>3, <2>0
    <3>2. \A y \in S : z <= y => x <= y
      BY <2>0, <3>1
    <3>3. x <= x
      BY <3>1
    <3>4. QED
      BY <3>1, <3>2, <3>3
  <2>2. above(z) \in B
    OBVIOUS
  <2> HIDE DEF B
  <2>3. QED
    BY <1>1, <1>2, <2>1, <2>2
<1>4. QED
  BY <1>2, <1>3

\* What is measured is finite, and so are its durations.
LEMMA MeasuredType ==
  ASSUME NEW s, IsWindow(s)
  PROVE  /\ IsFiniteSet(Measured(s)) /\ Cardinality(Measured(s)) \in Nat
         /\ \A i \in Measured(s) : s[i].ms \in Nat
         /\ \A v : IsFiniteSet({i \in Measured(s) : s[i].ms <= v}) /\ UpTo(s, v) \in Nat
         /\ IsFiniteSet({s[i].ms : i \in Measured(s)})
<1>1. \A i \in DOMAIN s : s[i].ms \in Nat \cup {-1}
  BY DEF IsWindow, GateStep
<1>2. Measured(s) \in SUBSET DOMAIN s /\ \A i \in Measured(s) : s[i].ms \in Nat
  BY <1>1 DEF Measured
<1>3. IsFiniteSet(Measured(s))
  BY <1>2, FS_Subset DEF IsWindow
<1>4. ASSUME NEW v
      PROVE IsFiniteSet({i \in Measured(s) : s[i].ms <= v}) /\ UpTo(s, v) \in Nat
  <2>1. {i \in Measured(s) : s[i].ms <= v} \in SUBSET Measured(s)
    OBVIOUS
  <2>2. QED
    BY <1>3, <2>1, FS_Subset, FS_CardinalityType DEF UpTo
<1>5. IsFiniteSet({s[i].ms : i \in Measured(s)})
  <2> DEFINE f == [i \in Measured(s) |-> s[i].ms]
  <2>1. f \in Surjection(Measured(s), {s[i].ms : i \in Measured(s)})
    BY DEF Surjection
  <2>2. QED
    BY <1>3, <2>1, FS_Surjection
<1>6. QED
  BY <1>2, <1>3, <1>4, <1>5, FS_CardinalityType

\* The 95th percentile is the least measured duration that enough do not exceed.
LEMMA P95Value ==
  ASSUME NEW s, IsWindow(s)
  PROVE  LET n == Cardinality(Measured(s))  rank == (19 * n + 19) \div 20 IN
         /\ n = 0 => P95(s) = -1
         /\ n > 0 => /\ P95(s) \in Nat /\ UpTo(s, P95(s)) >= rank /\ rank >= 1 /\ rank <= n
                     /\ \A i \in Measured(s) : UpTo(s, s[i].ms) >= rank => P95(s) <= s[i].ms
<1> DEFINE n == Cardinality(Measured(s))
           rank == (19 * n + 19) \div 20
           values == {s[i].ms : i \in Measured(s)}
           enough == {v \in values : UpTo(s, v) >= rank}
<1>1. n \in Nat /\ values \in SUBSET Nat /\ IsFiniteSet(values) /\ IsFiniteSet(Measured(s))
  BY MeasuredType
<1>2. rank \in Nat /\ (n > 0 => rank >= 1 /\ rank <= n)
  BY <1>1
<1>3. P95(s) = IF n = 0 THEN -1 ELSE Min(enough)
  BY Zenon DEF P95
<1>4. ASSUME n > 0 PROVE enough # {}
  <2>1. values # {}
    <3>1. Measured(s) # {}
      BY <1>4, FS_EmptySet
    <3>2. QED
      BY <3>1
  <2>2. PICK x \in values : \A y \in values : y <= x
    <3>1. \A y \in values : y \in Int
      BY <1>1
    <3> HIDE DEF values
    <3>2. QED
      BY <1>1, <2>1, <3>1, GreatestOf
  <2>3. {i \in Measured(s) : s[i].ms <= x} = Measured(s)
    BY <2>2
  <2>4. UpTo(s, x) = n
    BY <2>3 DEF UpTo
  <2>5. QED
    BY <1>1, <1>2, <1>4, <2>4
<1>5. IsFiniteSet(enough) /\ enough \in SUBSET Nat
  BY <1>1, FS_Subset
<1>6. ASSUME n > 0 PROVE Min(enough) \in enough /\ \A y \in enough : Min(enough) <= y
  <2>1. \A y \in enough : y \in Int
    BY <1>5
  <2> HIDE DEF enough
  <2>2. QED
    BY <1>4, <1>5, <1>6, <2>1, LeastOf
<1> HIDE DEF rank
<1>7. n > 0 => \A i \in Measured(s) : UpTo(s, s[i].ms) >= rank => P95(s) <= s[i].ms
  BY <1>3, <1>6
<1>8. n > 0 => P95(s) \in Nat /\ UpTo(s, P95(s)) >= rank
  BY <1>1, <1>3, <1>6
<1>9. QED
  BY <1>1, <1>2, <1>3, <1>7, <1>8 DEF rank

\* Where every step takes as long or longer, so does the percentile.
LEMMA P95Monotone ==
  ASSUME NEW a, NEW b, IsWindow(a), IsWindow(b), SameOrWorse(a, b)
  PROVE  /\ Measured(a) = Measured(b) /\ P95(a) \in Int /\ P95(b) \in Int
         /\ P95(b) <= P95(a)
<1> DEFINE M == Measured(a)
           n == Cardinality(M)
           rank == (19 * n + 19) \div 20
<1>1. Measured(b) = M /\ \A i \in M : b[i].ms <= a[i].ms
  BY DEF SameOrWorse, Measured
<1>2. n \in Nat /\ IsFiniteSet(M) /\ \A i \in M : a[i].ms \in Nat /\ b[i].ms \in Nat
  BY <1>1, MeasuredType
<1>3. CASE n = 0
  BY <1>1, <1>3, P95Value
<1>4. CASE n > 0
  <2> DEFINE v == P95(a)
  <2>1. /\ v \in Nat /\ UpTo(a, v) >= rank /\ rank >= 1 /\ rank \in Nat
        /\ P95(b) \in Nat
        /\ \A i \in M : UpTo(b, b[i].ms) >= rank => P95(b) <= b[i].ms
    BY <1>1, <1>2, <1>4, P95Value
  <2> DEFINE S == {i \in M : b[i].ms <= v}
             values == {b[i].ms : i \in S}
  <2>2. {i \in M : a[i].ms <= v} \in SUBSET S
    BY <1>1, <1>2, <2>1
  <2>3. S \in SUBSET M /\ IsFiniteSet(S) /\ Cardinality(S) \in Nat
    BY <1>2, FS_Subset, FS_CardinalityType
  <2> HIDE DEF v, rank
  <2>4. Cardinality(S) >= rank
    <3> DEFINE R == {i \in M : a[i].ms <= v}
    <3>1. R \in SUBSET S
      BY <2>2
    <3>2. Cardinality(R) \in Nat /\ Cardinality(R) >= rank
      BY <1>2, <2>1, MeasuredType DEF UpTo
    <3> HIDE DEF R
    <3>3. Cardinality(R) <= Cardinality(S)
      BY <2>3, <3>1, FS_Subset
    <3> HIDE DEF S
    <3>4. QED
      BY <2>1, <2>3, <3>2, <3>3
  <2>5. S # {}
    BY <2>1, <2>3, <2>4, FS_EmptySet
  <2>6. IsFiniteSet(values) /\ values \in SUBSET Int /\ values # {}
    <3> DEFINE f == [i \in S |-> b[i].ms]
    <3>1. f \in Surjection(S, values)
      BY DEF Surjection
    <3>2. IsFiniteSet(values)
      BY <2>3, <3>1, FS_Surjection
    <3>3. \A i \in S : b[i].ms \in Int
      BY <1>2, <2>3
    <3> HIDE DEF S
    <3>4. QED
      BY <2>5, <3>2, <3>3
  <2>7. PICK x \in values : \A y \in values : y <= x
    <3>1. \A y \in values : y \in Int
      BY <2>6
    <3> HIDE DEF values
    <3>2. QED
      BY <2>6, <3>1, GreatestOf
  <2>8. PICK i \in S : x = b[i].ms
    BY <2>7
  <2>9. S \in SUBSET {k \in M : b[k].ms <= b[i].ms}
    BY <2>7, <2>8
  <2>10. UpTo(b, b[i].ms) >= rank
    <3>1. /\ IsFiniteSet({k \in M : b[k].ms <= b[i].ms})
          /\ Cardinality({k \in M : b[k].ms <= b[i].ms}) \in Nat
      BY <1>1, MeasuredType DEF UpTo
    <3>2. Cardinality(S) <= Cardinality({k \in M : b[k].ms <= b[i].ms})
      BY <2>9, <3>1, FS_Subset
    <3>3. QED
      BY <1>1, <2>1, <2>3, <2>4, <3>1, <3>2 DEF UpTo
  <2>11. P95(b) <= b[i].ms /\ b[i].ms <= v
    BY <2>1, <2>8, <2>10
  <2>12. QED
    BY <1>1, <1>2, <2>1, <2>8, <2>11 DEF v
<1>5. QED
  BY <1>2, <1>3, <1>4

\* The sizes and totals of a window, and how they compare where b does better.
LEMMA TotalsMonotone ==
  ASSUME NEW a, NEW b, IsWindow(a), IsWindow(b), SameOrWorse(a, b)
  PROVE  /\ Size(a) \in Nat /\ Size(b) = Size(a)
         /\ Completed(a) \in Nat /\ Completed(b) \in Nat /\ Completed(a) <= Completed(b)
         /\ TotalCost(a) \in Nat /\ TotalCost(b) \in Nat /\ TotalCost(b) <= TotalCost(a)
<1> DEFINE D == DOMAIN a
           ca == [i \in D |-> a[i].cost]
           cb == [i \in D |-> b[i].cost]
<1>1. DOMAIN b = D /\ IsFiniteSet(D) /\ \A i \in D : a[i] \in GateStep /\ b[i] \in GateStep
  BY DEF SameOrWorse, IsWindow
<1>2. \A i \in D : /\ a[i].cost \in Nat /\ b[i].cost \in Nat /\ b[i].cost <= a[i].cost
                   /\ a[i].ok => b[i].ok
  BY <1>1 DEF SameOrWorse, GateStep
<1>3. Size(a) \in Nat /\ Size(b) = Size(a)
  BY <1>1, FS_CardinalityType DEF Size
<1>4. Completed(a) \in Nat /\ Completed(b) \in Nat /\ Completed(a) <= Completed(b)
  <2> DEFINE A == {i \in D : a[i].ok}
             B == {i \in D : b[i].ok}
  <2>1. A \in SUBSET B /\ B \in SUBSET D /\ IsFiniteSet(B)
    BY <1>1, <1>2, FS_Subset
  <2>2. Completed(a) = Cardinality(A) /\ Completed(b) = Cardinality(B)
    BY <1>1 DEF Completed
  <2> HIDE DEF A, B
  <2>3. QED
    BY <2>1, <2>2, FS_Subset, FS_CardinalityType
<1>5. TotalCost(a) = SumFunctionOnSet(ca, D) /\ TotalCost(b) = SumFunctionOnSet(cb, D)
  BY <1>1, Zenon DEF TotalCost
<1>6. \A i \in D : ca[i] \in Nat /\ cb[i] \in Nat /\ cb[i] <= ca[i]
  BY <1>2
<1> HIDE DEF ca, cb
<1>7. /\ SumFunctionOnSet(ca, D) \in Nat /\ SumFunctionOnSet(cb, D) \in Nat
      /\ SumFunctionOnSet(cb, D) <= SumFunctionOnSet(ca, D)
  BY <1>1, <1>6, SumType, SumMonotonic
<1>8. QED
  BY <1>3, <1>4, <1>5, <1>7

\* The totals of one window.
LEMMA TotalsType ==
  ASSUME NEW s, IsWindow(s)
  PROVE  Size(s) \in Nat /\ Completed(s) \in Nat /\ TotalCost(s) \in Nat /\ P95(s) \in Int
<1>1. SameOrWorse(s, s)
  BY DEF SameOrWorse, IsWindow, GateStep
<1>2. QED
  BY <1>1, TotalsMonotone, P95Monotone

LEMMA ProductMonotone == \A i, j, k \in Nat : i <= j => i * k <= j * k
<1> SUFFICES ASSUME NEW i \in Nat, NEW j \in Nat, NEW k \in Nat, i <= j
             PROVE i * k <= j * k
  OBVIOUS
<1>1. PICK d \in Nat : j = i + d
  <2>1. j - i \in Nat /\ j = i + (j - i)
    OBVIOUS
  <2>2. QED
    BY <2>1
<1>2. j * k = i * k + d * k /\ d * k \in Nat /\ i * k \in Nat
  BY <1>1
<1>3. QED
  BY <1>1, <1>2

\* Each comparison that the better window loses, the worse one loses.
LEMMA BreachesMonotone ==
  ASSUME NEW a, NEW b, NEW inc, IsWindow(a), IsWindow(b), IsWindow(inc), SameOrWorse(a, b)
  PROVE  /\ SuccessBreach(b, inc) => SuccessBreach(a, inc)
         /\ LatencyBreach(b, inc) => LatencyBreach(a, inc)
         /\ CostBreach(b, inc) => CostBreach(a, inc)
<1>1. /\ Size(a) \in Nat /\ Size(b) = Size(a)
      /\ Completed(a) \in Nat /\ Completed(b) \in Nat /\ Completed(a) <= Completed(b)
      /\ TotalCost(a) \in Nat /\ TotalCost(b) \in Nat /\ TotalCost(b) <= TotalCost(a)
  BY TotalsMonotone
<1>2. Size(inc) \in Nat /\ Completed(inc) \in Nat /\ TotalCost(inc) \in Nat /\ P95(inc) \in Int
  BY TotalsType
<1>3. /\ MaxSuccessDelta \in Nat /\ MaxP95Ratio \in Nat /\ MaxCostRatio \in Nat
  BY ThresholdsAssumption
<1>4. SuccessBreach(b, inc) => SuccessBreach(a, inc)
  <2>1. Completed(a) * Size(inc) <= Completed(b) * Size(inc)
    BY <1>1, <1>2, ProductMonotone
  <2> DEFINE x == Completed(a) * Size(inc)
             y == Completed(b) * Size(inc)
             z == (100 * Completed(inc) - MaxSuccessDelta * Size(inc)) * Size(a)
  <2>2. x \in Nat /\ y \in Nat /\ z \in Int
    BY <1>1, <1>2, <1>3
  <2>3. 100 * Completed(a) * Size(inc) = 100 * x /\ 100 * Completed(b) * Size(inc) = 100 * y
    BY <1>1, <1>2
  <2>4. (100 * Completed(inc) - MaxSuccessDelta * Size(inc)) * Size(b) = z
    BY <1>1
  <2> HIDE DEF x, y, z
  <2>5. 100 * y < z => 100 * x < z
    BY <2>1, <2>2 DEF x, y
  <2>6. QED
    BY <2>3, <2>4, <2>5 DEF SuccessBreach, z
<1>5. LatencyBreach(b, inc) => LatencyBreach(a, inc)
  <2>1. P95(a) \in Int /\ P95(b) \in Int /\ P95(b) <= P95(a)
    BY P95Monotone
  <2> DEFINE m == MaxP95Ratio * P95(inc)
  <2>2. m \in Int
    BY <1>2, <1>3
  <2> HIDE DEF m
  <2>3. P95(b) >= 0 /\ 100 * P95(b) > m => P95(a) >= 0 /\ 100 * P95(a) > m
    BY <2>1, <2>2
  <2>4. QED
    BY <2>3 DEF LatencyBreach, m
<1>6. CostBreach(b, inc) => CostBreach(a, inc)
  <2>1. TotalCost(b) * Size(inc) <= TotalCost(a) * Size(inc)
    BY <1>1, <1>2, ProductMonotone
  <2> DEFINE x == TotalCost(a) * Size(inc)
             y == TotalCost(b) * Size(inc)
             z == MaxCostRatio * TotalCost(inc) * Size(a)
  <2>2. x \in Nat /\ y \in Nat /\ z \in Int
    BY <1>1, <1>2, <1>3
  <2>3. 100 * TotalCost(a) * Size(inc) = 100 * x /\ 100 * TotalCost(b) * Size(inc) = 100 * y
    BY <1>1, <1>2
  <2>4. MaxCostRatio * TotalCost(inc) * Size(b) = z
    BY <1>1
  <2> HIDE DEF x, y, z
  <2>5. 100 * y > z => 100 * x > z
    BY <2>1, <2>2 DEF x, y
  <2>6. QED
    BY <2>3, <2>4, <2>5 DEF CostBreach, z
<1>7. QED
  BY <1>4, <1>5, <1>6

\* Pairing keeps windows windows, and one that does better better.
LEMMA PairedWindows ==
  ASSUME NEW a, NEW b, NEW inc, IsWindow(a), IsWindow(b), IsWindow(inc), SameOrWorse(a, b)
  PROVE  LET pa == Paired(a, inc)  pb == Paired(b, inc) IN
         /\ IsWindow(pa.cand) /\ IsWindow(pb.cand) /\ IsWindow(pa.inc) /\ pb.inc = pa.inc
         /\ SameOrWorse(pa.cand, pb.cand)
<1> DEFINE K == DOMAIN a \cap DOMAIN inc
           ra == [i \in K |-> a[i]]
           rb == [i \in K |-> b[i]]
           ri == [i \in K |-> inc[i]]
<1>1. DOMAIN b = DOMAIN a
  BY DEF SameOrWorse
<1>2. Paired(a, inc) = [cand |-> ra, inc |-> ri] /\ Paired(b, inc) = [cand |-> rb, inc |-> ri]
  BY <1>1, Zenon DEF Paired, Restrict
<1>3. K \in SUBSET DOMAIN a /\ K \in SUBSET DOMAIN inc /\ IsFiniteSet(K)
  BY FS_Subset DEF IsWindow
<1>4. IsWindow(ra) /\ IsWindow(rb) /\ IsWindow(ri)
  BY <1>1, <1>3 DEF IsWindow
<1>5. SameOrWorse(ra, rb)
  BY <1>3 DEF SameOrWorse
<1>6. QED
  BY <1>2, <1>4, <1>5

\* For windows of any size and any thresholds: a candidate that fails a gate
\* still fails it after doing worse.
THEOREM WorseFailsGates ==
  ASSUME NEW a, NEW b, NEW inc, IsWindow(a), IsWindow(b), IsWindow(inc),
         SameOrWorse(a, b),
         NEW priced \in BOOLEAN, NEW p, NEW q, QualityBreach(q) => QualityBreach(p)
  PROVE  /\ Canary(b, inc, priced, q) = "fail" => Canary(a, inc, priced, p) = "fail"
         /\ Shadow(b, inc, priced, q) = "fail" => Shadow(a, inc, priced, p) = "fail"
<1>1. ASSUME Canary(b, inc, priced, q) = "fail" PROVE Canary(a, inc, priced, p) = "fail"
  <2>1. /\ Size(b) # 0
        /\ SuccessBreach(b, inc) \/ LatencyBreach(b, inc)
           \/ (priced /\ CostBreach(b, inc)) \/ QualityBreach(q)
    BY <1>1 DEF Canary
  <2>2. /\ Size(a) # 0
        /\ SuccessBreach(a, inc) \/ LatencyBreach(a, inc)
           \/ (priced /\ CostBreach(a, inc)) \/ QualityBreach(p)
    BY <2>1, TotalsMonotone, BreachesMonotone
  <2>3. QED
    BY <2>2 DEF Canary
<1>2. ASSUME Shadow(b, inc, priced, q) = "fail" PROVE Shadow(a, inc, priced, p) = "fail"
  <2> DEFINE pa == Paired(a, inc)
             pb == Paired(b, inc)
  <2>1. /\ IsWindow(pa.cand) /\ IsWindow(pb.cand) /\ IsWindow(pa.inc) /\ pb.inc = pa.inc
        /\ SameOrWorse(pa.cand, pb.cand)
    BY PairedWindows, Zenon
  <2>2. /\ ~(Size(pb.cand) < MinShadowSamples)
        /\ \/ 100 * Completed(pb.cand) < MinShadowCompletion * Size(pb.cand)
           \/ LatencyBreach(pb.cand, pb.inc) \/ (priced /\ CostBreach(pb.cand, pb.inc))
           \/ QualityBreach(q)
    BY <1>2 DEF Shadow
  <2> HIDE DEF pa, pb
  <2>3. /\ Size(pa.cand) \in Nat /\ Size(pb.cand) = Size(pa.cand)
        /\ Completed(pa.cand) \in Nat /\ Completed(pb.cand) \in Nat
        /\ Completed(pa.cand) <= Completed(pb.cand)
    BY <2>1, TotalsMonotone
  <2>4. /\ LatencyBreach(pb.cand, pa.inc) => LatencyBreach(pa.cand, pa.inc)
        /\ CostBreach(pb.cand, pa.inc) => CostBreach(pa.cand, pa.inc)
    BY <2>1, BreachesMonotone
  <2>5. MinShadowCompletion * Size(pa.cand) \in Int
    BY <2>3, ThresholdsAssumption
  <2>6. 100 * Completed(pb.cand) < MinShadowCompletion * Size(pb.cand)
          => 100 * Completed(pa.cand) < MinShadowCompletion * Size(pa.cand)
    <3> DEFINE m == MinShadowCompletion * Size(pa.cand)
    <3>1. m \in Int /\ MinShadowCompletion * Size(pb.cand) = m
      BY <2>3, <2>5
    <3> HIDE DEF m
    <3>2. 100 * Completed(pb.cand) < m => 100 * Completed(pa.cand) < m
      BY <2>3, <3>1
    <3>3. QED
      BY <3>1, <3>2 DEF m
  <2>7. /\ ~(Size(pa.cand) < MinShadowSamples)
        /\ \/ 100 * Completed(pa.cand) < MinShadowCompletion * Size(pa.cand)
           \/ LatencyBreach(pa.cand, pa.inc) \/ (priced /\ CostBreach(pa.cand, pa.inc))
           \/ QualityBreach(p)
    BY <2>1, <2>2, <2>3, <2>4, <2>6
  <2>8. QED
    BY <2>7 DEF Shadow, pa
<1>3. QED
  BY <1>1, <1>2

\* The windows the gates are checked on are windows.
LEMMA SmallWindows == \A s \in Windows : IsWindow(s)
<1> SUFFICES ASSUME NEW n \in 0..2, NEW s \in [1..n -> Steps] PROVE IsWindow(s)
  BY DEF Windows
<1>1. IsFiniteSet(1..n)
  BY FS_Interval
<1>2. QED
  BY <1>1, StepsAssumption DEF IsWindow, GateStep

LEMMA GatesHold == WorseStillFails
<1> USE DEF WorseStillFails
<1> TAKE inc \in Windows, a, b \in Windows, p, q \in {NoQuality, Dropped}
<1> HAVE SameOrWorse(a, b) /\ p \in {q, Dropped}
<1>1. QualityBreach(Dropped)
  BY ThresholdsAssumption DEF QualityBreach, Dropped
<1>2. QualityBreach(q) => QualityBreach(p)
  BY <1>1
<1>3. IsWindow(inc) /\ IsWindow(a) /\ IsWindow(b)
  BY SmallWindows
<1>4. QED
  BY <1>2, <1>3, WorseFailsGates

-----------------------------------------------------------------------------
(* Manifests.                                                              *)

\* Every write of an accepted manifest can be undone by one capability.
LEMMA ManifestsHold == ManifestsUndo
<1> SUFFICES ASSUME NEW m \in Manifests, Accepts(m), NEW i \in DOMAIN m, Writes(m[i])
             PROVE  \/ m[i].irreversible /\ m[i].comp = ""
                    \/ /\ ~m[i].irreversible
                       /\ \E j \in DOMAIN m : /\ m[j].name = m[i].comp /\ j # i
                                              /\ m[j].risk \in {"R1", "R2"}
                                              /\ \A k \in DOMAIN m : m[k].name = m[i].comp => k = j
  BY DEF ManifestsUndo
<1>1. PICK n \in 1..3 : m \in [1..n -> Capability]
  BY DEF Manifests
<1>2. \A j \in DOMAIN m : j \in Int /\ m[j] \in Capability
  BY <1>1
<1>3. /\ m[i].comp # "" \/ m[i].irreversible
      /\ ~(m[i].comp # "" /\ m[i].irreversible)
      /\ m[i].comp # "" => /\ m[i].comp # m[i].name
                           /\ RiskOf(m, m[i].comp) \in {"R1", "R2"}
  BY DEF Accepts
<1>4. CASE m[i].comp = ""
  BY <1>3, <1>4
<1>5. CASE m[i].comp # ""
  <2> DEFINE at == {j \in DOMAIN m : m[j].name = m[i].comp}
  <2>1. RiskOf(m, m[i].comp) = IF at = {} THEN "none" ELSE m[Max(at)].risk
    BY DEF RiskOf
  <2>2. PICK j \in at : TRUE
    BY <1>3, <1>5, <2>1
  <2>3. at = {j} /\ j \in Int
    BY <1>2, <2>2 DEF Accepts, NoDuplicates
  <2>4. Max(at) = j
    BY <2>3 DEF Max
  <2>5. m[j].risk \in {"R1", "R2"} /\ m[j].name = m[i].comp /\ j # i
    BY <1>3, <1>5, <2>1, <2>2, <2>4
  <2>6. \A k \in DOMAIN m : m[k].name = m[i].comp => k = j
    BY <2>3
  <2>7. QED
    BY <1>3, <1>5, <2>2, <2>5, <2>6
<1>6. QED
  BY <1>4, <1>5

-----------------------------------------------------------------------------
(* The inductive invariant.                                                *)

\* No two members.
AtMostOne(S) == \A u, v \in S : u = v

\* A request past its route is about a row that exists, and what is left of it
\* was permitted for the state it was checked against.
Sound(r) ==
  /\ r.at = "none" <=> r.op = "none"
  /\ r.at \notin {"none", "route"} => Exists(r.v)
  /\ r.at \in {"demote", "candidate", "commit"} => r.op = "promote" /\ Exists(r.other)
  /\ r.at = "flag" => r.op = "state" /\ "suspended" \in {r.to, r.from}
  /\ r.op = "state" \/ (r.op = "baseline" /\ r.at = "write") => r.to \in States
  /\ r.op = "state" /\ r.at \in {"read", "write", "flag"} => MayDrive(r.scope, Edge(r.from, r.to))

\* What each caller asks: only the controller makes a version a canary or
\* promotes it, and it asks what its place in the workflow calls for.
Callers ==
  /\ req[Ops].op \in {"none", "state"} /\ req[Ops].to # "canary"
  /\ req[Pub].op \in {"none", "register", "baseline"}
  /\ \A c \in Clients : reply[c] # "none" => c = Ctl
  /\ reply[Ctl] # "none" => req[Ctl].at = "none" /\ dpc \in Calls
  /\ req[Ctl].at # "none" =>
       /\ dpc \in Calls
       /\ req[Ctl].op = IF dpc = "promote" THEN "promote" ELSE "state"
       /\ req[Ctl].to = "canary" => dpc \in {"to_canary", "rollback"}

Serving == AtMostOne(Rows({"active"})) /\ AtMostOne(Rows({"shadow", "canary"}))

Before == {"start", "preflight", "to_shadow", "shadow_soak", "shadow_again"}
Loop == {"ramp", "to_canary", "soak", "rollback"}
After == {"approval", "refreeze", "promote"}

\* The ramp steps below the current one have passed, the current one is still
\* to be judged, and a second breach in a row has left the loop.
Climbing ==
  /\ dpc \in Before => step = 1
  /\ dpc \in Before \cup Loop => rollbacks <= 1
  /\ dpc \in Loop => 0..(step - 1) \subseteq passed
  /\ dpc \in {"to_canary", "soak", "rollback"} => step <= Len(RampSteps)
  /\ dpc = "rollback" => step > 1
  /\ dpc \in After => passed = 0..Len(RampSteps)

\* The deployment goes on to retire the incumbent only after its promotion.
Promoting ==
  /\ promoted => dpc \in {"promote", "drain", "retire", "completed", "threw"}
  /\ dpc \in {"drain", "retire", "completed"} => promoted
  /\ dpc = "promote" => /\ reply[Ctl] = "ok" => promoted
                        /\ req[Ctl].at = "announce" => promoted
  /\ dpc = "retire" => incumbent # None

ReleaseInv ==
  /\ TypeOK /\ Serving /\ Callers /\ Climbing /\ Promoting
  /\ \A c \in Clients : Sound(req[c])

-----------------------------------------------------------------------------
(* What serving a request does.                                            *)

Replies == {"none", "ok", "refused", "error"}
RegistryType == /\ row \in [Versions -> Row \cup {NoRow}]
                /\ req \in [Clients -> RequestType] /\ reply \in [Clients -> Replies]

\* A served request is answered, or stays the request it was and is sound.
Served(c) ==
  /\ \A d \in Clients \ {c} : req'[d] = req[d] /\ reply'[d] = reply[d]
  /\ req' \in [Clients -> RequestType] /\ reply' \in [Clients -> Replies]
  /\ req[c].at # "none"
  /\ \/ /\ req'[c] = Idle
        /\ reply'[c] # reply[c] => c = Ctl
        /\ reply'[c] = "ok" => \/ reply[c] = "ok"
                               \/ req[c].op = "register" \/ req[c].at = "announce"
     \/ /\ reply' = reply
        /\ req'[c].at \notin {"none", "route"}
        /\ req'[c].op = req[c].op /\ req'[c].v = req[c].v
        /\ req[c].op = "state" => req'[c].to = req[c].to
        /\ req[c].op = "promote" => req'[c].to \in {req[c].to, "active"}
  /\ Sound(req[c])'

\* Every ramp percentage is one of Ramps, and they are numbers.
LEMMA RampsType ==
  /\ \A i \in 1..Len(RampSteps) : RampSteps[i] \in Ramps
  /\ 0 \in Ramps /\ \A r \in Ramps : r \in Nat
  /\ Len(RampSteps) \in Nat /\ Len(RampSteps) >= 1
<1> DEFINE Pct == 1..100
<1>1. RampSteps \in Seq(Pct) /\ RampSteps # <<>> /\ \A p \in Pct : p \in Nat
  BY RegistryAssumption
<1> HIDE DEF Pct
<1>2. \A i \in 1..Len(RampSteps) : RampSteps[i] \in Pct
  BY <1>1
<1>3. Len(RampSteps) \in Nat /\ Len(RampSteps) # 0
  BY <1>1
<1>4. \A i \in 1..Len(RampSteps) : RampSteps[i] \in Nat
  BY <1>1, <1>2
<1> HIDE <1>2
<1>5. QED
  BY <1>3, <1>4 DEF Ramps

\* Rows are cards of a known version, and a row is not NoRow.
LEMMA RowType ==
  ASSUME RegistryType
  PROVE  /\ NoRow \notin Row
         /\ \A v \in Versions : Exists(v) => row[v] \in Row
         /\ \A s \in States, b \in BOOLEAN : RowAt(s, b) \in Row
<1>1. NoRow \notin Row
  BY NoRowAssumption
<1>2. \A s \in States, b \in BOOLEAN : RowAt(s, b) \in Row
  BY DEF RowAt, Row, Ramps
<1>3. QED
  BY <1>1, <1>2 DEF RegistryType, Exists

LEMMA AnswerServes ==
  ASSUME RegistryType, NEW c \in Clients, NEW a \in Replies, Answer(c, a),
         req[c].at # "none",
         a = "ok" => req[c].op = "register" \/ req[c].at = "announce"
  PROVE  Served(c)
<1>1. Idle \in RequestType
  BY RegistryAssumption DEF Idle, RequestType, Ramps
<1>2. req' = [req EXCEPT ![c] = Idle] /\ req' \in [Clients -> RequestType]
  BY <1>1 DEF Answer, RegistryType
<1>3. /\ reply' \in [Clients -> Replies]
      /\ \A d \in Clients \ {c} : reply'[d] = reply[d]
      /\ reply'[c] # reply[c] => c = Ctl /\ reply'[c] = a
  BY DeploymentAssumption DEF Answer, RegistryType
<1>4. /\ req'[c] = Idle
      /\ \A d \in Clients \ {c} : req'[d] = req[d]
  BY <1>2 DEF RegistryType
<1>5. Sound(req[c])'
  BY <1>4 DEF Sound, Idle
<1>6. reply'[c] = "ok" => \/ reply[c] = "ok"
                          \/ req[c].op = "register" \/ req[c].at = "announce"
  BY <1>3
<1>7. QED
  BY <1>2, <1>3, <1>4, <1>5, <1>6 DEF Served

\* Rows never vanish.
RowsStay == \A v \in Versions : Exists(v) => row'[v] # NoRow

LEMMA AdvanceServes ==
  ASSUME RegistryType, NEW c \in Clients, req[c].at # "none", NEW n \in RequestType,
         req' = [req EXCEPT ![c] = n], reply' = reply,
         n.at \notin {"none", "route"}, n.op = req[c].op, n.v = req[c].v,
         req[c].op = "state" => n.to = req[c].to,
         req[c].op = "promote" => n.to \in {req[c].to, "active"},
         Sound(n)'
  PROVE  Served(c)
<1>1. req'[c] = n /\ \A d \in Clients \ {c} : req'[d] = req[d]
  BY DEF RegistryType
<1>2. Sound(req[c])'
  BY <1>1
<1>3. req' \in [Clients -> RequestType] /\ reply' \in [Clients -> Replies]
  BY DEF RegistryType
<1>4. QED
  BY <1>1, <1>2, <1>3 DEF Served

\* A request that exists is about a version of the agent.
LEMMA RequestTyped ==
  ASSUME RegistryType, NEW c \in Clients
  PROVE  /\ req[c] \in RequestType /\ req[c].v \in Versions /\ req[c].other \in Versions
         /\ row \in [Versions -> Row \cup {NoRow}]
         /\ Exists(req[c].v) => /\ row[req[c].v] \in Row /\ row[req[c].v].card \in States
                                /\ row[req[c].v].baseline \in BOOLEAN
<1>1. req[c] \in RequestType /\ row \in [Versions -> Row \cup {NoRow}]
  BY DEF RegistryType
<1>2. req[c].v \in Versions /\ req[c].other \in Versions
  BY <1>1 DEF RequestType
<1>3. QED
  BY <1>1, <1>2, RowType DEF Row

LEMMA RegisterServes ==
  ASSUME RegistryType, NEW c \in Clients, Sound(req[c]), Register(c)
  PROVE  Served(c) /\ RowsStay
<1> DEFINE r == req[c]
<1>1. r \in RequestType /\ r.v \in Versions /\ row \in [Versions -> Row \cup {NoRow}]
  BY RequestTyped
<1>2. CASE /\ ~Exists(r.v)
           /\ row' = [row EXCEPT ![r.v] = RowAt("registered", FALSE)]
           /\ req' = [req EXCEPT ![c].at = "announce", ![c].to = "registered"]
           /\ UNCHANGED reply
  <2>1. RowAt("registered", FALSE) \in Row /\ NoRow \notin Row
    BY RowType DEF States
  <2>2. RowsStay /\ row'[r.v] # NoRow
    BY <1>1, <1>2, <2>1 DEF RowsStay, Exists
  <2>3. PICK n \in RequestType : n = [r EXCEPT !.at = "announce", !.to = "registered"]
    BY <1>1 DEF RequestType, States
  <2>4. /\ n.at = "announce" /\ n.op = "register" /\ n.v = r.v
        /\ req' = [req EXCEPT ![c] = n]
    <3>1. r.op = "register"
      BY DEF Register
    <3>2. n.at = "announce" /\ n.op = r.op /\ n.v = r.v
      BY <1>1, <2>3 DEF RequestType
    <3>3. req' = [req EXCEPT ![c] = [r EXCEPT !.at = "announce", !.to = "registered"]]
      BY <1>2
    <3>4. QED
      BY <2>3, <3>1, <3>2, <3>3
  <2>5. Sound(n)'
    BY <2>2, <2>4 DEF Sound, Exists
  <2>6. QED
    BY <2>5, <1>2, <2>2, <2>3, <2>4, AdvanceServes DEF Register
<1>3. CASE /\ Exists(r.v)
           /\ \E a \in {"ok", "refused"} : Answer(c, a)
           /\ UNCHANGED row
  <2>1. Served(c)
    BY <1>3, AnswerServes DEF Register, Replies
  <2>2. QED
    BY <1>3, <2>1 DEF RowsStay, Exists
<1>4. QED
  BY <1>2, <1>3 DEF Register

LEMMA RouteServes ==
  ASSUME RegistryType, NEW c \in Clients, Sound(req[c]), RouteCheck(c)
  PROVE  Served(c) /\ RowsStay
<1> DEFINE r == req[c]
<1>1. r \in RequestType /\ (Exists(r.v) => row[r.v].card \in States)
  BY RequestTyped
<1>2. RowsStay
  BY DEF RouteCheck, RowsStay, Exists
<1>3. CASE Exists(r.v) /\ Permitted(r) /\ UNCHANGED reply
           /\ req' = [req EXCEPT ![c].at = "read", ![c].from = row[r.v].card]
  <2>0. PICK n \in RequestType : n = [r EXCEPT !.at = "read", !.from = row[r.v].card]
    BY <1>1, <1>3 DEF RequestType
  <2>1. /\ n.at = "read" /\ n.op = r.op /\ n.v = r.v /\ n.to = r.to
        /\ n.scope = r.scope /\ n.from = row[r.v].card
        /\ req' = [req EXCEPT ![c] = n]
    <3>1. /\ n.at = "read" /\ n.op = r.op /\ n.v = r.v /\ n.to = r.to
          /\ n.scope = r.scope /\ n.from = row[r.v].card
      BY <1>1, <2>0 DEF RequestType
    <3>2. req' = [req EXCEPT ![c] = n]
      BY <1>3, <2>0 DEF RegistryType
    <3>3. QED
      BY <3>1, <3>2
  <2>2. n.op = "state" => MayDrive(n.scope, Edge(n.from, n.to))
    BY <1>3, <2>1 DEF Permitted
  <2>3. r.op \in {"state", "promote", "baseline"} /\ row' = row /\ (r.op = "state" => r.to \in States)
    BY DEF RouteCheck, Sound
  <2>4. Sound(n)'
    BY <1>3, <2>1, <2>2, <2>3 DEF Sound, Exists
  <2>5. QED
    BY <1>2, <1>3, <2>1, <2>4, AdvanceServes DEF RouteCheck
<1>4. CASE Answer(c, "refused")
  BY <1>2, <1>4, AnswerServes DEF RouteCheck, Replies
<1>5. QED
  BY <1>3, <1>4 DEF RouteCheck

LEMMA ReadServes ==
  ASSUME RegistryType, NEW c \in Clients, Sound(req[c]), StoreRead(c)
  PROVE  Served(c) /\ RowsStay
<1> DEFINE r == req[c]
           b == row[r.v].baseline
           t == IF r.op = "baseline" THEN row[r.v].card ELSE r.to
<1>1. r \in RequestType /\ Exists(r.v) /\ row[r.v].card \in States /\ b \in BOOLEAN
  BY RequestTyped DEF StoreRead, Sound
<1>2. RowsStay /\ row' = row
  BY DEF StoreRead, RowsStay, Exists
<1>3. /\ r.op \in {"state", "baseline"} /\ r.at = "read"
      /\ t \in States /\ (r.op = "state" => t = r.to)
  BY <1>1 DEF StoreRead, Sound
<1> HIDE DEF t, b
<1>4. PICK n \in RequestType : n = [r EXCEPT !.at = "write", !.base = b, !.to = t]
  BY <1>1, <1>3 DEF RequestType
<1>5. /\ n.at = "write" /\ n.op = r.op /\ n.v = r.v /\ n.to = t
      /\ n.scope = r.scope /\ n.from = r.from
  BY <1>1, <1>4 DEF RequestType
<1>6. req' = [req EXCEPT ![c] = n]
  <2>1. [r EXCEPT !.at = "write", !.base = b, !.to = IF r.op = "baseline" THEN row[r.v].card ELSE @] = n
    BY <1>1, <1>4 DEF t, RequestType
  <2>2. QED
    BY <2>1 DEF StoreRead, b, RegistryType
<1>7. Sound(n)'
  BY <1>1, <1>2, <1>3, <1>5 DEF Sound, Exists
<1>8. reply' = reply
  BY DEF StoreRead
<1>9. QED
  BY <1>2, <1>3, <1>5, <1>6, <1>7, <1>8, AdvanceServes

LEMMA PromoteReadServes ==
  ASSUME RegistryType, NEW c \in Clients, Sound(req[c]), PromoteRead(c)
  PROVE  Served(c) /\ RowsStay
<1> DEFINE r == req[c]
           active == Rows({"active"})
<1>1. r \in RequestType /\ Exists(r.v) /\ r.v \in Versions
  BY RequestTyped DEF PromoteRead, Sound
<1>2. RowsStay /\ row' = row /\ reply' = reply
  BY DEF PromoteRead, RowsStay, Exists
<1>3. r.op = "promote" /\ r.at = "read"
  BY DEF PromoteRead
<1>4. \A v \in active : v \in Versions /\ Exists(v) /\ row[v].baseline \in BOOLEAN
  BY RequestTyped, RowType DEF Rows, Exists, Row
<1>5. PICK n \in RequestType :
        /\ req' = [req EXCEPT ![c] = n] /\ n.at \in {"candidate", "demote"}
        /\ n.op = r.op /\ n.v = r.v /\ n.to = r.to /\ n.other \in Versions /\ Exists(n.other)
  <2>1. CASE req' = [req EXCEPT ![c].at = "candidate", ![c].other = r.v]
    <3>1. PICK n : n = [r EXCEPT !.at = "candidate", !.other = r.v]
      OBVIOUS
    <3>2. /\ n \in RequestType /\ n.at = "candidate" /\ n.op = r.op /\ n.v = r.v /\ n.to = r.to
          /\ n.other = r.v
      BY <1>1, <3>1 DEF RequestType
    <3>3. req' = [req EXCEPT ![c] = n]
      BY <2>1, <3>1 DEF RegistryType
    <3>4. QED
      BY <1>1, <3>2, <3>3
  <2>2. ASSUME NEW v \in active,
               req' = [req EXCEPT ![c].at = "demote", ![c].other = v, ![c].otherBase = row[v].baseline]
        PROVE  \E n \in RequestType :
                 /\ req' = [req EXCEPT ![c] = n] /\ n.at \in {"candidate", "demote"}
                 /\ n.op = r.op /\ n.v = r.v /\ n.to = r.to /\ n.other \in Versions /\ Exists(n.other)
    <3>0. PICK base : base = row[v].baseline
      OBVIOUS
    <3>1. PICK n : n = [r EXCEPT !.at = "demote", !.other = v, !.otherBase = base]
      OBVIOUS
    <3>2. v \in Versions /\ Exists(v) /\ base \in BOOLEAN
      BY <1>4, <3>0
    <3>3. /\ n \in RequestType /\ n.at = "demote" /\ n.op = r.op /\ n.v = r.v /\ n.to = r.to
          /\ n.other = v
      BY <1>1, <3>1, <3>2 DEF RequestType
    <3>4. req' = [req EXCEPT ![c] = n]
      BY <2>2, <3>0, <3>1 DEF RegistryType
    <3>5. QED
      BY <3>2, <3>3, <3>4
  <2>3. QED
    BY <2>1, <2>2 DEF PromoteRead
<1>6. Sound(n)'
  BY <1>1, <1>2, <1>3, <1>5 DEF Sound, Exists
<1>7. QED
  BY <1>2, <1>3, <1>5, <1>6, AdvanceServes

LEMMA DemoteServes ==
  ASSUME RegistryType, NEW c \in Clients, Sound(req[c]), DemoteIncumbent(c)
  PROVE  Served(c) /\ RowsStay
<1> DEFINE r == req[c]
<1>1. /\ r \in RequestType /\ Exists(r.v) /\ Exists(r.other)
      /\ r.op = "promote" /\ r.at = "demote"
  BY RequestTyped DEF DemoteIncumbent, Sound
<1>2. RowsStay /\ row' = row
  BY DEF DemoteIncumbent, RowsStay, Exists
<1>3. CASE req' = [req EXCEPT ![c].at = "candidate"] /\ UNCHANGED reply
  <2>1. PICK n \in RequestType : n = [r EXCEPT !.at = "candidate"]
    BY <1>1 DEF RequestType
  <2>2. n.at = "candidate" /\ n.op = r.op /\ n.v = r.v /\ n.to = r.to /\ n.other = r.other
    BY <1>1, <2>1 DEF RequestType
  <2>3. req' = [req EXCEPT ![c] = n]
    BY <1>3, <2>1 DEF RegistryType
  <2>4. Sound(n)'
    BY <1>1, <1>2, <2>2 DEF Sound, Exists
  <2>5. QED
    BY <1>1, <1>2, <1>3, <2>2, <2>3, <2>4, AdvanceServes
<1>4. CASE Answer(c, "error")
  BY <1>1, <1>2, <1>4, AnswerServes DEF Replies
<1>5. QED
  BY <1>3, <1>4 DEF DemoteIncumbent

LEMMA CandidateReadServes ==
  ASSUME RegistryType, NEW c \in Clients, Sound(req[c]), CandidateRead(c)
  PROVE  Served(c) /\ RowsStay
<1> DEFINE r == req[c]
           b == row[r.v].baseline
<1>1. /\ r \in RequestType /\ Exists(r.v) /\ Exists(r.other) /\ b \in BOOLEAN
      /\ r.op = "promote" /\ r.at = "candidate"
  BY RequestTyped DEF CandidateRead, Sound
<1>2. RowsStay /\ row' = row
  BY DEF CandidateRead, RowsStay, Exists
<1>3. CASE req' = [req EXCEPT ![c].at = "commit", ![c].base = b] /\ UNCHANGED reply
  <2> HIDE DEF b
  <2>1. PICK n \in RequestType : n = [r EXCEPT !.at = "commit", !.base = b]
    BY <1>1 DEF RequestType
  <2>2. n.at = "commit" /\ n.op = r.op /\ n.v = r.v /\ n.to = r.to /\ n.other = r.other
    BY <1>1, <2>1 DEF RequestType
  <2>3. req' = [req EXCEPT ![c] = n]
    BY <1>3, <2>1 DEF RegistryType
  <2>4. Sound(n)'
    BY <1>1, <1>2, <2>2 DEF Sound, Exists
  <2>5. QED
    BY <1>1, <1>2, <1>3, <2>2, <2>3, <2>4, AdvanceServes
<1>4. CASE Answer(c, "error")
  BY <1>1, <1>2, <1>4, AnswerServes DEF Replies
<1>5. QED
  BY <1>3, <1>4 DEF CandidateRead

LEMMA FlagServes ==
  ASSUME RegistryType, NEW c \in Clients, Sound(req[c]), FlipFlag(c)
  PROVE  Served(c) /\ RowsStay
<1> DEFINE r == req[c]
<1>1. r \in RequestType /\ Exists(r.v) /\ r.at = "flag" /\ r.op = "state" /\ r.to \in States
  BY RequestTyped DEF FlipFlag, Sound
<1>2. RowsStay /\ row' = row /\ reply' = reply
  BY DEF FlipFlag, RowsStay, Exists
<1>3. PICK n \in RequestType : n = [r EXCEPT !.at = "announce", !.from = "none", !.base = FALSE]
  BY <1>1 DEF RequestType
<1>4. n.at = "announce" /\ n.op = r.op /\ n.v = r.v /\ n.to = r.to
  BY <1>1, <1>3 DEF RequestType
<1>5. req' = [req EXCEPT ![c] = n]
  BY <1>3 DEF FlipFlag, RegistryType
<1>6. Sound(n)'
  BY <1>1, <1>2, <1>4 DEF Sound, Exists
<1>7. QED
  BY <1>1, <1>2, <1>4, <1>5, <1>6, AdvanceServes

LEMMA EndServes ==
  ASSUME RegistryType, NEW c \in Clients, Sound(req[c]), Announce(c) \/ Fail(c)
  PROVE  Served(c) /\ RowsStay
<1>1. RowsStay
  BY DEF Announce, Fail, RowsStay, Exists
<1>2. CASE Announce(c)
  BY <1>1, <1>2, AnswerServes DEF Announce, Replies
<1>3. CASE Fail(c)
  BY <1>1, <1>3, AnswerServes DEF Fail, Replies
<1>4. QED
  BY <1>2, <1>3

\* Writing one row keeps the others and loses none.
LEMMA RowWritten ==
  ASSUME RegistryType, NEW v \in Versions, NEW w \in Row, row' = [row EXCEPT ![v] = w]
  PROVE  /\ row' \in [Versions -> Row \cup {NoRow}] /\ RowsStay
         /\ row'[v] = w /\ w # NoRow /\ \A u \in Versions \ {v} : row'[u] = row[u]
<1>1. row \in [Versions -> Row \cup {NoRow}] /\ NoRow \notin Row
  BY RowType DEF RegistryType
<1>2. row'[v] = w /\ \A u \in Versions \ {v} : row'[u] = row[u]
  BY <1>1
<1>3. QED
  BY <1>1, <1>2 DEF RowsStay, Exists

\* The row that a lifecycle transition writes.
WrittenRow(r) == [state |-> r.to, card |-> r.to, ramp |-> IF r.to = "canary" THEN r.ramp ELSE 0,
                  baseline |-> r.base]

LEMMA WrittenRowType ==
  ASSUME NEW r \in RequestType, r.to \in States PROVE WrittenRow(r) \in Row
<1>1. r.ramp \in Ramps /\ r.base \in BOOLEAN /\ 0 \in Ramps
  BY RampsType DEF RequestType
<1>2. QED
  BY <1>1 DEF WrittenRow, Row

LEMMA WriteServes ==
  ASSUME RegistryType, NEW c \in Clients, Sound(req[c]), StoreWrite(c)
  PROVE  Served(c) /\ RowsStay /\ row' \in [Versions -> Row \cup {NoRow}]
<1> DEFINE r == req[c]
           at == IF "suspended" \in {r.to, r.from} THEN "flag" ELSE "announce"
<1>1. /\ r \in RequestType /\ r.v \in Versions /\ Exists(r.v)
      /\ r.at = "write" /\ r.op = "state" /\ r.to \in States
      /\ MayDrive(r.scope, Edge(r.from, r.to))
  BY RequestTyped DEF StoreWrite, Sound
<1>2. CASE /\ row' = [row EXCEPT ![r.v] = WrittenRow(r)]
           /\ req' = [req EXCEPT ![c].at = at]
           /\ UNCHANGED reply
  <2>1. RowsStay /\ row'[r.v] # NoRow /\ row' \in [Versions -> Row \cup {NoRow}]
    BY <1>1, <1>2, WrittenRowType, RowWritten
  <2>2. at \in {"flag", "announce"} /\ (at = "flag" => "suspended" \in {r.to, r.from})
    OBVIOUS
  <2> HIDE DEF at
  <2>3. PICK n \in RequestType : n = [r EXCEPT !.at = at]
    BY <1>1, <2>2 DEF RequestType
  <2>4. /\ n.at = at /\ n.op = r.op /\ n.v = r.v /\ n.to = r.to /\ n.from = r.from
        /\ n.scope = r.scope
    BY <1>1, <2>3 DEF RequestType
  <2>5. req' = [req EXCEPT ![c] = n]
    BY <1>2, <2>3 DEF RegistryType
  <2>6. n.op = "state" /\ n.at \in {"flag", "announce"} /\ n.to \in States
        /\ (n.at = "flag" => "suspended" \in {n.to, n.from}) /\ MayDrive(n.scope, Edge(n.from, n.to))
    BY <1>1, <2>2, <2>4
  <2>7. Exists(n.v)'
    BY <2>1, <2>4 DEF Exists
  <2>8. Sound(n)'
    BY <2>6, <2>7 DEF Sound
  <2>9. QED
    BY <1>1, <1>2, <2>1, <2>2, <2>4, <2>5, <2>8, AdvanceServes
<1>3. CASE Answer(c, "refused") /\ UNCHANGED row
  BY <1>1, <1>3, AnswerServes DEF RowsStay, Exists, Replies, RegistryType
<1>4. QED
  BY <1>2, <1>3 DEF StoreWrite, WrittenRow

LEMMA BaselineServes ==
  ASSUME RegistryType, NEW c \in Clients, Sound(req[c]), WriteBaseline(c)
  PROVE  /\ Served(c) /\ RowsStay /\ row' \in [Versions -> Row \cup {NoRow}]
         /\ row'[req[c].v].state = row[req[c].v].state /\ row'[req[c].v].ramp = row[req[c].v].ramp
         /\ \A u \in Versions \ {req[c].v} : row'[u] = row[u]
<1> DEFINE r == req[c]
           w == [row[r.v] EXCEPT !.card = r.to, !.baseline = TRUE]
<1>1. /\ r \in RequestType /\ r.v \in Versions /\ row[r.v] \in Row /\ Exists(r.v)
      /\ r.at = "write" /\ r.op = "baseline" /\ r.to \in States
  BY RequestTyped DEF WriteBaseline, Sound
<1>2. w \in Row /\ w.state = row[r.v].state /\ w.ramp = row[r.v].ramp
  BY <1>1 DEF Row
<1>3. row' = [row EXCEPT ![r.v] = w]
  BY DEF WriteBaseline, RegistryType
<1> HIDE DEF w
<1>4. /\ RowsStay /\ row'[r.v] = w /\ w # NoRow /\ row' \in [Versions -> Row \cup {NoRow}]
      /\ \A u \in Versions \ {r.v} : row'[u] = row[u]
  BY <1>1, <1>2, <1>3, RowWritten
<1>5. PICK n \in RequestType : n = [r EXCEPT !.at = "announce", !.to = "none", !.from = "none", !.base = FALSE]
  BY <1>1 DEF RequestType
<1>6. n.at = "announce" /\ n.op = r.op /\ n.v = r.v /\ n.to = "none"
  BY <1>1, <1>5 DEF RequestType
<1>7. req' = [req EXCEPT ![c] = n]
  BY <1>5 DEF WriteBaseline, RegistryType
<1>8. Sound(n)'
  BY <1>1, <1>4, <1>6 DEF Sound, Exists
<1>9. Served(c)
  BY <1>1, <1>6, <1>7, <1>8, AdvanceServes DEF WriteBaseline
<1>10. QED
  BY <1>2, <1>4, <1>9

LEMMA CommitServes ==
  ASSUME RegistryType, NEW c \in Clients, Sound(req[c]), PromoteCommit(c)
  PROVE  /\ Served(c) /\ RowsStay /\ row' \in [Versions -> Row \cup {NoRow}]
         /\ \/ row' = row
            \/ /\ Rows({"active"}) \subseteq {req[c].other, req[c].v}
               /\ row'[req[c].v].state = "active" /\ row'[req[c].v].ramp = 0
               /\ \A u \in Versions \ {req[c].v} :
                    \/ row'[u] = row[u] /\ u # req[c].other
                    \/ /\ u = req[c].other /\ Exists(u)
                       /\ row'[u].state = "deprecated" /\ row'[u].ramp = row[u].ramp
<1> DEFINE r == req[c]
           old == r.other
           base == RowAt("active", r.base)
           gone == [row[old] EXCEPT !.state = "deprecated", !.card = "deprecated", !.baseline = r.otherBase]
<1>1. /\ r \in RequestType /\ r.v \in Versions /\ Exists(r.v) /\ old \in Versions /\ Exists(old)
      /\ r.at = "commit" /\ r.op = "promote" /\ row[old] \in Row /\ r.base \in BOOLEAN
      /\ r.otherBase \in BOOLEAN
  BY RequestTyped, RowType DEF PromoteCommit, Sound, RequestType
<1>2. /\ base \in Row /\ base.state = "active" /\ base.ramp = 0 /\ NoRow \notin Row
  BY <1>1, RowType DEF States, RowAt
<1>3. gone \in Row /\ gone.state = "deprecated" /\ gone.ramp = row[old].ramp
  BY <1>1 DEF Row, States
<1>4. CASE /\ Rows({"active"}) \subseteq {old, r.v}
           /\ row' = [v \in Versions |->
                CASE v = r.v -> RowAt("active", r.base)
                  [] v = old /\ v # r.v -> [row[v] EXCEPT !.state = "deprecated", !.card = "deprecated",
                                                          !.baseline = r.otherBase]
                  [] OTHER -> row[v]]
           /\ req' = [req EXCEPT ![c].at = "announce", ![c].to = "active"]
           /\ UNCHANGED reply
  <2>1. /\ row'[r.v] = base
        /\ \A u \in Versions \ {r.v} : row'[u] = IF u = old THEN gone ELSE row[u]
        /\ row' = [v \in Versions |-> row'[v]]
    BY <1>1, <1>4
  <2> HIDE DEF base, gone
  <2>2. RowsStay /\ row' \in [Versions -> Row \cup {NoRow}]
    <3>1. row \in [Versions -> Row \cup {NoRow}]
      BY DEF RegistryType
    <3>2. \A u \in Versions : /\ row'[u] \in Row \cup {NoRow}
                              /\ row[u] # NoRow => row'[u] # NoRow
      BY <1>2, <1>3, <2>1, <3>1
    <3>3. QED
      BY <2>1, <3>2 DEF RowsStay, Exists
  <2>3. PICK n \in RequestType : n = [r EXCEPT !.at = "announce", !.to = "active"]
    BY <1>1 DEF RequestType, States
  <2>4. n.at = "announce" /\ n.op = r.op /\ n.v = r.v /\ n.to = "active"
    BY <1>1, <2>3 DEF RequestType
  <2>5. req' = [req EXCEPT ![c] = n]
    BY <1>4, <2>3 DEF RegistryType
  <2>6. Sound(n)'
    BY <1>1, <1>2, <2>1, <2>4 DEF Sound, Exists
  <2>7. Served(c)
    BY <1>1, <1>4, <2>4, <2>5, <2>6, AdvanceServes
  <2>8. QED
    BY <1>1, <1>2, <1>3, <1>4, <2>1, <2>2, <2>7
<1>5. CASE Answer(c, "refused") /\ UNCHANGED row
  BY <1>1, <1>5, AnswerServes DEF RowsStay, Exists, Replies, RegistryType
<1>6. QED
  BY <1>4, <1>5 DEF PromoteCommit

\* A served request is served as the steps above say.
LEMMA RequestServed ==
  ASSUME RegistryType, NEW c \in Clients, Sound(req[c]), Serve(c) \/ Fail(c)
  PROVE  Served(c) /\ RowsStay
BY RegisterServes, RouteServes, ReadServes, PromoteReadServes, DemoteServes,
   CandidateReadServes, WriteServes,
       BaselineServes, CommitServes, FlagServes, EndServes DEF Serve

-----------------------------------------------------------------------------
(* Rows.                                                                   *)

\* No step grows the share of a version, but for a transition to canary.
NoRampGrows == \A v \in Versions : Exists(v) => row'[v].ramp <= row[v].ramp

LEMMA RampNat ==
  ASSUME RegistryType PROVE \A v \in Versions : Exists(v) => row[v].ramp \in Nat
BY RowType, RampsType DEF Row

\* Serving a request keeps one version active and one candidate at most.
LEMMA RowsServed ==
  ASSUME RegistryType, Serving, NEW c \in Clients, Sound(req[c]), Serve(c) \/ Fail(c)
  PROVE  /\ row' \in [Versions -> Row \cup {NoRow}] /\ Serving'
         /\ NoRampGrows \/ (req[c].op = "state" /\ req[c].to = "canary")
<1> DEFINE r == req[c]
<1>1. /\ r \in RequestType /\ r.v \in Versions /\ row \in [Versions -> Row \cup {NoRow}]
  BY RequestTyped
<1>2. CASE row' = row
  <2>1. Serving'
    BY <1>2 DEF Serving, AtMostOne, Rows, Exists
  <2>2. QED
    BY <1>1, <1>2, <2>1, RampNat DEF NoRampGrows
<1>3. CASE Register(c) /\ row' # row
  <2> DEFINE w == RowAt("registered", FALSE)
  <2>1. ~Exists(r.v) /\ row' = [row EXCEPT ![r.v] = w]
    BY <1>3 DEF Register
  <2>2. w \in Row /\ w.state = "registered"
    BY RowType DEF RowAt, States
  <2> HIDE DEF w
  <2>3. /\ row' \in [Versions -> Row \cup {NoRow}]
        /\ row'[r.v] = w /\ \A u \in Versions \ {r.v} : row'[u] = row[u]
    BY <1>1, <2>1, <2>2, RowWritten
  <2>4. \A S \in SUBSET {"active", "shadow", "canary"} : Rows(S)' \subseteq Rows(S)
    BY <2>2, <2>3 DEF Rows, Exists
  <2>5. Serving'
    BY <2>4 DEF Serving, AtMostOne
  <2>6. NoRampGrows
    BY <2>1, <2>3, RampNat DEF NoRampGrows
  <2>7. QED
    BY <2>3, <2>5, <2>6
<1>4. CASE StoreWrite(c) /\ row' # row
  <2> DEFINE w == WrittenRow(r)
  <2>1. IndexAllows(r.v, r.to) /\ row' = [row EXCEPT ![r.v] = w] /\ r.op = "state" /\ r.to \in States
    BY <1>4 DEF StoreWrite, WrittenRow, Sound
  <2>2. w \in Row /\ w.state = r.to /\ w.ramp = (IF r.to = "canary" THEN r.ramp ELSE 0)
    BY <1>1, <2>1, WrittenRowType DEF WrittenRow
  <2> HIDE DEF w
  <2>3. /\ row' \in [Versions -> Row \cup {NoRow}] /\ w # NoRow
        /\ row'[r.v] = w /\ \A u \in Versions \ {r.v} : row'[u] = row[u]
    BY <1>1, <2>1, <2>2, RowWritten
  <2>4. \A S \in SUBSET States : Rows(S)' \subseteq IF r.to \in S THEN Rows(S) \cup {r.v} ELSE Rows(S)
    BY <2>2, <2>3 DEF Rows, Exists
  <2>5. AtMostOne(Rows({"active"})')
    <3>1. Rows({"active"})' \subseteq IF r.to = "active" THEN Rows({"active"}) \cup {r.v} ELSE Rows({"active"})
      BY <2>4 DEF States
    <3>2. r.to = "active" => Rows({"active"}) \subseteq {r.v}
      BY <2>1 DEF IndexAllows
    <3>3. QED
      BY <3>1, <3>2 DEF Serving, AtMostOne
  <2>6. AtMostOne(Rows({"shadow", "canary"})')
    <3> DEFINE S == {"shadow", "canary"}
    <3>1. Rows(S)' \subseteq IF r.to \in S THEN Rows(S) \cup {r.v} ELSE Rows(S)
      BY <2>4 DEF States
    <3>2. r.to \in S => Rows(S) \subseteq {r.v}
      BY <2>1 DEF IndexAllows
    <3>3. QED
      BY <3>1, <3>2 DEF Serving, AtMostOne
  <2>7. r.to # "canary" => NoRampGrows
    BY <2>2, <2>3, RampNat DEF NoRampGrows
  <2>8. QED
    BY <2>1, <2>3, <2>5, <2>6, <2>7 DEF Serving, AtMostOne
<1>5. CASE WriteBaseline(c)
  <2>1. /\ row' \in [Versions -> Row \cup {NoRow}]
        /\ row'[r.v].state = row[r.v].state /\ row'[r.v].ramp = row[r.v].ramp
        /\ \A u \in Versions \ {r.v} : row'[u] = row[u]
    BY <1>5, BaselineServes
  <2>2. Exists(r.v)
    BY <1>5 DEF WriteBaseline, Sound
  <2>3. \A S \in SUBSET States : Rows(S)' \subseteq Rows(S)
    BY <2>1, <2>2 DEF Rows, Exists
  <2>4. Serving'
    BY <2>3 DEF Serving, AtMostOne, States
  <2>5. NoRampGrows
    BY <2>1, RampNat DEF NoRampGrows
  <2>6. QED
    BY <2>1, <2>4, <2>5
<1>6. CASE PromoteCommit(c) /\ row' # row
  <2>1. /\ row' \in [Versions -> Row \cup {NoRow}]
        /\ Rows({"active"}) \subseteq {r.other, r.v}
        /\ row'[r.v].state = "active" /\ row'[r.v].ramp = 0
        /\ \A u \in Versions \ {r.v} :
             \/ row'[u] = row[u] /\ u # r.other
             \/ /\ u = r.other /\ Exists(u)
                /\ row'[u].state = "deprecated" /\ row'[u].ramp = row[u].ramp
    BY <1>6, CommitServes
  <2>2. Rows({"active"})' \subseteq {r.v}
    BY <2>1 DEF Rows, Exists
  <2>3. Rows({"shadow", "canary"})' \subseteq Rows({"shadow", "canary"})
    BY <2>1 DEF Rows, Exists
  <2>4. Serving'
    BY <2>2, <2>3 DEF Serving, AtMostOne
  <2>5. NoRampGrows
    BY <2>1, RampNat DEF NoRampGrows
  <2>6. QED
    BY <2>1, <2>4, <2>5
<1>7. QED
  BY <1>2, <1>3, <1>4, <1>5, <1>6
     DEF Serve, RouteCheck, StoreRead, PromoteRead, DemoteIncumbent, CandidateRead, FlipFlag, Announce, Fail

-----------------------------------------------------------------------------
(* The invariant is inductive.                                             *)

LEMMA TypedRegistry == TypeOK => RegistryType
BY DEF TypeOK, RegistryType, Replies

LEMMA ClientsNamed == Clients = {Ctl, Ops, Pub} /\ Ctl # Ops /\ Ctl # Pub /\ Ops # Pub
BY DeploymentAssumption DEF Ctl, Ops, Pub

LEMMA InitHolds == Init => ReleaseInv
<1> SUFFICES ASSUME Init PROVE ReleaseInv
  OBVIOUS
<1>1. \A b \in BOOLEAN, s \in States : RowAt(s, b) \in Row /\ RowAt(s, b).state = s
  BY RampsType DEF RowAt, Row
<1>2. Idle \in RequestType /\ Idle.at = "none" /\ Idle.op = "none" /\ Idle.to = "none"
  BY RampsType, RegistryAssumption DEF Idle, RequestType
<1>3. req = [c \in Clients |-> Idle] /\ reply = [c \in Clients |-> "none"]
  BY DEF Init, InitRegistry
<1>4. TypeOK
  <2>1. row \in [Versions -> Row \cup {NoRow}]
    BY <1>1 DEF Init, InitRegistry, States
  <2>2. req \in [Clients -> RequestType] /\ reply \in [Clients -> {"none", "ok", "refused", "error"}]
    BY <1>2, <1>3
  <2>3. Len(RampSteps) \in Nat /\ MaxAttempts \in Nat \ {0}
    BY RampsType, DeploymentAssumption
  <2>4. step \in 1..(Len(RampSteps) + 1) /\ rollbacks \in 0..2 /\ attempt \in 0..(MaxAttempts - 1)
    BY <2>3 DEF Init
  <2>5. QED
    BY <2>1, <2>2, <2>4 DEF Init, InitRegistry, TypeOK
<1>5. Serving
  <2>1. \A v \in Versions : Exists(v) => row[v].state \in {"active", "registered"}
    BY <1>1 DEF Init, InitRegistry, Exists, States
  <2>2. \A v \in Versions : Exists(v) /\ row[v].state = "active" => v = First
    <3>1. \A v \in Versions : v # First => row[v] # RowAt("active", TRUE)
      BY DEF Init, InitRegistry
    <3>2. \A v \in Versions : v # First =>
            row[v] \in {RowAt("registered", TRUE), RowAt("registered", FALSE), NoRow}
      BY <3>1 DEF Init, InitRegistry
    <3>3. QED
      BY <1>1, <3>2 DEF Exists, States
  <2>3. QED
    BY <2>1, <2>2 DEF Serving, AtMostOne, Rows
<1>6. Callers
  BY <1>2, <1>3, ClientsNamed DEF Callers
<1>7. Climbing /\ Promoting
  BY <1>3, ClientsNamed DEF Climbing, Promoting, Init, Loop, After
<1>8. \A c \in Clients : Sound(req[c])
  BY <1>2, <1>3 DEF Sound
<1>9. QED
  BY <1>4, <1>5, <1>6, <1>7, <1>8 DEF ReleaseInv

\* A step that leaves the rows and requests alone leaves them sound.
LEMMA SoundStays ==
  ASSUME NEW c \in Clients, Sound(req[c]), RowsStay, RegistryType, req'[c] = req[c]
  PROVE  Sound(req[c])'
<1>1. req[c].v \in Versions /\ req[c].other \in Versions
  BY RequestTyped
<1>2. QED
  BY <1>1 DEF Sound, RowsStay, Exists

LEMMA RegistryKeeps ==
  ASSUME ReleaseInv, NEW c \in Clients, Registry(c) \/ RegistryFails(c) PROVE ReleaseInv'
<1>1. RegistryType /\ Serving /\ Callers /\ Climbing /\ Promoting /\ TypeOK
      /\ \A d \in Clients : Sound(req[d])
  BY TypedRegistry DEF ReleaseInv
<1>2. Serve(c) \/ Fail(c)
  BY DEF Registry, RegistryFails
<1>3. Served(c) /\ RowsStay
  BY <1>1, <1>2, RequestServed
<1>4. row' \in [Versions -> Row \cup {NoRow}] /\ Serving'
  BY <1>1, <1>2, RowsServed
<1>5. UNCHANGED <<dpc, step, rollbacks, incumbent, aborted, attempt, passed, sent>>
  BY DEF Registry, RegistryFails, depVars
<1>6. promoted' = (promoted \/ /\ c = Ctl /\ req[c].op = "promote"
                               /\ req'[c].at = "announce")
      \/ (promoted' = promoted /\ Fail(c))
  BY DEF Registry, RegistryFails, depVars
<1>7. promoted' \in BOOLEAN
  BY <1>1, <1>6 DEF TypeOK
<1>8. flag' \in BOOLEAN
  BY <1>1, <1>2 DEF TypeOK, Serve, Register, RouteCheck, StoreRead, PromoteRead, DemoteIncumbent, CandidateRead,
         StoreWrite, WriteBaseline, PromoteCommit, FlipFlag, Announce, Fail
<1>9. TypeOK'
  BY <1>1, <1>3, <1>4, <1>5, <1>7, <1>8 DEF TypeOK, Served, Replies
<1>10. \A d \in Clients : Sound(req[d])'
  BY <1>1, <1>3, SoundStays DEF Served
<1>11. Callers'
  <2>1. req[Ctl].at # "none" =>
          /\ dpc \in Calls
          /\ req[Ctl].op = IF dpc = "promote" THEN "promote" ELSE "state"
          /\ req[Ctl].to = "canary" => dpc \in {"to_canary", "rollback"}
    BY <1>1 DEF Callers
  <2>2. Idle.op = "none" /\ Idle.to = "none" /\ Idle.at = "none"
    BY DEF Idle
  <2>3. req[c].op = "none" <=> req[c].at = "none"
    BY <1>1 DEF Sound
  <2>4. req'[Ops].op \in {"none", "state"} /\ req'[Ops].to # "canary"
    BY <1>1, <1>3, <2>2, <2>3, ClientsNamed DEF Served, Callers
  <2>5. req'[Pub].op \in {"none", "register", "baseline"}
    BY <1>1, <1>3, <2>2, ClientsNamed DEF Served, Callers
  <2>6. \A d \in Clients : reply'[d] # "none" => d = Ctl
    BY <1>1, <1>3 DEF Served, Callers
  <2>7. reply'[Ctl] # "none" => req'[Ctl].at = "none" /\ dpc' \in Calls
    BY <1>1, <1>3, <1>5, <2>2, ClientsNamed DEF Served, Callers
  <2>8. req'[Ctl].at # "none" =>
          /\ dpc' \in Calls
          /\ req'[Ctl].op = IF dpc' = "promote" THEN "promote" ELSE "state"
          /\ req'[Ctl].to = "canary" => dpc' \in {"to_canary", "rollback"}
    BY <1>3, <1>5, <2>1, <2>2, ClientsNamed DEF Served
  <2>9. QED
    BY <2>4, <2>5, <2>6, <2>7, <2>8 DEF Callers
<1>12. Climbing'
  BY <1>1, <1>5 DEF Climbing
<1>13. Promoting'
  <2>1. promoted' /\ ~promoted => c = Ctl /\ dpc = "promote"
    BY <1>1, <1>3, <1>6 DEF Served, Callers
  <2>2. promoted => promoted'
    BY <1>6
  <2>3. dpc = "promote" /\ reply'[Ctl] = "ok" => promoted'
    <3>1. CASE c # Ctl
      BY <1>1, <1>3, <2>2, <3>1, ClientsNamed DEF Served, Promoting
    <3>2. CASE c = Ctl
      BY <1>1, <1>3, <2>2, <3>2 DEF Served, Promoting, Callers
    <3>3. QED
      BY <3>1, <3>2
  <2>4. dpc = "promote" /\ req'[Ctl].at = "announce" => promoted'
    <3>1. CASE c # Ctl
      BY <1>1, <1>3, <2>2, <3>1, ClientsNamed DEF Served, Promoting
    <3>2. CASE c = Ctl /\ ~Fail(c)
      BY <1>1, <1>3, <1>6, <3>2 DEF Served, Callers
    <3>3. CASE c = Ctl /\ Fail(c)
      <4>1. req'[Ctl] = Idle
        BY <1>1, <3>3 DEF Fail, Answer, RegistryType
      <4>2. QED
        BY <4>1 DEF Idle
    <3>4. QED
      BY <3>1, <3>2, <3>3
  <2>5. QED
    BY <1>1, <1>5, <2>1, <2>2, <2>3, <2>4 DEF Promoting
<1>14. QED
  BY <1>4, <1>9, <1>10, <1>11, <1>12, <1>13 DEF ReleaseInv

\* A request that is sent is sound, and the rows stay.
LEMMA CallKeeps ==
  ASSUME ReleaseInv, NEW c \in Clients, NEW n, n \in RequestType, n.op # "none",
         n.at = "route",
         n.op = "state" => n.to \in States, Call(c, n),
         c = Ops => n.op = "state" /\ n.to # "canary",
         c = Pub => n.op \in {"register", "baseline"},
         c = Ctl => /\ dpc \in Calls
                    /\ n.op = IF dpc = "promote" THEN "promote" ELSE "state"
                    /\ n.to = "canary" => dpc \in {"to_canary", "rollback"},
         UNCHANGED <<dpc, step, rollbacks, incumbent, aborted, attempt, passed, promoted>>,
         sent' \in [{Ops, Pub} -> Nat]
  PROVE  ReleaseInv'
<1>1. RegistryType /\ Serving /\ Callers /\ Climbing /\ Promoting /\ TypeOK
      /\ \A d \in Clients : Sound(req[d])
  BY TypedRegistry DEF ReleaseInv
<1>2. row' = row /\ flag' = flag /\ reply' = reply /\ req' = [req EXCEPT ![c] = n]
      /\ reply[c] = "none" /\ req[c].at = "none"
  BY DEF Call
<1>3. req'[c] = n /\ (\A d \in Clients \ {c} : req'[d] = req[d]) /\ req' \in [Clients -> RequestType]
  BY <1>1, <1>2 DEF RegistryType
<1>4. TypeOK'
  BY <1>1, <1>2, <1>3 DEF TypeOK
<1>5. Serving'
  BY <1>1, <1>2 DEF Serving, AtMostOne, Rows, Exists
<1>6. \A d \in Clients : Sound(req[d])'
  <2>1. RowsStay
    BY <1>2 DEF RowsStay, Exists
  <2>2. \A d \in Clients \ {c} : Sound(req[d])'
    BY <1>1, <1>3, <2>1, SoundStays
  <2>3. Sound(req[c])'
    BY <1>3 DEF Sound
  <2>4. QED
    BY <2>2, <2>3
<1>7. Callers'
  BY <1>1, <1>2, <1>3, ClientsNamed DEF Callers
<1>8. Climbing'
  BY <1>1 DEF Climbing
<1>9. Promoting'
  BY <1>1, <1>2, <1>3, ClientsNamed DEF Promoting
<1>10. QED
  BY <1>4, <1>5, <1>6, <1>7, <1>8, <1>9 DEF ReleaseInv

LEMMA RequestFields ==
  ASSUME NEW op \in {"register", "state", "promote", "baseline"}, NEW v \in Versions,
         NEW to \in States \cup {"none"}, NEW ramp \in Ramps,
         NEW scope \in {"deploy", "admin", "suspend", "write"}
  PROVE  LET r == Request(op, v, to, ramp, scope) IN
         r \in RequestType /\ r.op = op /\ r.v = v /\ r.to = to /\ r.at = "route"
<1>1. PICK idle : idle = Idle
  OBVIOUS
<1>2. idle \in RequestType
  BY <1>1, RampsType, RegistryAssumption DEF Idle, RequestType
<1>3. PICK r : r = [idle EXCEPT !.op = op, !.v = v, !.to = to, !.ramp = ramp, !.scope = scope,
                                !.at = "route"]
  OBVIOUS
<1>4. r \in RequestType /\ r.op = op /\ r.v = v /\ r.to = to /\ r.at = "route"
  BY <1>2, <1>3 DEF RequestType
<1>5. Request(op, v, to, ramp, scope) = r
  BY <1>1, <1>3 DEF Request
<1>6. QED
  BY <1>4, <1>5

LEMMA CallerKeeps ==
  ASSUME ReleaseInv, CallRegistry \/ OperatorCall \/ PublisherCall PROVE ReleaseInv'
<1>1. TypeOK /\ Climbing /\ Promoting
  BY DEF ReleaseInv
<1>2. Candidate \in Versions /\ 0 \in Ramps
  BY RampsType, DeploymentAssumption
<1>3. CASE CallRegistry
  <2> DEFINE n == CallOf(dpc)
  <2>1. dpc \in Calls /\ Call(Ctl, n) /\ UNCHANGED depVars
    BY <1>3 DEF CallRegistry
  <2>2. step \in 1..(Len(RampSteps) + 1) /\ Len(RampSteps) \in Nat
    BY <1>1, RampsType DEF TypeOK
  <2>3. dpc \in {"to_canary", "rollback"} => step \in 1..Len(RampSteps)
    BY <1>1, <2>2 DEF Climbing
  <2>4. dpc = "rollback" => step - 1 \in 1..Len(RampSteps)
    BY <1>1, <2>2, <2>3 DEF Climbing
  <2>5. \E op, v, to, ramp : 
          /\ n = Request(op, v, to, ramp, "deploy")
          /\ op = (IF dpc = "promote" THEN "promote" ELSE "state")
          /\ v \in Versions /\ ramp \in Ramps
          /\ to \in States \cup {"none"} /\ (op = "state" => to \in States)
          /\ to = "canary" => dpc \in {"to_canary", "rollback"}
    <3>1. CASE dpc = "to_canary"
      BY <1>2, <2>3, <3>1, RampsType DEF CallOf, States
    <3>2. CASE dpc = "rollback"
      BY <1>2, <2>4, <3>2, RampsType DEF CallOf, States
    <3>3. CASE dpc \in {"to_shadow", "demote"}
      BY <1>2, <3>3 DEF CallOf, States
    <3>4. CASE dpc = "promote"
      BY <1>2, <3>4 DEF CallOf, States
    <3>5. CASE dpc = "retire"
      <4>1. incumbent \in Versions
        BY <1>1, <3>5 DEF TypeOK, Promoting
      <4>2. n = Request("state", incumbent, "retired", 0, "deploy")
        BY <3>5 DEF CallOf
      <4> HIDE DEF n
      <4>3. QED
        BY <1>2, <3>5, <4>1, <4>2 DEF States
    <3>6. QED
      BY <2>1, <3>1, <3>2, <3>3, <3>4, <3>5 DEF Calls
  <2> HIDE DEF n
  <2>6. /\ n \in RequestType /\ n.op = (IF dpc = "promote" THEN "promote" ELSE "state")
        /\ n.at = "route" /\ (n.op = "state" => n.to \in States)
        /\ n.to = "canary" => dpc \in {"to_canary", "rollback"}
    BY <2>5, RequestFields
  <2>7. PICK m : m = n
    OBVIOUS
  <2>8. sent' \in [{Ops, Pub} -> Nat]
    BY <1>1, <2>1 DEF depVars, TypeOK
  <2>9. QED
    BY <2>1, <2>6, <2>7, <2>8, CallKeeps, ClientsNamed DEF depVars
<1>4. CASE OperatorCall
  <2>1. PICK v \in Versions, to \in {"active", "shadow", "suspended", "retired"},
             scope \in {"admin", "suspend"} : Call(Ops, Request("state", v, to, 0, scope))
    BY <1>4 DEF OperatorCall
  <2>2. PICK n : n = Request("state", v, to, 0, scope)
    OBVIOUS
  <2>3. n \in RequestType /\ n.op = "state" /\ n.to = to /\ n.at = "route" /\ to \in States
    BY <1>2, <2>2, RequestFields DEF States
  <2>4. sent' \in [{Ops, Pub} -> Nat]
    BY <1>1, <1>4 DEF OperatorCall, TypeOK
  <2>5. QED
    BY <1>4, <2>1, <2>2, <2>3, <2>4, CallKeeps, ClientsNamed DEF OperatorCall
<1>5. CASE PublisherCall
  <2>1. PICK op \in {"register", "baseline"} : Call(Pub, Request(op, Candidate, "none", 0, "write"))
    BY <1>5 DEF PublisherCall
  <2>2. PICK n : n = Request(op, Candidate, "none", 0, "write")
    OBVIOUS
  <2>3. n \in RequestType /\ n.op = op /\ n.at = "route"
    BY <1>2, <2>2, RequestFields
  <2>4. sent' \in [{Ops, Pub} -> Nat]
    BY <1>1, <1>5 DEF PublisherCall, TypeOK
  <2>5. QED
    BY <1>5, <2>1, <2>2, <2>3, <2>4, CallKeeps, ClientsNamed DEF PublisherCall
<1>6. QED
  BY <1>3, <1>4, <1>5

\* What the workflow keeps when it leaves the registry alone.
LEMMA QuietKeeps ==
  ASSUME ReleaseInv, UNCHANGED <<row, flag, req, sent>>, reply' \in [Clients -> Replies],
         step' \in 1..(Len(RampSteps) + 1), rollbacks' \in 0..2,
         incumbent' \in Versions \cup {None}, aborted' \in BOOLEAN,
         attempt' \in 0..(MaxAttempts - 1), passed' \subseteq 0..Len(RampSteps),
         dpc' \in Calls \cup Ended \cup {"start", "preflight", "shadow_soak",
           "shadow_again", "ramp", "soak", "approval", "refreeze", "drain"},
         promoted' = promoted
  PROVE  TypeOK' /\ Serving' /\ \A c \in Clients : Sound(req[c])'
<1>1. RegistryType /\ TypeOK /\ Serving /\ \A c \in Clients : Sound(req[c])
  BY TypedRegistry DEF ReleaseInv
<1>2. TypeOK'
  BY <1>1 DEF TypeOK, Replies
<1>3. Serving'
  BY <1>1 DEF Serving, AtMostOne, Rows, Exists
<1>4. \A c \in Clients : Sound(req[c])'
  BY <1>1, SoundStays DEF RowsStay, Exists
<1>5. QED
  BY <1>2, <1>3, <1>4

Quiet == {"start", "preflight", "shadow_soak", "shadow_again", "ramp", "soak",
          "approval", "refreeze", "drain"}

\* The workflow leaves a place where it waits for no call: the invariant's
\* last parts are all that depends on where it goes.
LEMMA StepKeeps ==
  ASSUME ReleaseInv, dpc \in Quiet, UNCHANGED <<regVars, aborted, promoted, sent>>,
         attempt' = 0,
         dpc' \in Calls \cup Ended \cup Quiet,
         step' \in 1..(Len(RampSteps) + 1), rollbacks' \in 0..2,
         incumbent' \in Versions \cup {None}, passed' \subseteq 0..Len(RampSteps),
         Climbing',
         promoted => dpc' \in {"retire", "completed", "threw"},
         dpc' \in {"drain", "retire", "completed"} => promoted,
         dpc' = "retire" => incumbent' # None
  PROVE  ReleaseInv'
<1>1. TypeOK /\ Callers /\ Promoting
  BY DEF ReleaseInv
<1>2. dpc \notin Calls
  BY DEF Calls, Quiet
<1>3. 0 \in 0..(MaxAttempts - 1)
  BY DeploymentAssumption
<1>4. TypeOK' /\ Serving' /\ \A c \in Clients : Sound(req[c])'
  BY <1>1, <1>3, QuietKeeps DEF regVars, TypeOK, Replies, Quiet
<1>5. req[Ctl].at = "none" /\ reply[Ctl] = "none"
  BY <1>1, <1>2 DEF Callers
<1>6. Callers'
  BY <1>1, <1>5 DEF Callers, regVars
<1>7. Promoting'
  BY <1>5 DEF Promoting, regVars
<1>8. QED
  BY <1>4, <1>6, <1>7 DEF ReleaseInv

LEMMA WorkflowKeeps ==
  ASSUME ReleaseInv,
         \/ CheckFreeze \/ BeginDeployment \/ ShadowGate \/ Ramp \/ CanaryGate
         \/ AwaitApproval \/ RecheckFreeze \/ Drain
  PROVE  ReleaseInv'
<1>1. TypeOK /\ Climbing /\ Promoting
  BY DEF ReleaseInv
<1>2. /\ step \in 1..(Len(RampSteps) + 1) /\ rollbacks \in 0..2 /\ Len(RampSteps) \in Nat
      /\ incumbent \in Versions \cup {None} /\ passed \subseteq 0..Len(RampSteps)
  BY <1>1, RampsType DEF TypeOK
<1> USE DEF Goto, EmitThen, Calls, Ended, Quiet
<1>3. CASE CheckFreeze
  <2>1. /\ dpc = "start" /\ dpc' \in {"preflight", "failed", "threw"} /\ attempt' = 0
        /\ UNCHANGED <<regVars, step, rollbacks, incumbent, aborted, passed, promoted, sent>>
    BY <1>3 DEF CheckFreeze
  <2>2. Climbing' /\ ~promoted
    BY <1>1, <2>1 DEF Climbing, Promoting, Before, Loop, After
  <2>3. QED
    BY <1>2, <2>1, <2>2, StepKeeps
<1>4. CASE BeginDeployment
  <2>1. /\ dpc = "preflight" /\ dpc' \in {"to_shadow", "threw"} /\ attempt' = 0
        /\ UNCHANGED <<regVars, step, rollbacks, aborted, passed, promoted, sent>>
    BY <1>4 DEF BeginDeployment
  <2>2. incumbent' \in Versions \cup {None}
    <3>1. \A v \in Rows({"active"}) : v \in Versions
      BY DEF Rows
    <3>2. incumbent' \in Rows({"active"}) \cup {None, incumbent}
      BY <1>4 DEF BeginDeployment
    <3>3. QED
      BY <1>2, <3>1, <3>2
  <2>3. Climbing' /\ ~promoted
    BY <1>1, <2>1 DEF Climbing, Promoting, Before, Loop, After
  <2>4. QED
    BY <1>2, <2>1, <2>2, <2>3, StepKeeps
<1>5. CASE ShadowGate
  <2>1. /\ dpc \in {"shadow_soak", "shadow_again"} /\ attempt' = 0
        /\ UNCHANGED <<regVars, step, rollbacks, incumbent, aborted, promoted, sent>>
    BY <1>5 DEF ShadowGate
  <2>2. /\ dpc' \in {"shadow_again", "ramp", "failed", "threw"}
        /\ passed' \subseteq 0..Len(RampSteps) /\ (dpc' = "ramp" => 0 \in passed')
    <3>1. CASE Goto("threw") /\ UNCHANGED passed
      BY <1>2, <3>1
    <3>2. CASE \E v \in ShadowVerdicts :
                 /\ passed' = Judged(0, v)
                 /\ \/ v = "insufficient_data" /\ dpc = "shadow_soak" /\ Goto("shadow_again")
                    \/ v = "pass" /\ Goto("ramp")
                    \/ /\ v # "pass" /\ ~(v = "insufficient_data" /\ dpc = "shadow_soak")
                       /\ EmitThen("failed")
      <4>1. PICK v \in ShadowVerdicts :
                 /\ passed' = Judged(0, v)
                 /\ \/ v = "insufficient_data" /\ dpc = "shadow_soak" /\ Goto("shadow_again")
                    \/ v = "pass" /\ Goto("ramp")
                    \/ /\ v # "pass" /\ ~(v = "insufficient_data" /\ dpc = "shadow_soak")
                       /\ EmitThen("failed")
        BY <3>2
      <4>2. 0 \in 0..Len(RampSteps)
        BY <1>2
      <4>3. passed' \subseteq 0..Len(RampSteps) /\ (v = "pass" => 0 \in passed')
        BY <1>2, <4>1, <4>2 DEF Judged
      <4>4. QED
        BY <4>1, <4>3
    <3>3. QED
      BY <1>5, <3>1, <3>2 DEF ShadowGate
  <2>3. step = 1 /\ rollbacks <= 1 /\ ~promoted
    BY <1>1, <2>1 DEF Climbing, Promoting, Before
  <2>4. Climbing'
    <3>1. 0..(step - 1) = {0}
      BY <2>3
    <3>2. QED
      BY <2>1, <2>2, <2>3, <3>1 DEF Climbing, Before, Loop, After
  <2>5. QED
    BY <1>2, <2>1, <2>2, <2>3, <2>4, StepKeeps
<1>6. CASE Ramp
  <2>1. /\ dpc = "ramp" /\ attempt' = 0
        /\ dpc' = (IF step > Len(RampSteps) THEN "approval"
                  ELSE IF aborted THEN "demote" ELSE "to_canary")
        /\ UNCHANGED <<regVars, step, rollbacks, incumbent, aborted, passed, promoted, sent>>
    BY <1>6 DEF Ramp
  <2>2. 0..(step - 1) \subseteq passed /\ rollbacks <= 1 /\ ~promoted
    BY <1>1, <2>1 DEF Climbing, Promoting, Loop
  <2>3. step > Len(RampSteps) => passed = 0..Len(RampSteps)
    <3>1. step > Len(RampSteps) => step - 1 = Len(RampSteps)
      BY <1>2
    <3>2. QED
      BY <1>2, <2>2, <3>1
  <2>4. ~(step > Len(RampSteps)) => step <= Len(RampSteps)
    BY <1>2
  <2>5. Climbing'
    BY <2>1, <2>2, <2>3, <2>4 DEF Climbing, Before, Loop, After
  <2>6. QED
    BY <1>2, <2>1, <2>2, <2>5, StepKeeps
<1>7. CASE CanaryGate
  <2>1. /\ dpc = "soak" /\ UNCHANGED <<regVars, incumbent, aborted, promoted, sent>>
    BY <1>7 DEF CanaryGate
  <2>2. step <= Len(RampSteps) /\ 0..(step - 1) \subseteq passed /\ rollbacks <= 1 /\ ~promoted
    BY <1>1, <2>1 DEF Climbing, Promoting, Loop
  <2>3. CASE dpc' \in {"demote", "threw"} /\ attempt' = 0 /\ UNCHANGED <<step, rollbacks, passed>>
    <3>1. Climbing'
      BY <2>3 DEF Climbing, Before, Loop, After
    <3>2. QED
      BY <1>2, <2>1, <2>2, <2>3, <3>1, StepKeeps
  <2>4. ASSUME NEW v \in CanaryVerdicts, passed' = Judged(step, v),
               \/ v = "pass" /\ rollbacks' = 0 /\ step' = step + 1 /\ Goto("ramp")
               \/ /\ v # "pass" /\ rollbacks' = rollbacks + 1
                  /\ Goto(IF step = 1 \/ rollbacks' >= 2 THEN "demote" ELSE "rollback")
                  /\ UNCHANGED step
        PROVE  ReleaseInv'
    <3>1. /\ step \in 0..Len(RampSteps) /\ step \in Nat /\ step >= 1
          /\ step \notin 0..(step - 1)
      BY <1>2, <2>2
    <3>2. passed' \subseteq 0..Len(RampSteps) /\ 0..(step - 1) \subseteq passed'
          /\ (v = "pass" => step \in passed')
      BY <1>2, <2>2, <2>4, <3>1 DEF Judged
    <3>3. CASE v = "pass" /\ rollbacks' = 0 /\ step' = step + 1 /\ Goto("ramp")
      <4>1. \A i \in 0..(step' - 1) : i \in 0..(step - 1) \/ i = step
        BY <3>1, <3>3
      <4>2. 0..(step' - 1) \subseteq passed'
        BY <3>2, <3>3, <4>1
      <4>3. Climbing'
        BY <3>3, <4>2 DEF Climbing, Before, Loop, After
      <4>4. step' \in 1..(Len(RampSteps) + 1) /\ rollbacks' \in 0..2
        BY <1>2, <2>2, <3>1, <3>3
      <4>5. QED
        BY <1>2, <2>1, <2>2, <3>2, <3>3, <4>3, <4>4, StepKeeps
    <3>4. CASE /\ v # "pass" /\ rollbacks' = rollbacks + 1
               /\ Goto(IF step = 1 \/ rollbacks' >= 2 THEN "demote" ELSE "rollback")
               /\ UNCHANGED step
      <4>1. dpc' \in {"demote", "rollback"} /\ attempt' = 0 /\ rollbacks' \in 0..2
        BY <1>2, <2>2, <3>4
      <4>2. dpc' = "rollback" => step > 1 /\ rollbacks' <= 1
        BY <1>2, <3>1, <3>4, <4>1
      <4>3. Climbing'
        BY <2>2, <3>2, <3>4, <4>1, <4>2 DEF Climbing, Before, Loop, After
      <4>4. QED
        BY <1>2, <2>1, <2>2, <3>2, <3>4, <4>1, <4>3, StepKeeps
    <3>5. QED
      BY <2>4, <3>3, <3>4
  <2>5. QED
    BY <1>7, <2>3, <2>4 DEF CanaryGate
<1>8. CASE AwaitApproval \/ RecheckFreeze
  <2>1. /\ dpc \in {"approval", "refreeze"} /\ attempt' = 0
        /\ dpc' \in {"refreeze", "promote", "demote", "threw"}
        /\ UNCHANGED <<regVars, step, rollbacks, incumbent, aborted, passed, promoted, sent>>
    BY <1>8 DEF AwaitApproval, RecheckFreeze
  <2>2. Climbing' /\ ~promoted
    BY <1>1, <2>1 DEF Climbing, Promoting, Before, Loop, After
  <2>3. QED
    BY <1>2, <2>1, <2>2, StepKeeps
<1>9. CASE Drain
  <2>1. /\ dpc = "drain" /\ attempt' = 0 /\ dpc' \in {"retire", "completed", "threw"}
        /\ dpc' = "retire" => incumbent # None
        /\ UNCHANGED <<regVars, step, rollbacks, incumbent, aborted, passed, promoted, sent>>
    BY <1>9 DEF Drain
  <2>2. Climbing' /\ promoted
    BY <1>1, <2>1 DEF Climbing, Promoting, Before, Loop, After
  <2>3. QED
    BY <1>2, <2>1, <2>2, StepKeeps
<1>10. QED
  BY <1>3, <1>4, <1>5, <1>6, <1>7, <1>8, <1>9

LEMMA AttemptKeeps ==
  ASSUME ReleaseInv, AttemptFails \/ AttemptSucceeds PROVE ReleaseInv'
<1>1. TypeOK /\ Callers /\ Climbing /\ Promoting
  BY DEF ReleaseInv
<1>2. /\ step \in 1..(Len(RampSteps) + 1) /\ rollbacks \in 0..2 /\ Len(RampSteps) \in Nat
      /\ attempt \in 0..(MaxAttempts - 1) /\ MaxAttempts \in Nat \ {0}
  BY <1>1, RampsType, DeploymentAssumption DEF TypeOK
<1>3. /\ dpc \in Calls /\ reply[Ctl] # "none"
      /\ reply' = [reply EXCEPT ![Ctl] = "none"]
      /\ UNCHANGED <<row, flag, req, rollbacks, incumbent, aborted, passed, promoted, sent>>
  BY DEF AttemptFails, AttemptSucceeds
<1>4. reply' \in [Clients -> Replies] /\ reply'[Ctl] = "none" /\ req[Ctl].at = "none"
      /\ \A c \in Clients : reply'[c] # "none" => c = Ctl
  BY <1>1, <1>3, ClientsNamed DEF TypeOK, Replies, Callers
<1>5. Callers'
  BY <1>1, <1>3, <1>4 DEF Callers
<1> USE DEF Goto, EmitThen
<1>6. CASE AttemptFails
  <2>1. dpc' \in {dpc, "threw"} /\ attempt' \in 0..(MaxAttempts - 1) /\ step' = step
    BY <1>2, <1>6 DEF AttemptFails
  <2>2. Climbing'
    BY <1>1, <1>3, <2>1 DEF Climbing, Before, Loop, After
  <2>3. Promoting'
    BY <1>1, <1>3, <1>4, <2>1 DEF Promoting
  <2>4. QED
    BY <1>1, <1>3, <1>4, <1>5, <2>1, <2>2, <2>3, QuietKeeps DEF ReleaseInv, TypeOK,
           Calls, Ended
<1>7. CASE AttemptSucceeds
  <2>1. /\ attempt' = 0 /\ step' = (IF dpc = "rollback" THEN step - 1 ELSE step)
        /\ reply[Ctl] = "ok"
        /\ \/ dpc = "to_shadow" /\ dpc' = "shadow_soak"
           \/ dpc = "to_canary" /\ dpc' = "soak"
           \/ dpc = "rollback" /\ dpc' = "ramp"
           \/ dpc = "demote" /\ dpc' = "demoted"
           \/ dpc = "promote" /\ dpc' = "drain"
           \/ dpc = "retire" /\ dpc' = "completed"
           \/ dpc' = "threw"
    BY <1>7 DEF AttemptSucceeds, NextStep, Calls
  <2>2. step' \in 1..(Len(RampSteps) + 1) /\ 0..(step' - 1) \subseteq 0..(step - 1)
    BY <1>1, <1>2, <2>1 DEF Climbing
  <2>3. Climbing'
    BY <1>1, <1>3, <2>1, <2>2 DEF Climbing, Before, Loop, After
  <2>4. Promoting'
    BY <1>1, <1>3, <1>4, <2>1 DEF Promoting
  <2>5. dpc' \in Calls \cup Ended \cup {"start", "preflight", "shadow_soak",
           "shadow_again", "ramp", "soak", "approval", "refreeze", "drain"}
    BY <2>1 DEF Ended
  <2>6. attempt' \in 0..(MaxAttempts - 1)
    BY <1>2, <2>1
  <2>7. QED
    BY <1>1, <1>3, <1>4, <1>5, <2>2, <2>3, <2>4, <2>5, <2>6, QuietKeeps
       DEF ReleaseInv, TypeOK
<1>8. QED
  BY <1>6, <1>7

LEMMA AbortKeeps ==
  ASSUME ReleaseInv, AbortSignal \/ UNCHANGED vars PROVE ReleaseInv'
<1>1. TypeOK /\ Callers /\ Climbing /\ Promoting
  BY DEF ReleaseInv
<1>2. /\ UNCHANGED <<regVars, dpc, step, rollbacks, incumbent, attempt, passed, promoted, sent>>
      /\ aborted' \in BOOLEAN
  BY <1>1 DEF AbortSignal, vars, depVars, TypeOK
<1>3. Callers' /\ Climbing' /\ Promoting'
  BY <1>1, <1>2 DEF Callers, Climbing, Promoting, regVars
<1>4. QED
  BY <1>1, <1>2, <1>3, QuietKeeps DEF ReleaseInv, TypeOK, regVars, Replies

LEMMA NextKeeps == ReleaseInv /\ [Next]_vars => ReleaseInv'
<1> SUFFICES ASSUME ReleaseInv, [Next]_vars PROVE ReleaseInv'
  OBVIOUS
<1>1. CASE \E c \in Clients : Registry(c) \/ RegistryFails(c)
  BY <1>1, RegistryKeeps
<1>2. QED
  BY <1>1, CallerKeeps, WorkflowKeeps, AttemptKeeps, AbortKeeps DEF Next, Workflow

\* At all times, whoever calls the registry meanwhile: one version is active
\* and one is a candidate at most, requests past their route were permitted,
\* and the workflow is where its gates and its promotion have put it.
THEOREM ReleaseInvariant == Spec => []ReleaseInv
<1>1. QED
  BY InitHolds, NextKeeps, PTL DEF Spec

-----------------------------------------------------------------------------
(* The properties.                                                         *)

LEMMA FewOf ==
  ASSUME NEW S, AtMostOne(S) PROVE Cardinality(S) <= 1
<1>1. CASE S = {}
  BY <1>1, FS_EmptySet
<1>2. CASE S # {}
  <2>1. PICK x \in S : TRUE
    BY <1>2
  <2>2. S = {x}
    BY <2>1 DEF AtMostOne
  <2>3. Cardinality(S) = 1
    BY <2>2, FS_Singleton
  <2>4. QED
    BY <2>3
<1>3. QED
  BY <1>1, <1>2

LEMMA InvariantSuffices == ReleaseInv => ReleaseIsSound
<1> SUFFICES ASSUME ReleaseInv PROVE ReleaseIsSound
  OBVIOUS
<1>1. TypeOK /\ Serving /\ Promoting
  BY DEF ReleaseInv
<1>2. OneServing
  BY <1>1, FewOf DEF OneServing, Serving
<1>3. ReportIsHonest
  BY <1>1 DEF ReportIsHonest, Promoting
<1>4. UndoIsUnambiguous /\ GateIsMonotone
  BY ManifestsHold, GatesHold DEF UndoIsUnambiguous, GateIsMonotone
<1>5. QED
  BY <1>1, <1>2, <1>3, <1>4 DEF ReleaseIsSound

\* A registry shared by deployments, publishers and operators keeps one version
\* serving, a report of a deployment says what it did, gates are monotonic and
\* accepted manifests can be undone.
THEOREM ReleaseSound == Spec => []ReleaseIsSound
<1>1. QED
  BY ReleaseInvariant, InvariantSuffices, PTL

\* Only a served promotion of the controller marks the deployment promoted.
LEMMA PromotionStep ==
  ASSUME ReleaseInv, [Next]_vars, promoted', ~promoted PROVE passed = 0..Len(RampSteps)
<1>1. PICK c \in Clients : Registry(c)
  BY DEF Next, Workflow, CallRegistry, AttemptFails, AttemptSucceeds, CheckFreeze,
         BeginDeployment, ShadowGate, Ramp, CanaryGate, AwaitApproval,
         RecheckFreeze, Drain, AbortSignal, OperatorCall, PublisherCall,
         RegistryFails, vars, depVars
<1>2. /\ RegistryType /\ Callers /\ Climbing /\ Sound(req[c]) /\ Serve(c)
  BY <1>1, TypedRegistry DEF ReleaseInv, Registry
<1>3. c = Ctl /\ req[c].op = "promote" /\ req[c].at # "none"
  BY <1>1, <1>2, RequestServed DEF Registry, Served
<1>4. dpc = "promote"
  BY <1>2, <1>3 DEF Callers
<1>5. QED
  BY <1>2, <1>4 DEF Climbing, After

\* Once an abort has arrived, no step of the system climbs.
LEMMA AbortStep ==
  ASSUME ReleaseInv, [Next]_vars, aborted, dpc \notin {"to_canary", "rollback"},
         Exists(Candidate)
  PROVE  dpc' # "to_canary" /\ row'[Candidate].ramp <= row[Candidate].ramp
<1>1. /\ RegistryType /\ Callers /\ Serving /\ \A c \in Clients : Sound(req[c])
  BY TypedRegistry DEF ReleaseInv
<1>2. dpc' # "to_canary"
  <2>1. CASE Ramp
    BY <2>1 DEF Ramp, Goto
  <2>2. CASE AttemptFails
    BY <2>2 DEF AttemptFails, Goto
  <2>3. CASE AttemptSucceeds
    BY <2>3 DEF AttemptSucceeds, Goto, EmitThen, Calls
  <2>4. CASE ShadowGate
    BY <2>4 DEF ShadowGate, Goto, EmitThen
  <2>5. CASE CanaryGate
    BY <2>5 DEF CanaryGate, Goto
  <2>6. CASE CheckFreeze \/ BeginDeployment \/ AwaitApproval \/ RecheckFreeze \/ Drain
    BY <2>6 DEF CheckFreeze, BeginDeployment, AwaitApproval, RecheckFreeze, Drain,
           Goto, EmitThen
  <2>7. CASE UNCHANGED dpc
    BY <2>7
  <2>8. QED
    BY <2>1, <2>2, <2>3, <2>4, <2>5, <2>6, <2>7 DEF Next, Workflow, CallRegistry,
           AbortSignal, OperatorCall, PublisherCall, Registry, RegistryFails, vars,
           depVars
<1>3. CASE row' = row
  BY <1>1, <1>2, <1>3, RampNat, DeploymentAssumption
<1>4. CASE \E c \in Clients : Serve(c) \/ Fail(c)
  <2>1. PICK c \in Clients : Serve(c) \/ Fail(c)
    BY <1>4
  <2>2. ~(req[c].op = "state" /\ req[c].to = "canary")
    BY <1>1, ClientsNamed DEF Callers, Sound
  <2>3. NoRampGrows
    BY <1>1, <2>1, <2>2, RowsServed
  <2>4. QED
    BY <1>2, <2>3, DeploymentAssumption DEF NoRampGrows
<1>5. QED
  BY <1>3, <1>4 DEF Next, Workflow, CallRegistry, AttemptFails, AttemptSucceeds,
         CheckFreeze, BeginDeployment, ShadowGate, Ramp, CanaryGate, AwaitApproval,
         RecheckFreeze, Drain, AbortSignal, OperatorCall, PublisherCall, Registry,
         RegistryFails, Call, vars, regVars

\* A promotion takes effect only when the shadow gate and the latest gate of
\* every ramp step passed, and an abort ends the climbing.
THEOREM RampEarned == Spec => RampIsEarned
<1>1. ReleaseInv /\ [Next]_vars => (promoted' /\ ~promoted => passed = 0..Len(RampSteps))
  BY PromotionStep
<1>2. ReleaseInv /\ [Next]_vars =>
        (aborted /\ dpc \notin {"to_canary", "rollback"} /\ Exists(Candidate)
           => dpc' # "to_canary" /\ row'[Candidate].ramp <= row[Candidate].ramp)
  BY AbortStep
<1>3. QED
  BY <1>1, <1>2, ReleaseInvariant, PTL DEF Spec, RampIsEarned, PromotionEarned,
         AbortStopsRamp

LEMMA FlagStep ==
  ASSUME ReleaseInv, [Next]_vars, flag, ~flag'
  PROVE  \E c \in Clients : req[c].from = "suspended" /\ req[c].scope = "admin" /\ req'[c] # req[c]
<1>1. PICK c \in Clients : FlipFlag(c)
  BY DEF Next, Workflow, CallRegistry, AttemptFails, AttemptSucceeds, CheckFreeze,
         BeginDeployment, ShadowGate, Ramp, CanaryGate, AwaitApproval,
         RecheckFreeze, Drain, AbortSignal, OperatorCall, PublisherCall, Registry,
         RegistryFails, Call, vars, regVars, depVars, Serve, Register, RouteCheck,
         StoreRead, PromoteRead, DemoteIncumbent, CandidateRead, StoreWrite, WriteBaseline, PromoteCommit, Announce,
         Fail
<1>2. Sound(req[c]) /\ req[c] \in RequestType /\ req \in [Clients -> RequestType]
  BY DEF ReleaseInv, TypeOK
<1>3. /\ req[c].at = "flag" /\ req[c].to # "suspended"
      /\ req' = [req EXCEPT ![c].at = "announce", ![c].from = "none", ![c].base = FALSE]
  BY <1>1 DEF FlipFlag
<1>4. req[c].from = "suspended" /\ MayDrive(req[c].scope, Edge("suspended", req[c].to))
  BY <1>2, <1>3 DEF Sound
<1>5. req[c].scope = "admin"
  BY <1>4 DEF MayDrive, Edge
<1>6. req'[c].at = "announce"
  BY <1>2, <1>3 DEF RequestType
<1>7. QED
  BY <1>3, <1>4, <1>5, <1>6

\* Whatever requests and failures come in between, the kill-switch flag is
\* lowered only by an administrator who reinstates a suspended version.
THEOREM AdminLowersFlag == Spec => OnlyAdminLowersFlag
<1>1. ReleaseInv /\ [Next]_vars =>
        (flag /\ ~flag' => \E c \in Clients : /\ req[c].from = "suspended"
                                             /\ req[c].scope = "admin"
                                             /\ req'[c] # req[c])
  BY FlagStep
<1>2. QED
  BY <1>1, ReleaseInvariant, PTL DEF Spec, OnlyAdminLowersFlag

-----------------------------------------------------------------------------
(* Online evaluation.                                                      *)

Observations == [score : 0..Null, failed : BOOLEAN]
ScoreRow == [id : Jobs, obs : Observations]
Actions == {"abort_deployment", "suspend"}

\* The records and their fields.
Typed ==
  /\ job \in [Jobs -> [at : {"todo", "post", "wait", "done"}, attempt : 1..4, obs : Observations]]
  /\ \A j \in Jobs : job[j].at # "done" => job[j].attempt <= Attempts(j)
  /\ pass \in [Jobs -> [at : {"none", "read", "observe", "act", "done", "dead"}, prior : Rungs,
                        fails : Nat, level : Rungs, due : Seq(Actions)]]
  /\ qstate \in [Tenants -> [level : Rungs, fails : Nat]]
  /\ rows \in Seq(ScoreRow) /\ cut \in 0..Len(rows)
  /\ suspended \in BOOLEAN

\* An observation is stored once, with the pass it starts.
StoredOnce ==
  /\ \A i, k \in DOMAIN rows : rows[i].id = rows[k].id => i = k
  /\ \A j \in Jobs : Stored(j) <=> pass[j].at # "none"

\* A failed probe is in a streak at most once: after its own pass has observed.
Seen(t) == {i \in FailedProbes(t) : pass[rows[i].id].at \notin {"read", "observe"}}
FailsBacked ==
  /\ \A t \in Tenants : qstate[t].fails <= Cardinality(Seen(t))
  /\ \A j \in Jobs : pass[j].at \in {"observe", "act"} =>
       pass[j].fails <= Cardinality(Seen(Job[j].tenant))

\* The evidence of a level past exhausted is among the rows, and stays there.
Evidence(t) ==
  \/ \E n \in {SevereProbes, FloorCycles} : Cardinality(FailedProbes(t)) >= n
  \/ /\ WeightOf(Past(t)) >= MinSamples
     /\ FloorBurn = 0 \/ \E i \in Past(t) : IsBad(i) \/ FallsShort(i)
Corroborated(t) == Cardinality(FailedProbes(t)) >= FloorCycles
Backed(t, level) == /\ level \in {"severe", "floor"} => Evidence(t)
                    /\ level = "floor" => Corroborated(t)
LevelsBacked ==
  /\ \A t \in Tenants : Backed(t, qstate[t].level)
  /\ \A j \in Jobs : pass[j].at = "act" =>
       /\ Backed(Job[j].tenant, pass[j].level)
       /\ "suspend" \in Range(pass[j].due) => Corroborated(Job[j].tenant)

\* A judge's unfailed observation is a proven judge's score, before it is stored.
Proven == \E r \in Range(calibration) :
            r.model = Model /\ r.rubric = Rubric /\ r.agreement >= MinAgreement
PostsProven ==
  \A j \in Jobs : job[j].at = "post" /\ Job[j].source = "judge" /\ ~job[j].obs.failed =>
    job[j].obs.score \in 0..10 /\ Proven

\* Failed probes of the lane among the first n rows since the last that passed.
ProbeRows(t) == {i \in Past(t) : Job[rows[i].id].source = "probe"}
StreakAt(t, n) ==
  {i \in ProbeRows(t) : i <= n /\ \A k \in ProbeRows(t) : i <= k /\ k <= n => rows[k].obs.failed}

\* In a lane that did not race, the one pass under way is of the last row, and
\* carries the streak that row has found or made.
Alone(t) ==
  /\ Busy(t) = {} => qstate[t].fails = Cardinality(StreakAt(t, Len(rows)))
  /\ \A j, k \in Busy(t) : j = k
  /\ \A j \in Busy(t), p \in DOMAIN rows : rows[p].id = j =>
       /\ \A i \in DOMAIN rows : i > p => Job[rows[i].id].tenant # t
       /\ pass[j].at = "read" => qstate[t].fails = Cardinality(StreakAt(t, p - 1))
       /\ pass[j].at = "observe" => pass[j].fails = Cardinality(StreakAt(t, p - 1))
       /\ pass[j].at = "act" => pass[j].fails = Cardinality(StreakAt(t, Len(rows)))
Sequential == \A t \in Tenants \ raced : Alone(t)

\* The inductive invariant.
QualityInv ==
  /\ Typed /\ StoredOnce /\ FailsBacked /\ LevelsBacked /\ SuspensionIsCorroborated
  /\ PostsProven /\ JudgeConditionsAreSilent /\ Sequential

-----------------------------------------------------------------------------
(* The operators of the ladder.                                            *)

\* The rungs in their order.
LEMMA RungOrder ==
  /\ Rungs = {"ok", "warning", "exhausted", "severe", "floor"}
  /\ Order("ok") = 1 /\ Order("warning") = 2 /\ Order("exhausted") = 3
  /\ Order("severe") = 4 /\ Order("floor") = 5
<1>1. DOMAIN Levels = 1..5
  BY DEF Levels
<1>2. /\ Levels[1] = "ok" /\ Levels[2] = "warning" /\ Levels[3] = "exhausted"
      /\ Levels[4] = "severe" /\ Levels[5] = "floor"
  BY DEF Levels
<1> HIDE DEF Levels
<1>3. \A i \in 1..5 : i = 1 \/ i = 2 \/ i = 3 \/ i = 4 \/ i = 5
  OBVIOUS
<1>4. QED
  BY <1>1, <1>2, <1>3 DEF Order, Rungs, Range

\* The ladder yields a rung; the floor takes a streak of failed probes.
LEMMA LadderLevels ==
  ASSUME NEW t, NEW slo, NEW fails
  PROVE  /\ ComputeLadderLevel(t, slo, fails) \in Rungs
         /\ ComputeLadderLevel(t, slo, fails) = "floor" => fails >= FloorCycles
BY RungOrder, Zenon DEF ComputeLadderLevel, ComputeBudget

\* Actions are planned on the way up only, and a suspension only for the floor.
LEMMA PlannedActions ==
  ASSUME NEW prev \in Rungs, NEW next \in Rungs
  PROVE  /\ PlanLadderTransition(prev, next) \in Seq(Actions)
         /\ "suspend" \in Range(PlanLadderTransition(prev, next)) => next = "floor"
<1> DEFINE up(rung) == Order(prev) < Order(rung) /\ Order(rung) <= Order(next)
           plan == (IF up("severe") THEN <<"abort_deployment">> ELSE <<>>) \o
                   (IF up("floor") THEN <<"suspend">> ELSE <<>>)
<1>1. PlanLadderTransition(prev, next) = plan
  BY Zenon DEF PlanLadderTransition
<1>2. plan \in Seq(Actions)
  <2>1. <<"abort_deployment">> \in Seq(Actions) /\ <<"suspend">> \in Seq(Actions) /\ <<>> \in Seq(Actions)
    BY DEF Actions
  <2>2. \A p, q \in Seq(Actions) : p \o q \in Seq(Actions)
    OBVIOUS
  <2>3. QED
    BY <2>1, <2>2, Zenon
<1>3. "suspend" \in Range(plan) => next = "floor"
  <2>1. CASE up("floor")
    BY <2>1, RungOrder
  <2>2. CASE ~up("floor")
    BY <2>2 DEF Range
  <2>3. QED
    BY <2>1, <2>2
<1>4. QED
  BY <1>1, <1>2, <1>3

\* A judged score leaves the verdict between 0 and 10, and with a proven judge.
LEMMA ScoredIsProven ==
  ASSUME NEW c \in Completions, JudgeScore(c).outcome = "scored"
  PROVE  JudgeScore(c).score \in 0..10 /\ Proven
<1>1. c.score \in Int
  BY QualityAssumption
<1>2. AssertCalibrated(calibration) /\ JudgeScore(c).score = ParseVerdict(c).score /\ ParseVerdict(c).ok
  BY Zenon DEF JudgeScore
<1>3. ParseVerdict(c).score \in 0..10
  BY <1>1, <1>2 DEF ParseVerdict
<1>4. Proven
  BY <1>2, Zenon DEF AssertCalibrated, Proven, Range
<1>5. QED
  BY <1>2, <1>3, <1>4

-----------------------------------------------------------------------------
(* Types.                                                                  *)

\* A stored observation is in one row, which RowOf finds.
LEMMA RowOfStored ==
  ASSUME Typed, StoredOnce, NEW j \in Jobs, pass[j].at # "none"
  PROVE  RowOf(j) \in DOMAIN rows /\ rows[RowOf(j)].id = j
BY Zenon DEF StoredOnce, Stored, RowOf

\* A streak is a number.
LEMMA StreakType == ASSUME Typed, NEW j \in Jobs PROVE Streak(j) \in Nat
<1>1. pass[j].fails \in Nat
  BY DEF Typed
<1>2. QED
  BY <1>1 DEF Streak

\* The records jobs and passes start and end with.
LEMMA Records ==
  /\ IdleJob = [at |-> "todo", attempt |-> 1, obs |-> [score |-> Null, failed |-> FALSE]]
  /\ EndedJob = [at |-> "done", attempt |-> 1, obs |-> [score |-> Null, failed |-> FALSE]]
  /\ [score |-> Null, failed |-> FALSE] \in Observations
  /\ \A at : Over(at) = [at |-> at, prior |-> "ok", fails |-> 0, level |-> "ok", due |-> <<>>]
<1>1. EndedJob = [at |-> "done", attempt |-> 1, obs |-> [score |-> Null, failed |-> FALSE]]
  <2>1. \A o : [[at |-> "todo", attempt |-> 1, obs |-> o] EXCEPT !.at = "done"]
                 = [at |-> "done", attempt |-> 1, obs |-> o]
    OBVIOUS
  <2>2. QED
    BY <2>1, Zenon DEF EndedJob, IdleJob
<1>2. \A at : Over(at) = [at |-> at, prior |-> "ok", fails |-> 0, level |-> "ok", due |-> <<>>]
  BY DEF Over, NoPass
<1>3. [score |-> Null, failed |-> FALSE] \in Observations
  BY DEF Observations, Null
<1>4. QED
  BY <1>1, <1>2, <1>3 DEF IdleJob

LEMMA InitTyped == QualityInit => Typed
<1> SUFFICES ASSUME QualityInit PROVE Typed
  OBVIOUS
<1>1. "ok" \in Rungs
  BY RungOrder
<1>3. /\ IdleJob.at = "todo" /\ EndedJob.at = "done" /\ IdleJob.attempt = 1 /\ EndedJob.attempt = 1
      /\ IdleJob \in [at : {"todo", "post", "wait", "done"}, attempt : 1..4, obs : Observations]
      /\ EndedJob \in [at : {"todo", "post", "wait", "done"}, attempt : 1..4, obs : Observations]
  BY Records
<1>4. NoPass \in [at : {"none", "read", "observe", "act", "done", "dead"}, prior : Rungs,
                  fails : Nat, level : Rungs, due : Seq(Actions)]
  BY <1>1 DEF NoPass
<1>5. rows \in Seq(ScoreRow) /\ cut \in 0..Len(rows)
  BY DEF QualityInit
<1>6. \A j \in Jobs : job[j] \in {IdleJob, EndedJob}
  BY DEF QualityInit
<1>7. /\ job \in [Jobs -> [at : {"todo", "post", "wait", "done"}, attempt : 1..4, obs : Observations]]
      /\ \A j \in Jobs : job[j].at # "done" => job[j].attempt <= Attempts(j)
  BY <1>3, <1>6 DEF QualityInit, Attempts
<1>8. QED
  BY <1>1, <1>4, <1>5, <1>7 DEF QualityInit, Typed

\* What the steps keep of the jobs' types.
JobsTyped ==
  /\ job \in [Jobs -> [at : {"todo", "post", "wait", "done"}, attempt : 1..4, obs : Observations]]
  /\ \A j \in Jobs : job[j].at # "done" => job[j].attempt <= Attempts(j)

\* A posted observation is one, and a job that ended or moved keeps its type.
LEMMA JobMoves ==
  ASSUME Typed, NEW j \in Jobs
  PROVE  /\ Ends(j) => JobsTyped'
         /\ \A score \in 0..Null, failed \in BOOLEAN :
              job[j].at = "todo" /\ Posts(j, score, failed) => JobsTyped'
         /\ job[j].at = "post" /\ job' = [job EXCEPT ![j].at = "wait"] => JobsTyped'
<1>1. /\ EndedJob.at = "done"
      /\ EndedJob \in [at : {"todo", "post", "wait", "done"}, attempt : 1..4, obs : Observations]
  BY Records
<1>2. Ends(j) => JobsTyped'
  BY <1>1 DEF Ends, JobsTyped, Typed, Attempts
<1>3. ASSUME NEW score \in 0..Null, NEW failed \in BOOLEAN, job[j].at = "todo",
             Posts(j, score, failed)
      PROVE  JobsTyped'
  <2>1. [score |-> score, failed |-> failed] \in Observations
    BY DEF Observations
  <2>2. PICK o \in Observations : job' = [job EXCEPT ![j].at = "post", ![j].obs = o]
    BY <1>3, <2>1 DEF Posts
  <2>3. /\ job' \in [Jobs -> [at : {"todo", "post", "wait", "done"}, attempt : 1..4, obs : Observations]]
        /\ job'[j].attempt = job[j].attempt /\ \A k \in Jobs \ {j} : job'[k] = job[k]
    <3> DEFINE JobStates == [at : {"todo", "post", "wait", "done"}, attempt : 1..4, obs : Observations]
    <3>1. job \in [Jobs -> JobStates]
      BY DEF Typed
    <3>2. PICK old \in JobStates : old = job[j]
      BY <3>1
    <3>3. PICK new : new = [old EXCEPT !.at = "post", !.obs = o]
      OBVIOUS
    <3>4. new \in JobStates /\ new.attempt = old.attempt
      BY <3>3
    <3>5. job' = [job EXCEPT ![j] = new]
      BY <2>2, <3>1, <3>2, <3>3
    <3> HIDE DEF JobStates
    <3>6. job' \in [Jobs -> JobStates] /\ job'[j] = new /\ \A k \in Jobs \ {j} : job'[k] = job[k]
      BY <3>1, <3>4, <3>5
    <3>7. QED
      BY <3>2, <3>4, <3>6 DEF JobStates
  <2>4. QED
    BY <1>3, <2>3 DEF JobsTyped, Typed
<1>4. ASSUME job[j].at = "post", job' = [job EXCEPT ![j].at = "wait"] PROVE JobsTyped'
  BY <1>4 DEF JobsTyped, Typed, Attempts
<1>5. QED
  BY <1>2, <1>3, <1>4

\* The types of everything but the jobs.
ServiceTyped ==
  /\ pass \in [Jobs -> [at : {"none", "read", "observe", "act", "done", "dead"}, prior : Rungs,
                        fails : Nat, level : Rungs, due : Seq(Actions)]]
  /\ qstate \in [Tenants -> [level : Rungs, fails : Nat]]
  /\ rows \in Seq(ScoreRow) /\ cut \in 0..Len(rows)
  /\ suspended \in BOOLEAN

LEMMA TypedParts == Typed <=> JobsTyped /\ ServiceTyped
BY DEF Typed, JobsTyped, ServiceTyped

LEMMA StepTyped == Typed /\ [QualityNext]_qualityVars => Typed'
<1> SUFFICES ASSUME Typed, [QualityNext]_qualityVars PROVE JobsTyped' /\ ServiceTyped'
  BY DEF Typed, JobsTyped, ServiceTyped
<1> USE DEF qualityVars, service
<1>1. JobsTyped /\ ServiceTyped
  BY TypedParts
<1> DEFINE Passes == [at : {"none", "read", "observe", "act", "done", "dead"}, prior : Rungs,
                      fails : Nat, level : Rungs, due : Seq(Actions)]
<1>2. \A at \in {"read", "done", "dead"} : Over(at) \in Passes
  <2>1. "ok" \in Rungs /\ <<>> \in Seq(Actions)
    BY RungOrder
  <2>2. QED
    BY <2>1, Records
<1>3. pass \in [Jobs -> Passes]
  BY <1>1 DEF ServiceTyped
<1>4. ASSUME NEW j \in Jobs, RunJudge(j) PROVE JobsTyped' /\ ServiceTyped'
  <2>1. ASSUME NEW c \in Completions, JudgeScore(c).outcome = "scored"
        PROVE  JudgeScore(c).score \in 0..Null
    BY <2>1, ScoredIsProven DEF Null
  <2>2. Null \in 0..Null
    BY DEF Null
  <2>3. JobsTyped'
    BY <1>4, <2>1, <2>2, JobMoves DEF RunJudge
  <2>4. QED
    BY <1>1, <1>4, <2>3 DEF RunJudge, ServiceTyped
<1>5. ASSUME NEW j \in Jobs, RunProbe(j) PROVE JobsTyped' /\ ServiceTyped'
  <2>1. Null \in 0..Null
    BY DEF Null
  <2>2. \A a : (~CheckProbe(a)) \in BOOLEAN
    BY DEF CheckProbe
  <2>3. JobsTyped'
    BY <1>5, <2>1, <2>2, JobMoves DEF RunProbe
  <2>4. QED
    BY <1>1, <1>5, <2>3 DEF RunProbe, ServiceTyped
<1>6. ASSUME NEW j \in Jobs, Ingest(j) PROVE JobsTyped' /\ ServiceTyped'
  <2>1. JobsTyped'
    BY <1>6, JobMoves DEF Ingest
  <2>2. CASE UNCHANGED <<rows, pass>>
    BY <1>1, <1>6, <2>1, <2>2 DEF Ingest, ServiceTyped
  <2>3. CASE rows' = Append(rows, [id |-> j, obs |-> job[j].obs]) /\ pass' = [pass EXCEPT ![j].at = "read"]
    <3>1. [id |-> j, obs |-> job[j].obs] \in ScoreRow
      BY <1>1 DEF JobsTyped, ScoreRow
    <3>2. rows' \in Seq(ScoreRow) /\ cut' \in 0..Len(rows')
      BY <1>1, <1>6, <2>3, <3>1 DEF Ingest, ServiceTyped
    <3>3. pass' \in [Jobs -> Passes]
      BY <1>3, <2>3
    <3>4. QED
      BY <1>1, <1>6, <2>1, <3>2, <3>3 DEF Ingest, ServiceTyped
  <2>4. QED
    BY <1>6, <2>1, <2>2, <2>3 DEF Ingest
<1>7. ASSUME NEW j \in Jobs, ReadState(j) PROVE JobsTyped' /\ ServiceTyped'
  <2>1. qstate[Job[j].tenant] \in [level : Rungs, fails : Nat]
    BY <1>1, QualityAssumption DEF ServiceTyped
  <2>2. pass' \in [Jobs -> Passes]
    <3>1. PICK level, n : level = qstate[Job[j].tenant].level /\ n = qstate[Job[j].tenant].fails
      OBVIOUS
    <3>2. pass' = [pass EXCEPT ![j].at = "observe", ![j].prior = level, ![j].fails = n]
      BY <1>7, <3>1 DEF ReadState
    <3>3. level \in Rungs /\ n \in Nat
      BY <2>1, <3>1
    <3>4. PICK old \in Passes : old = pass[j]
      BY <1>3
    <3>5. PICK new : new = [old EXCEPT !.at = "observe", !.prior = level, !.fails = n]
      OBVIOUS
    <3>6. new \in Passes
      BY <3>3, <3>5
    <3>7. pass' = [pass EXCEPT ![j] = new]
      BY <1>3, <3>2, <3>4, <3>5
    <3> HIDE DEF Passes
    <3>8. QED
      BY <1>3, <3>6, <3>7
  <2>3. QED
    BY <1>1, <1>7, <2>2 DEF ReadState, ServiceTyped, JobsTyped, Attempts
<1>8. ASSUME NEW j \in Jobs, Observe(j) PROVE JobsTyped' /\ ServiceTyped'
  <2>1. PICK level \in Rungs :
          pass' = [pass EXCEPT ![j].at = "act", ![j].fails = Streak(j), ![j].level = level,
                     ![j].due = PlanLadderTransition(pass[j].prior, level)]
    BY <1>8, LadderLevels DEF Observe
  <2>2. /\ Streak(j) \in Nat
        /\ PlanLadderTransition(pass[j].prior, level) \in Seq(Actions)
    BY <1>3, StreakType, PlannedActions
  <2>3. pass' \in [Jobs -> Passes]
    <3>1. PICK n, due : n = Streak(j) /\ due = PlanLadderTransition(pass[j].prior, level)
      OBVIOUS
    <3>2. pass' = [pass EXCEPT ![j].at = "act", ![j].fails = n, ![j].level = level, ![j].due = due]
      BY <2>1, <3>1
    <3>3. n \in Nat /\ due \in Seq(Actions)
      BY <2>2, <3>1
    <3>4. PICK old \in Passes : old = pass[j]
      BY <1>3
    <3>5. PICK new : new = [old EXCEPT !.at = "act", !.fails = n, !.level = level, !.due = due]
      OBVIOUS
    <3>6. new \in Passes
      BY <3>3, <3>5
    <3>7. pass' = [pass EXCEPT ![j] = new]
      BY <1>3, <3>2, <3>4, <3>5
    <3> HIDE DEF Passes
    <3>8. QED
      BY <1>3, <3>6, <3>7
  <2>4. QED
    BY <1>1, <1>8, <2>3 DEF Observe, ServiceTyped, JobsTyped, Attempts
<1>9. ASSUME NEW j \in Jobs, Act(j) PROVE JobsTyped' /\ ServiceTyped'
  <2>1. pass[j].due \in Seq(Actions) /\ pass[j].due # <<>>
    BY <1>3, <1>9 DEF Act
  <2>2. Tail(pass[j].due) \in Seq(Actions)
    BY <2>1
  <2>3. pass' \in [Jobs -> Passes] /\ suspended' \in BOOLEAN
    BY <1>1, <1>3, <1>9, <2>2 DEF Act, ServiceTyped
  <2>4. QED
    BY <1>1, <1>9, <2>3 DEF Act, ServiceTyped, JobsTyped, Attempts
<1>10. ASSUME NEW j \in Jobs, UpsertQualityState(j) PROVE JobsTyped' /\ ServiceTyped'
  <2>1. pass[j].level \in Rungs /\ pass[j].fails \in Nat
    BY <1>3
  <2>2. pass' \in [Jobs -> Passes]
    BY <1>2, <1>3, <1>10 DEF UpsertQualityState
  <2>3. qstate' \in [Tenants -> [level : Rungs, fails : Nat]]
    BY <1>1, <1>10, <2>1 DEF UpsertQualityState, ServiceTyped
  <2>4. JobsTyped'
    BY <1>1, <1>10, JobMoves DEF UpsertQualityState, JobsTyped, Ends, Attempts
  <2>5. QED
    BY <1>1, <1>10, <2>2, <2>3, <2>4 DEF UpsertQualityState, ServiceTyped
<1>11. ASSUME NEW j \in Jobs, AuditFails(j) PROVE JobsTyped' /\ ServiceTyped'
  <2>1. pass' \in [Jobs -> Passes]
    BY <1>2, <1>3, <1>11 DEF AuditFails
  <2>2. QED
    BY <1>1, <1>11, <2>1, JobMoves DEF AuditFails, ServiceTyped
<1>12. ASSUME NEW j \in Jobs, TimesOut(j) PROVE JobsTyped' /\ ServiceTyped'
  <2>1. job[j].attempt \in 1..4 /\ job[j].attempt <= Attempts(j) /\ Attempts(j) \in {2, 3}
    BY <1>1, <1>12 DEF JobsTyped, TimesOut, Attempts
  <2> DEFINE at == IF job[j].attempt = Attempts(j) THEN "done"
                   ELSE IF Job[j].source = "judge" THEN "todo" ELSE "post"
  <2>2. /\ at \in {"todo", "post", "wait", "done"} /\ job[j].attempt + 1 \in 1..4
        /\ at # "done" => job[j].attempt + 1 <= Attempts(j)
    BY <2>1
  <2>3. job' = [job EXCEPT ![j].attempt = job[j].attempt + 1, ![j].at = at]
    BY <1>12 DEF TimesOut
  <2> HIDE DEF at
  <2>4. /\ job' \in [Jobs -> [at : {"todo", "post", "wait", "done"}, attempt : 1..4, obs : Observations]]
        /\ job'[j].at = at /\ job'[j].attempt = job[j].attempt + 1
        /\ \A k \in Jobs \ {j} : job'[k] = job[k]
    <3>1. PICK a, m : a = at /\ m = job[j].attempt + 1
      OBVIOUS
    <3>2. job' = [job EXCEPT ![j].attempt = m, ![j].at = a]
      BY <2>3, <3>1
    <3>3. a \in {"todo", "post", "wait", "done"} /\ m \in 1..4
      BY <2>2, <3>1
    <3>4. job \in [Jobs -> [at : {"todo", "post", "wait", "done"}, attempt : 1..4, obs : Observations]]
      BY <1>1 DEF JobsTyped
    <3>5. QED
      BY <3>1, <3>2, <3>3, <3>4
  <2>5. \A k \in Jobs : job'[k].at # "done" => job'[k].attempt <= Attempts(k)
    BY <1>1, <2>2, <2>4 DEF JobsTyped
  <2>6. JobsTyped'
    BY <2>4, <2>5 DEF JobsTyped, Attempts
  <2>7. QED
    BY <1>1, <1>12, <2>6 DEF ServiceTyped, TimesOut
<1>13. ASSUME NEW j \in Jobs, Unsampled(j) \/ PostLost(j)
       PROVE JobsTyped' /\ ServiceTyped'
  BY <1>1, <1>13, JobMoves DEF Unsampled, PostLost, ServiceTyped
<1>14. ASSUME Crash PROVE JobsTyped' /\ ServiceTyped'
  <2>1. pass' \in [Jobs -> Passes]
    BY <1>2, <1>3, <1>14 DEF Crash
  <2>2. JobsTyped'
    <3>1. /\ EndedJob.at = "done"
          /\ EndedJob \in [at : {"todo", "post", "wait", "done"}, attempt : 1..4, obs : Observations]
      BY Records
    <3>2. QED
      BY <1>1, <1>14, <3>1 DEF Crash, JobsTyped, Attempts
  <2>3. QED
    BY <1>1, <1>14, <2>1, <2>2 DEF Crash, ServiceTyped
<1>15. ASSUME Slide \/ Reinstate \/ UNCHANGED qualityVars
       PROVE JobsTyped' /\ ServiceTyped'
  <2>1. cut' \in 0..Len(rows')
    BY <1>1, <1>15 DEF Slide, Reinstate, ServiceTyped
  <2>2. ServiceTyped'
    BY <1>1, <1>15, <2>1 DEF Slide, Reinstate, ServiceTyped
  <2>3. JobsTyped'
    BY <1>1, <1>15 DEF Slide, Reinstate, JobsTyped, Attempts
  <2>4. QED
    BY <2>2, <2>3
<1>16. QED
  BY <1>4, <1>5, <1>6, <1>7, <1>8, <1>9, <1>10, <1>11, <1>12, <1>13, <1>14, <1>15
     DEF QualityNext, Produce, Enforce

-----------------------------------------------------------------------------
(* Steps.                                                                  *)

\* An observation is stored, and its pass starts.
Stores(j) ==
  /\ job[j].at = "post" /\ ~Stored(j)
  /\ rows' = Append(rows, [id |-> j, obs |-> job[j].obs])
  /\ pass' = [pass EXCEPT ![j].at = "read"]
  /\ raced' = IF Busy(Job[j].tenant) # {} THEN raced \cup {Job[j].tenant} ELSE raced
  /\ UNCHANGED <<calibration, cut, qstate, suspended>>

\* A step leaves the service alone, stores an observation, or moves a pass on.
LEMMA StepKinds ==
  ASSUME [QualityNext]_qualityVars
  PROVE  \/ UNCHANGED <<calibration, service>>
         \/ \E j \in Jobs : Stores(j)
         \/ \E j \in Jobs : \/ ReadState(j) \/ Observe(j) \/ Act(j)
                            \/ UpsertQualityState(j) \/ AuditFails(j)
         \/ Slide \/ Crash \/ Reinstate
<1>1. ASSUME NEW j \in Jobs,
             Unsampled(j) \/ RunJudge(j) \/ RunProbe(j) \/ PostLost(j) \/ TimesOut(j)
      PROVE  UNCHANGED <<calibration, service>>
  BY <1>1 DEF Unsampled, RunJudge, RunProbe, PostLost, TimesOut
<1>2. ASSUME NEW j \in Jobs, Ingest(j)
      PROVE UNCHANGED <<calibration, service>> \/ Stores(j)
  BY <1>2 DEF Ingest, Stores, service
<1>3. CASE UNCHANGED qualityVars
  BY <1>3 DEF qualityVars, service
<1>4. QED
  BY <1>1, <1>2, <1>3 DEF QualityNext, Produce, Enforce

\* Rows are only ever added, and calibration is what it was.
Grows == /\ Len(rows) \in Nat /\ Len(rows') \in Nat /\ Len(rows) <= Len(rows')
         /\ DOMAIN rows = 1..Len(rows) /\ DOMAIN rows' = 1..Len(rows')
         /\ \A i \in 1..Len(rows) : rows'[i] = rows[i]

LEMMA StepGrows == ASSUME Typed, Typed', [QualityNext]_qualityVars
                   PROVE Grows /\ UNCHANGED calibration
<1>1. rows \in Seq(ScoreRow) /\ rows' \in Seq(ScoreRow)
  BY DEF Typed
<1>2. ASSUME UNCHANGED rows PROVE Grows
  BY <1>1, <1>2 DEF Grows
<1>3. ASSUME NEW r, rows' = Append(rows, r) PROVE Grows
  BY <1>1, <1>3 DEF Grows
<1>4. UNCHANGED calibration /\ (UNCHANGED rows \/ \E r : rows' = Append(rows, r))
  BY StepKinds, Zenon DEF Stores, ReadState, Observe, Act, UpsertQualityState,
         AuditFails, Slide, Crash, Reinstate, service
<1>5. QED
  BY <1>2, <1>3, <1>4

\* What storing an observation does to the rows.
LEMMA StoresRow ==
  ASSUME Typed, Typed', NEW j \in Jobs, Stores(j)
  PROVE  /\ Len(rows) \in Nat /\ Len(rows') = Len(rows) + 1
         /\ DOMAIN rows = 1..Len(rows) /\ DOMAIN rows' = 1..(Len(rows) + 1)
         /\ \A i \in 1..Len(rows) : rows'[i] = rows[i]
         /\ rows'[Len(rows) + 1] = [id |-> j, obs |-> job[j].obs]
         /\ pass'[j].at = "read" /\ \A k \in Jobs \ {j} : pass'[k] = pass[k]
<1>1. rows \in Seq(ScoreRow)
  BY DEF Typed
<1>2. /\ Len(rows) \in Nat /\ Len(rows') = Len(rows) + 1
      /\ DOMAIN rows = 1..Len(rows) /\ DOMAIN rows' = 1..(Len(rows) + 1)
      /\ \A i \in 1..Len(rows) : rows'[i] = rows[i]
      /\ rows'[Len(rows) + 1] = [id |-> j, obs |-> job[j].obs]
  BY <1>1 DEF Stores
<1>3. pass'[j].at = "read" /\ \A k \in Jobs \ {j} : pass'[k] = pass[k]
  BY DEF Stores, Typed
<1>4. QED
  BY <1>2, <1>3

\* A pass moves on and never back; only storing an observation starts one.
LEMMA PassMoves ==
  ASSUME Typed, Typed', [QualityNext]_qualityVars, UNCHANGED rows, NEW k \in Jobs
  PROVE  /\ pass[k].at = "none" <=> pass'[k].at = "none"
         /\ pass[k].at \notin {"read", "observe"} => pass'[k].at \notin {"read", "observe"}
<1>1. \A j \in Jobs : ~Stores(j)
  <2>1. rows \in Seq(ScoreRow)
    BY DEF Typed
  <2>2. \A r : Append(rows, r) # rows
    BY <2>1
  <2>3. QED
    BY <2>2 DEF Stores
<1>2. \A at \in {"done", "dead"} : Over(at).at = at
  BY Records
<1>3. ASSUME NEW j \in Jobs, ReadState(j) \/ Observe(j) \/ Act(j)
      PROVE  /\ pass[k].at = "none" <=> pass'[k].at = "none"
             /\ pass[k].at \notin {"read", "observe"} => pass'[k].at \notin {"read", "observe"}
  <2>1. \A l \in Jobs : l # j => pass'[l] = pass[l]
    BY <1>3 DEF ReadState, Observe, Act, Typed
  <2>2. \/ pass[j].at = "read" /\ pass'[j].at = "observe"
        \/ pass[j].at \in {"observe", "act"} /\ pass'[j].at = "act"
    <3>1. ReadState(j) => pass[j].at = "read" /\ pass'[j].at = "observe"
      BY DEF ReadState, Typed
    <3>2. Act(j) => pass[j].at = "act" /\ pass'[j].at = "act"
      BY DEF Act, Typed
    <3>3. Observe(j) => pass[j].at = "observe" /\ pass'[j].at = "act"
      BY DEF Observe, Typed
    <3>4. QED
      BY <1>3, <3>1, <3>2, <3>3
  <2>3. QED
    BY <2>1, <2>2
<1>4. ASSUME NEW j \in Jobs, UpsertQualityState(j) \/ AuditFails(j)
      PROVE  /\ pass[k].at = "none" <=> pass'[k].at = "none"
             /\ pass[k].at \notin {"read", "observe"} => pass'[k].at \notin {"read", "observe"}
  BY <1>2, <1>4 DEF UpsertQualityState, AuditFails, Typed
<1>5. ASSUME Crash
      PROVE  /\ pass[k].at = "none" <=> pass'[k].at = "none"
             /\ pass[k].at \notin {"read", "observe"} => pass'[k].at \notin {"read", "observe"}
  BY <1>2, <1>5 DEF Crash, Typed
<1>6. ASSUME UNCHANGED <<calibration, service>> \/ Slide \/ Reinstate PROVE UNCHANGED pass
  BY <1>6 DEF Slide, Reinstate, service
<1>7. QED
  BY <1>1, <1>3, <1>4, <1>5, <1>6, StepKinds

LEMMA StepStoredOnce ==
  ASSUME Typed, Typed', StoredOnce, [QualityNext]_qualityVars
  PROVE  StoredOnce'
<1>1. ASSUME NEW j \in Jobs, Stores(j) PROVE StoredOnce'
  <2>1. /\ Len(rows) \in Nat /\ DOMAIN rows = 1..Len(rows) /\ DOMAIN rows' = 1..(Len(rows) + 1)
        /\ \A i \in 1..Len(rows) : rows'[i] = rows[i]
        /\ rows'[Len(rows) + 1] = [id |-> j, obs |-> job[j].obs]
        /\ pass'[j].at = "read" /\ \A k \in Jobs \ {j} : pass'[k] = pass[k]
    BY <1>1, StoresRow
  <2>2. rows'[Len(rows) + 1].id = j /\ \A i \in 1..Len(rows) : rows'[i].id = rows[i].id /\ rows[i].id # j
    BY <1>1, <2>1 DEF Stores, Stored
  <2>3. QED
    BY <2>1, <2>2 DEF StoredOnce, Stored
<1>2. CASE UNCHANGED rows
  <2>1. \A k \in Jobs : pass[k].at = "none" <=> pass'[k].at = "none"
    BY <1>2, PassMoves
  <2>2. QED
    BY <1>2, <2>1 DEF StoredOnce, Stored
<1>3. QED
  BY <1>1, <1>2, StepKinds DEF ReadState, Observe, Act, UpsertQualityState,
         AuditFails, Slide, Crash, Reinstate, service

-----------------------------------------------------------------------------
(* Evidence.                                                               *)

\* The rows of a lane are finitely many, and its failed probes are some of them.
LEMMA RowSets ==
  ASSUME Typed, NEW t
  PROVE  /\ IsFiniteSet(DOMAIN rows) /\ Past(t) \in SUBSET DOMAIN rows /\ IsFiniteSet(Past(t))
         /\ FailedProbes(t) \in SUBSET Past(t) /\ IsFiniteSet(FailedProbes(t))
         /\ Cardinality(FailedProbes(t)) \in Nat
         /\ Seen(t) \in SUBSET FailedProbes(t) /\ IsFiniteSet(Seen(t))
         /\ Cardinality(Seen(t)) \in Nat /\ Cardinality(Seen(t)) <= Cardinality(FailedProbes(t))
<1>1. Len(rows) \in Nat /\ DOMAIN rows = 1..Len(rows)
  BY DEF Typed
<1>2. IsFiniteSet(DOMAIN rows)
  BY <1>1, FS_Interval
<1>3. /\ Past(t) \in SUBSET DOMAIN rows /\ FailedProbes(t) \in SUBSET Past(t)
      /\ Seen(t) \in SUBSET FailedProbes(t)
  BY DEF Past, FailedProbes, Seen
<1>4. IsFiniteSet(Past(t))
  BY <1>2, <1>3, FS_Subset
<1>5. IsFiniteSet(FailedProbes(t)) /\ Cardinality(FailedProbes(t)) \in Nat
  BY <1>3, <1>4, FS_Subset, FS_CardinalityType
<1>6. QED
  BY <1>2, <1>3, <1>4, <1>5, FS_Subset, FS_CardinalityType

\* What a row holds.
LEMMA ScoreRowType ==
  ASSUME Typed, NEW i \in DOMAIN rows
  PROVE  rows[i].id \in Jobs /\ rows[i].obs.score \in 0..Null /\ rows[i].obs.failed \in BOOLEAN
<1>1. rows[i] \in ScoreRow
  BY DEF Typed
<1>2. QED
  BY <1>1 DEF ScoreRow, Observations

LEMMA FiniteLanes == Typed => \A u : IsFiniteSet(Past(u)) /\ IsFiniteSet(FailedProbes(u))
BY RowSets

\* Fewer rows weigh no more.
LEMMA WeightSubset ==
  ASSUME NEW S, IsFiniteSet(S), NEW T \in SUBSET S
  PROVE  WeightOf(T) \in Nat /\ WeightOf(S) \in Nat /\ WeightOf(T) <= WeightOf(S)
<1>1. ProbeWeight \in Nat
  BY QualityAssumption
<1>2. ASSUME NEW source
      PROVE  /\ Cardinality(OfSource(T, source)) \in Nat /\ Cardinality(OfSource(S, source)) \in Nat
             /\ Cardinality(OfSource(T, source)) <= Cardinality(OfSource(S, source))
  <2>1. OfSource(T, source) \in SUBSET OfSource(S, source) /\ OfSource(S, source) \in SUBSET S
    BY DEF OfSource
  <2>2. IsFiniteSet(OfSource(S, source))
    BY <2>1, FS_Subset
  <2>3. QED
    BY <2>1, <2>2, FS_Subset, FS_CardinalityType
<1>3. ASSUME NEW a \in Nat, NEW b \in Nat, a <= b PROVE ProbeWeight * a <= ProbeWeight * b
  BY <1>1, <1>3
<1>4. QED
  BY <1>1, <1>2, <1>3 DEF WeightOf

\* What weighs something is not empty.
LEMMA WeightOfNone == WeightOf({}) = 0
<1>1. OfSource({}, "judge") = {} /\ OfSource({}, "probe") = {}
  BY DEF OfSource
<1>2. ProbeWeight \in Nat
  BY QualityAssumption
<1>3. QED
  BY <1>1, <1>2, FS_EmptySet DEF WeightOf

\* A row that is added takes no evidence away.
LEMMA EvidenceStays ==
  ASSUME Typed, Typed', Grows, NEW t
  PROVE  /\ Past(t) \subseteq Past(t)' /\ FailedProbes(t) \subseteq FailedProbes(t)'
         /\ Corroborated(t) => Corroborated(t)'
         /\ Evidence(t) => Evidence(t)'
<1>1. DOMAIN rows \subseteq DOMAIN rows' /\ \A i \in DOMAIN rows : rows'[i] = rows[i]
  BY DEF Grows
<1>2. Past(t) \subseteq Past(t)' /\ FailedProbes(t) \subseteq FailedProbes(t)'
  BY <1>1 DEF Past, FailedProbes, Route
<1>3. IsFiniteSet(Past(t)') /\ IsFiniteSet(FailedProbes(t)')
  <2>1. (Typed => \A u : IsFiniteSet(Past(u)) /\ IsFiniteSet(FailedProbes(u)))'
    BY FiniteLanes, PTL
  <2>2. QED
    BY <2>1
<1>4. Cardinality(FailedProbes(t)) \in Nat /\ Cardinality(FailedProbes(t)) <= Cardinality(FailedProbes(t))'
  BY <1>2, <1>3, RowSets, FS_Subset
<1>5. Cardinality(FailedProbes(t)') \in Nat
  BY <1>3, FS_CardinalityType
<1>6. WeightOf(Past(t)) \in Nat /\ WeightOf(Past(t))' \in Nat /\ WeightOf(Past(t)) <= WeightOf(Past(t))'
  <2>1. ASSUME NEW source
        PROVE  /\ Cardinality(OfSource(Past(t), source)) \in Nat
               /\ Cardinality(OfSource(Past(t), source)') \in Nat
               /\ Cardinality(OfSource(Past(t), source)) <= Cardinality(OfSource(Past(t), source)')
    <3>1. OfSource(Past(t), source) \subseteq OfSource(Past(t), source)'
      BY <1>1, <1>2, RowSets DEF OfSource
    <3>2. OfSource(Past(t), source)' \subseteq Past(t)'
      BY DEF OfSource
    <3>3. IsFiniteSet(OfSource(Past(t), source)')
      BY <1>3, <3>2, FS_Subset
    <3>4. IsFiniteSet(OfSource(Past(t), source))
      BY <3>1, <3>3, FS_Subset
    <3>5. QED
      BY <3>1, <3>3, <3>4, FS_Subset, FS_CardinalityType
  <2>2. ProbeWeight \in Nat
    BY QualityAssumption
  <2>3. ASSUME NEW a \in Nat, NEW b \in Nat, a <= b
        PROVE ProbeWeight * a <= ProbeWeight * b
    BY <2>2, <2>3
  <2>4. QED
    BY <2>1, <2>2, <2>3 DEF WeightOf
<1>7. Corroborated(t) => Corroborated(t)'
  BY <1>4, <1>5, QualityAssumption DEF Corroborated
<1>8. Evidence(t) => Evidence(t)'
  <2>1. \A i \in Past(t) : (IsBad(i) => IsBad(i)') /\ (FallsShort(i) => FallsShort(i)')
    BY <1>1, RowSets DEF IsBad, FallsShort
  <2>2. \A n \in {SevereProbes, FloorCycles} : n \in Nat
    BY QualityAssumption
  <2>3. MinSamples \in Nat
    BY QualityAssumption
  <2>4. (WeightOf(Past(t)) >= MinSamples) => (WeightOf(Past(t)) >= MinSamples)'
    BY <1>6, <2>3
  <2>5. \A n \in {SevereProbes, FloorCycles} :
          (Cardinality(FailedProbes(t)) >= n) => (Cardinality(FailedProbes(t)) >= n)'
    BY <1>4, <1>5, <2>2
  <2>6. QED
    BY <1>2, <2>1, <2>4, <2>5 DEF Evidence
<1>9. QED
  BY <1>2, <1>7, <1>8

\* The window is part of the lane's past.
LEMMA WindowIsPast ==
  ASSUME Typed, NEW t
  PROVE  /\ Counted(t) \in SUBSET Past(t)
         /\ {i \in Window(t) : Route(i) \in {"active", "canary"}} \in SUBSET Past(t)
<1>1. Len(rows) \in Nat /\ DOMAIN rows = 1..Len(rows) /\ cut \in 0..Len(rows)
  BY DEF Typed
<1>2. Window(t) \subseteq DOMAIN rows
  BY <1>1 DEF Window
<1>3. \A i \in Window(t) : Job[rows[i].id].tenant = t
  BY DEF Window
<1>4. QED
  BY <1>2, <1>3 DEF Counted, Past

\* A mean that is too low has a score that is too low.
LEMMA MeanEvidence ==
  ASSUME Typed, NEW t, NEW slo \in {Slo, SloDefault}, MeanTooLow(t, slo)
  PROVE  \E i \in Past(t) : FallsShort(i)
<1> DEFINE judged == {i \in Window(t) : Route(i) \in {"active", "canary"} /\ rows[i].obs.score # Null}
           scores == [i \in judged |-> rows[i].obs.score]
<1>1. judged # {} /\ SumFunctionOnSet(scores, judged) < Cardinality(judged) * (slo - 2)
  BY DEF MeanTooLow
<1>2. judged \in SUBSET Past(t)
  BY WindowIsPast
<1>3. \A i \in judged : scores[i] = rows[i].obs.score /\ rows[i].obs.score # Null
  OBVIOUS
<1>4. \A i \in Past(t) : rows[i].obs.score \in 0..Null
  BY RowSets, ScoreRowType
<1> HIDE DEF judged, scores
<1>5. IsFiniteSet(judged) /\ Cardinality(judged) \in Nat
  BY <1>2, RowSets, FS_Subset, FS_CardinalityType
<1>6. slo - 2 \in Int
  BY QualityAssumption
<1>7. \A i \in judged : scores[i] \in Nat
  BY <1>2, <1>3, <1>4 DEF Null
<1>8. ASSUME \A i \in judged : slo - 2 <= scores[i] PROVE FALSE
  <2>1. Cardinality(judged) * (slo - 2) <= SumFunctionOnSet(scores, judged)
    BY <1>5, <1>6, <1>7, <1>8, SumAtLeast
  <2>2. SumFunctionOnSet(scores, judged) \in Nat /\ Cardinality(judged) * (slo - 2) \in Int
    BY <1>5, <1>6, <1>7, SumType
  <2>3. QED
    BY <1>1, <2>1, <2>2
<1>9. PICK i \in judged : scores[i] < slo - 2
  BY <1>6, <1>7, <1>8
<1>10. FallsShort(i)
  BY <1>3, <1>9 DEF FallsShort
<1>11. QED
  BY <1>2, <1>10

\* A budget that is measurable and burnt has weight enough and a bad row.
LEMMA BudgetEvidence ==
  ASSUME Typed, NEW t, NEW slo \in {Slo, SloDefault}
  PROVE  LET b == ComputeBudget(t, slo) IN
         /\ b.measurable => WeightOf(Past(t)) >= MinSamples
         /\ b.state = "exhausted" => b.measurable /\ \E i \in Past(t) : IsBad(i)
         /\ b.catastrophic => FloorBurn = 0 \/ \E i \in Past(t) : IsBad(i)
         /\ b.state \in {"ok", "warning", "exhausted"}
<1> DEFINE total == WeightOf(Counted(t))
           badRows == {i \in Counted(t) : IsBad(i)}
           bad == WeightOf(badRows)
           burnt(n, d) == total > 0 /\ (bad > 0 \/ n = 0) /\ d * 10 * bad >= n * total * (10 - slo)
           b == ComputeBudget(t, slo)
<1>1. /\ b.measurable <=> total >= MinSamples
      /\ b.state = IF total >= MinSamples /\ burnt(1, 1) THEN "exhausted"
                   ELSE IF total >= MinSamples /\ burnt(1, 2) THEN "warning" ELSE "ok"
      /\ b.catastrophic = IF total = 0 THEN FloorBurn = 0 ELSE burnt(FloorBurn, 1)
  BY Zenon DEF ComputeBudget
<1>2. Counted(t) \in SUBSET Past(t) /\ IsFiniteSet(Past(t))
  BY WindowIsPast, RowSets
<1>3. total \in Nat /\ WeightOf(Past(t)) \in Nat /\ total <= WeightOf(Past(t))
  BY <1>2, WeightSubset
<1>4. bad > 0 => \E i \in Past(t) : IsBad(i)
  <2>1. badRows = {} => bad = 0
    BY WeightOfNone
  <2>2. QED
    BY <1>2, <2>1
<1>5. MinSamples \in Nat
  BY QualityAssumption
<1> HIDE DEF b, total, bad
<1>6. b.measurable => WeightOf(Past(t)) >= MinSamples
  BY <1>1, <1>3, <1>5
<1>7. b.state = "exhausted" => b.measurable /\ bad > 0
  BY <1>1
<1>8. b.catastrophic => FloorBurn = 0 \/ bad > 0
  BY <1>1
<1>9. b.state \in {"ok", "warning", "exhausted"}
  BY <1>1
<1>10. QED
  BY <1>4, <1>6, <1>7, <1>8, <1>9 DEF b

\* The level the ladder computes is backed, if the streak it is given is.
LEMMA LadderEvidence ==
  ASSUME Typed, NEW t, NEW slo \in {Slo, SloDefault}, NEW fails \in Nat,
         fails <= Cardinality(FailedProbes(t))
  PROVE  Backed(t, ComputeLadderLevel(t, slo, fails))
<1> DEFINE b == ComputeBudget(t, slo)
           level == ComputeLadderLevel(t, slo, fails)
<1>1. level = IF fails >= FloorCycles THEN "floor"
              ELSE IF fails >= SevereProbes \/ (b.measurable /\ (MeanTooLow(t, slo) \/ b.catastrophic))
              THEN "severe" ELSE b.state
  BY Zenon DEF ComputeLadderLevel
<1>2. /\ b.measurable => WeightOf(Past(t)) >= MinSamples
      /\ b.catastrophic => FloorBurn = 0 \/ \E i \in Past(t) : IsBad(i)
      /\ b.state \in {"ok", "warning", "exhausted"}
  BY BudgetEvidence
<1>3. MeanTooLow(t, slo) => \E i \in Past(t) : FallsShort(i)
  BY MeanEvidence
<1>4. \A n \in {SevereProbes, FloorCycles} : fails >= n => Cardinality(FailedProbes(t)) >= n
  BY RowSets, QualityAssumption
<1> HIDE DEF b, level
<1>5. level = "floor" => Corroborated(t) /\ Evidence(t)
  BY <1>1, <1>2, <1>4 DEF Corroborated, Evidence
<1>6. level = "severe" => Evidence(t)
  <2>1. fails >= SevereProbes => Evidence(t)
    BY <1>4 DEF Evidence
  <2>2. b.measurable /\ (MeanTooLow(t, slo) \/ b.catastrophic) => Evidence(t)
    BY <1>2, <1>3 DEF Evidence
  <2>3. QED
    BY <1>1, <1>2, <2>1, <2>2
<1>7. QED
  BY <1>5, <1>6 DEF Backed, level

-----------------------------------------------------------------------------
(* Each failed probe counts at most once.                                  *)

LEMMA FiniteSeen == Typed => \A u : IsFiniteSet(Seen(u)) /\ Cardinality(Seen(u)) \in Nat
BY RowSets

\* What a streak has counted stays counted.
LEMMA SeenStays ==
  ASSUME Typed, Typed', StoredOnce, [QualityNext]_qualityVars, NEW t
  PROVE  /\ Seen(t) \subseteq Seen(t)' /\ IsFiniteSet(Seen(t)') /\ Cardinality(Seen(t)') \in Nat
         /\ Cardinality(Seen(t)) \in Nat /\ Cardinality(Seen(t)) <= Cardinality(Seen(t)')
<1>1. /\ (Typed => \A u : IsFiniteSet(Seen(u)) /\ Cardinality(Seen(u)) \in Nat)'
      /\ Typed => \A u : IsFiniteSet(Seen(u)) /\ Cardinality(Seen(u)) \in Nat
  BY FiniteSeen, PTL
<1>2. Grows
  BY StepGrows
<1>3. FailedProbes(t) \subseteq FailedProbes(t)'
  BY <1>2, EvidenceStays
<1>4. ASSUME NEW i \in Seen(t) PROVE i \in Seen(t)'
  <2>1. /\ i \in FailedProbes(t) /\ i \in DOMAIN rows /\ i \in 1..Len(rows) /\ rows'[i] = rows[i]
        /\ rows[i].id \in Jobs /\ pass[rows[i].id].at \notin {"read", "observe"}
    BY <1>2, RowSets, ScoreRowType DEF Seen, Grows
  <2>2. CASE UNCHANGED rows
    <3>1. pass'[rows[i].id].at \notin {"read", "observe"}
      BY <2>1, <2>2, PassMoves
    <3>2. QED
      BY <1>3, <2>1, <3>1 DEF Seen
  <2>3. CASE \E j \in Jobs : Stores(j)
    <3>1. PICK j \in Jobs : Stores(j)
      BY <2>3
    <3>2. rows[i].id # j
      BY <2>1, <3>1 DEF Stores, Stored
    <3>3. pass'[rows[i].id] = pass[rows[i].id]
      <4>1. \A k \in Jobs \ {j} : pass'[k] = pass[k]
        BY <3>1, StoresRow
      <4>2. QED
        BY <2>1, <3>2, <4>1
    <3>4. QED
      BY <1>3, <2>1, <3>3 DEF Seen
  <2>4. QED
    BY <2>2, <2>3, StepKinds DEF ReadState, Observe, Act, UpsertQualityState,
           AuditFails, Slide, Crash, Reinstate, service
<1>5. QED
  BY <1>1, <1>4, FS_Subset

\* The streak a pass makes has its own row in it at most once.
LEMMA StreakBacked ==
  ASSUME Typed, Typed', StoredOnce, FailsBacked, [QualityNext]_qualityVars,
         NEW j \in Jobs, Observe(j)
  PROVE  Streak(j) <= Cardinality(Seen(Job[j].tenant)')
<1> DEFINE t == Job[j].tenant
           i == RowOf(j)
<1>1. pass[j].fails \in Nat /\ pass[j].fails <= Cardinality(Seen(t)) /\ pass[j].at = "observe"
  BY DEF Observe, Typed, FailsBacked
<1>2. i \in DOMAIN rows /\ rows[i].id = j
  BY <1>1, RowOfStored
<1>3. /\ Cardinality(Seen(t)) \in Nat /\ Cardinality(Seen(t)') \in Nat /\ Seen(t) \subseteq Seen(t)'
      /\ Cardinality(Seen(t)) <= Cardinality(Seen(t)') /\ IsFiniteSet(Seen(t)') /\ IsFiniteSet(Seen(t))
  BY SeenStays, RowSets
<1>4. CASE Job[j].source = "probe" /\ rows[i].obs.failed
  <2>1. i \in FailedProbes(t)
    BY <1>2, <1>4, QualityAssumption DEF FailedProbes, Past, Route
  <2>2. i \notin Seen(t)
    BY <1>1, <1>2 DEF Seen
  <2>3. UNCHANGED rows /\ pass'[j].at = "act"
    BY DEF Observe, Typed
  <2>4. i \in Seen(t)'
    BY <1>2, <2>1, <2>3 DEF Seen, FailedProbes, Past, Route
  <2>5. Cardinality(Seen(t) \cup {i}) = Cardinality(Seen(t)) + 1
    BY <1>3, <2>2, FS_AddElement
  <2>6. Cardinality(Seen(t) \cup {i}) <= Cardinality(Seen(t)')
    <3>1. Seen(t) \cup {i} \in SUBSET Seen(t)'
      BY <1>3, <2>4
    <3>2. QED
      BY <1>3, <3>1, FS_Subset
  <2>7. Streak(j) = pass[j].fails + 1
    BY <1>4 DEF Streak
  <2> HIDE DEF i
  <2>8. QED
    BY <1>1, <1>3, <2>5, <2>6, <2>7
<1>5. CASE ~(Job[j].source = "probe" /\ rows[i].obs.failed)
  <2>1. Streak(j) \in {pass[j].fails, 0}
    BY <1>5 DEF Streak
  <2>2. QED
    BY <1>1, <1>3, <2>1
<1>6. QED
  BY <1>4, <1>5

LEMMA StepFailsBacked ==
  ASSUME Typed, Typed', StoredOnce, FailsBacked, [QualityNext]_qualityVars
  PROVE  FailsBacked'
<1>1. \A t : /\ Cardinality(Seen(t)) \in Nat /\ Cardinality(Seen(t)') \in Nat
             /\ Cardinality(Seen(t)) <= Cardinality(Seen(t)')
  BY SeenStays
<1>2. \A j \in Jobs : Job[j].tenant \in Tenants
  BY QualityAssumption
<1>3. /\ \A t \in Tenants : qstate[t].fails \in Nat /\ qstate[t].fails <= Cardinality(Seen(t)')
      /\ \A j \in Jobs : pass[j].at \in {"observe", "act"} =>
           pass[j].fails \in Nat /\ pass[j].fails <= Cardinality(Seen(Job[j].tenant)')
  <2>1. /\ \A t \in Tenants : qstate[t].fails \in Nat /\ qstate[t].fails <= Cardinality(Seen(t))
        /\ \A j \in Jobs : pass[j].at \in {"observe", "act"} =>
             pass[j].fails \in Nat /\ pass[j].fails <= Cardinality(Seen(Job[j].tenant))
    BY DEF Typed, FailsBacked
  <2>2. \A a \in Nat : \A t : a <= Cardinality(Seen(t)) => a <= Cardinality(Seen(t)')
    BY <1>1
  <2>3. QED
    BY <1>2, <2>1, <2>2
<1> SUFFICES /\ \A t \in Tenants : qstate'[t].fails <= Cardinality(Seen(t)')
             /\ \A j \in Jobs : pass'[j].at \in {"observe", "act"} =>
                  pass'[j].fails <= Cardinality(Seen(Job[j].tenant)')
  BY DEF FailsBacked
<1> DEFINE Goal == /\ \A t \in Tenants : qstate'[t].fails <= Cardinality(Seen(t)')
                   /\ \A j \in Jobs : pass'[j].at \in {"observe", "act"} =>
                        pass'[j].fails <= Cardinality(Seen(Job[j].tenant)')
<1>4. \A at \in {"done", "dead"} : Over(at).at = at
  BY Records
<1>5. ASSUME NEW j \in Jobs, Stores(j) PROVE Goal
  BY <1>3, <1>5, StoresRow DEF Stores
<1>6. ASSUME NEW j \in Jobs, ReadState(j) PROVE Goal
  <2>1. /\ pass'[j].fails = qstate[Job[j].tenant].fails /\ UNCHANGED qstate
        /\ \A k \in Jobs \ {j} : pass'[k] = pass[k]
    <3>1. PICK level, n : level = qstate[Job[j].tenant].level /\ n = qstate[Job[j].tenant].fails
      OBVIOUS
    <3>2. pass' = [pass EXCEPT ![j].at = "observe", ![j].prior = level, ![j].fails = n]
      BY <1>6, <3>1 DEF ReadState
    <3>3. pass'[j].fails = n /\ \A k \in Jobs \ {j} : pass'[k] = pass[k]
      BY <3>2 DEF Typed
    <3>4. QED
      BY <1>6, <3>1, <3>3 DEF ReadState
  <2>2. QED
    BY <1>2, <1>3, <2>1
<1>7. ASSUME NEW j \in Jobs, Observe(j) PROVE Goal
  <2>1. Streak(j) <= Cardinality(Seen(Job[j].tenant)')
    BY <1>7, StreakBacked
  <2>2. /\ pass'[j].fails = Streak(j) /\ UNCHANGED qstate
        /\ \A k \in Jobs \ {j} : pass'[k] = pass[k]
    BY <1>7 DEF Observe, Typed
  <2>3. QED
    BY <1>3, <2>1, <2>2
<1>8. ASSUME NEW j \in Jobs, Act(j) PROVE Goal
  <2>1. /\ pass'[j].fails = pass[j].fails /\ pass[j].at = "act" /\ UNCHANGED qstate
        /\ \A k \in Jobs \ {j} : pass'[k] = pass[k]
    BY <1>8 DEF Act, Typed
  <2>2. QED
    BY <1>3, <2>1
<1>9. ASSUME NEW j \in Jobs, UpsertQualityState(j) PROVE Goal
  <2>1. /\ qstate'[Job[j].tenant].fails = pass[j].fails /\ pass[j].at = "act" /\ pass'[j].at = "done"
        /\ \A t \in Tenants \ {Job[j].tenant} : qstate'[t] = qstate[t]
        /\ \A k \in Jobs \ {j} : pass'[k] = pass[k]
    BY <1>2, <1>4, <1>9 DEF UpsertQualityState, Typed
  <2>2. QED
    BY <1>2, <1>3, <2>1
<1>10. ASSUME NEW j \in Jobs, AuditFails(j) PROVE Goal
  <2>1. pass'[j].at = "dead" /\ UNCHANGED qstate /\ \A k \in Jobs \ {j} : pass'[k] = pass[k]
    BY <1>4, <1>10 DEF AuditFails, Typed
  <2>2. QED
    BY <1>3, <2>1
<1>11. ASSUME Crash PROVE Goal
  <2>1. UNCHANGED qstate /\ \A k \in Jobs : pass'[k].at = "dead" \/ pass'[k] = pass[k]
    BY <1>4, <1>11 DEF Crash
  <2>2. QED
    BY <1>3, <2>1
<1>12. ASSUME UNCHANGED <<calibration, service>> \/ Slide \/ Reinstate PROVE Goal
  <2>1. UNCHANGED <<qstate, pass>>
    BY <1>12 DEF Slide, Reinstate, service
  <2>2. QED
    BY <1>3, <2>1
<1>13. QED
  BY <1>5, <1>6, <1>7, <1>8, <1>9, <1>10, <1>11, <1>12, StepKinds

-----------------------------------------------------------------------------
(* Levels, suspensions and verdicts.                                       *)

LEMMA StepLevelsBacked ==
  ASSUME Typed, Typed', StoredOnce, FailsBacked, LevelsBacked, [QualityNext]_qualityVars
  PROVE  LevelsBacked'
<1> DEFINE Later(t, level) == /\ level \in {"severe", "floor"} => Evidence(t)'
                              /\ level = "floor" => Corroborated(t)'
           Q == \A t \in Tenants : Later(t, qstate'[t].level)
           P(k) == pass'[k].at = "act" =>
                     /\ Later(Job[k].tenant, pass'[k].level)
                     /\ "suspend" \in Range(pass'[k].due) => Corroborated(Job[k].tenant)'
<1> SUFFICES Q /\ \A k \in Jobs : P(k)
  BY DEF LevelsBacked, Backed
<1>1. Grows
  BY StepGrows
<1>2. \A t : (Evidence(t) => Evidence(t)') /\ (Corroborated(t) => Corroborated(t)')
  BY <1>1, EvidenceStays
<1>3. /\ \A t, level : Backed(t, level) => Later(t, level)
      /\ \A j \in Jobs : Job[j].tenant \in Tenants
  BY <1>2, QualityAssumption DEF Backed
<1>4. ASSUME UNCHANGED qstate PROVE Q
  <2> HIDE DEF Later
  <2> QED BY <1>3, <1>4 DEF LevelsBacked
<1>5. ASSUME NEW k \in Jobs, pass'[k] = pass[k] \/ pass'[k].at # "act" PROVE P(k)
  <2> HIDE DEF Later
  <2> QED BY <1>2, <1>3, <1>5 DEF LevelsBacked
<1>6. \A at \in {"done", "dead"} : Over(at).at = at
  BY Records
<1> HIDE DEF P, Q, Later
<1>7. ASSUME NEW j \in Jobs, Observe(j) PROVE Q /\ \A k \in Jobs : P(k)
  <2>1. PICK slo \in {Slo, SloDefault} :
          pass' = [pass EXCEPT ![j].at = "act", ![j].fails = Streak(j),
                     ![j].level = ComputeLadderLevel(Job[j].tenant, slo, Streak(j)),
                     ![j].due = PlanLadderTransition(pass[j].prior,
                                  ComputeLadderLevel(Job[j].tenant, slo, Streak(j)))]
    BY <1>7 DEF Observe
  <2> DEFINE t == Job[j].tenant
             level == ComputeLadderLevel(t, slo, Streak(j))
  <2>2. UNCHANGED rows /\ UNCHANGED qstate
    BY <1>7 DEF Observe
  <2>3. FailedProbes(t)' = FailedProbes(t)
    BY <2>2 DEF FailedProbes, Past, Route
  <2>4. Streak(j) \in Nat /\ Streak(j) <= Cardinality(FailedProbes(t))
    <3>1. Streak(j) <= Cardinality(Seen(t)')
      BY <1>7, StreakBacked
    <3>2. Seen(t)' \in SUBSET FailedProbes(t) /\ IsFiniteSet(FailedProbes(t))
      BY <2>3, RowSets DEF Seen
    <3>3. /\ Cardinality(Seen(t)') <= Cardinality(FailedProbes(t))
          /\ Cardinality(Seen(t)') \in Nat /\ Cardinality(FailedProbes(t)) \in Nat
      BY <3>2, FS_Subset, FS_CardinalityType
    <3>4. QED
      BY <3>1, <3>3, StreakType
  <2>5. Backed(t, level) /\ level \in Rungs /\ pass[j].prior \in Rungs
    BY <2>4, LadderEvidence, LadderLevels DEF Typed
  <2>6. "suspend" \in Range(PlanLadderTransition(pass[j].prior, level)) => Corroborated(t)
    BY <2>5, PlannedActions DEF Backed
  <2>7. /\ pass'[j].level = level /\ pass'[j].due = PlanLadderTransition(pass[j].prior, level)
        /\ \A k \in Jobs \ {j} : pass'[k] = pass[k]
    BY <2>1 DEF Typed
  <2> HIDE DEF t, level
  <2>8. P(j)
    <3>1. Later(t, level)
      BY <1>3, <2>5
    <3>2. "suspend" \in Range(pass'[j].due) => Corroborated(t)'
      BY <1>2, <2>6, <2>7
    <3>3. QED
      BY <2>7, <3>1, <3>2, Zenon DEF P, t
  <2>9. QED
    BY <1>4, <1>5, <2>2, <2>7, <2>8
<1>8. ASSUME NEW j \in Jobs, Act(j) PROVE Q /\ \A k \in Jobs : P(k)
  <2>1. /\ pass'[j].level = pass[j].level /\ pass'[j].due = Tail(pass[j].due)
        /\ pass[j].at = "act" /\ UNCHANGED qstate /\ pass[j].due \in Seq(Actions) /\ pass[j].due # <<>>
        /\ \A k \in Jobs \ {j} : pass'[k] = pass[k]
    BY <1>8 DEF Act, Typed
  <2>2. Range(pass'[j].due) \subseteq Range(pass[j].due)
    BY <2>1 DEF Range
  <2>3. Backed(Job[j].tenant, pass[j].level) /\ ("suspend" \in Range(pass[j].due) => Corroborated(Job[j].tenant))
    BY <2>1 DEF LevelsBacked
  <2>4. P(j)
    BY <1>2, <1>3, <2>1, <2>2, <2>3 DEF P
  <2>5. QED
    BY <1>4, <1>5, <2>1, <2>4
<1>9. ASSUME NEW j \in Jobs, UpsertQualityState(j) PROVE Q /\ \A k \in Jobs : P(k)
  <2>1. /\ qstate'[Job[j].tenant].level = pass[j].level /\ pass[j].at = "act" /\ pass'[j].at = "done"
        /\ \A t \in Tenants \ {Job[j].tenant} : qstate'[t] = qstate[t]
        /\ \A k \in Jobs \ {j} : pass'[k] = pass[k]
    BY <1>3, <1>6, <1>9 DEF UpsertQualityState, Typed
  <2>2. Q
    BY <1>3, <2>1 DEF Q, LevelsBacked
  <2>3. QED
    BY <1>5, <2>1, <2>2
<1>10. ASSUME NEW j \in Jobs, ReadState(j) \/ AuditFails(j)
       PROVE Q /\ \A k \in Jobs : P(k)
  <2>1. /\ UNCHANGED qstate /\ pass'[j].at # "act"
        /\ \A k \in Jobs \ {j} : pass'[k] = pass[k]
    BY <1>6, <1>10 DEF ReadState, AuditFails, Typed
  <2>2. QED
    BY <1>4, <1>5, <2>1
<1>11. ASSUME NEW j \in Jobs, Stores(j) PROVE Q /\ \A k \in Jobs : P(k)
  BY <1>4, <1>5, <1>11, StoresRow DEF Stores
<1>12. ASSUME Crash PROVE Q /\ \A k \in Jobs : P(k)
  <2>1. UNCHANGED qstate /\ \A k \in Jobs : pass'[k].at = "dead" \/ pass'[k] = pass[k]
    BY <1>6, <1>12 DEF Crash
  <2>2. QED
    BY <1>4, <1>5, <2>1
<1>13. ASSUME UNCHANGED <<calibration, service>> \/ Slide \/ Reinstate
       PROVE Q /\ \A k \in Jobs : P(k)
  <2>1. UNCHANGED <<qstate, pass>>
    BY <1>13 DEF Slide, Reinstate, service
  <2>2. QED
    BY <1>4, <1>5, <2>1
<1>14. QED
  BY <1>7, <1>8, <1>9, <1>10, <1>11, <1>12, <1>13, StepKinds

\* Only an action on the list suspends.
LEMMA StepSuspension ==
  ASSUME Typed, Typed', LevelsBacked, SuspensionIsCorroborated, [QualityNext]_qualityVars
  PROVE  SuspensionIsCorroborated'
<1>1. \A t : Corroborated(t) => Corroborated(t)'
  BY StepGrows, EvidenceStays
<1>2. SuspensionIsCorroborated <=> (suspended => \E t \in Tenants : Corroborated(t))
  BY DEF SuspensionIsCorroborated, Corroborated
<1>3. SuspensionIsCorroborated' <=> (suspended' => \E t \in Tenants : Corroborated(t)')
  BY DEF SuspensionIsCorroborated, Corroborated
<1>4. ASSUME suspended' => suspended PROVE SuspensionIsCorroborated'
  BY <1>1, <1>2, <1>3, <1>4
<1>5. ASSUME NEW j \in Jobs, Act(j), ~(suspended' => suspended)
      PROVE SuspensionIsCorroborated'
  <2>1. Head(pass[j].due) = "suspend" /\ pass[j].at = "act" /\ pass[j].due # <<>>
    BY <1>5 DEF Act
  <2>2. pass[j].due \in Seq(Actions)
    BY DEF Typed
  <2>3. "suspend" \in Range(pass[j].due)
    BY <2>1, <2>2 DEF Range
  <2>4. Corroborated(Job[j].tenant) /\ Job[j].tenant \in Tenants
    BY <2>1, <2>3, QualityAssumption DEF LevelsBacked
  <2>5. QED
    BY <1>1, <1>3, <2>4
<1>6. ASSUME ~\E j \in Jobs : Act(j) PROVE suspended' => suspended
  BY <1>6, StepKinds DEF Stores, ReadState, Observe, UpsertQualityState, AuditFails,
         Slide, Crash, Reinstate, service
<1>7. QED
  BY <1>4, <1>5, <1>6

\* What is posted is a proven judge's.
LEMMA StepPostsProven ==
  ASSUME Typed, Typed', PostsProven, [QualityNext]_qualityVars
  PROVE  PostsProven'
<1>1. UNCHANGED calibration
  BY StepGrows
<1>2. Proven' <=> Proven
  BY <1>1 DEF Proven
<1> DEFINE P(k) == job'[k].at = "post" /\ Job[k].source = "judge" /\ ~job'[k].obs.failed =>
                     job'[k].obs.score \in 0..10 /\ Proven
<1> SUFFICES \A k \in Jobs : P(k)
  BY <1>2 DEF PostsProven
<1>3. ASSUME NEW k \in Jobs,
             job'[k] = job[k] \/ job'[k].at # "post" \/ Job[k].source # "judge"
      PROVE P(k)
  BY <1>3 DEF PostsProven
<1> HIDE DEF P
<1>4. EndedJob.at = "done"
  BY Records
<1>5. ASSUME NEW j \in Jobs, RunJudge(j) PROVE \A k \in Jobs : P(k)
  <2>1. CASE Ends(j)
    BY <1>3, <1>4, <2>1 DEF Ends, Typed
  <2>2. CASE Posts(j, Null, TRUE)
    <3>1. job'[j].obs.failed /\ \A k \in Jobs \ {j} : job'[k] = job[k]
      BY <2>2 DEF Posts, Typed
    <3>2. QED
      BY <1>3, <3>1 DEF P
  <2>3. ASSUME NEW c \in Completions, JudgeScore(c).outcome = "scored",
               Posts(j, JudgeScore(c).score, FALSE)
        PROVE  \A k \in Jobs : P(k)
    <3>1. JudgeScore(c).score \in 0..10 /\ Proven
      BY <2>3, ScoredIsProven
    <3>2. job'[j].obs.score = JudgeScore(c).score /\ \A k \in Jobs \ {j} : job'[k] = job[k]
      BY <2>3 DEF Posts, Typed
    <3>3. QED
      BY <1>3, <3>1, <3>2 DEF P
  <2>4. QED
    BY <1>5, <2>1, <2>2, <2>3 DEF RunJudge
<1>6. ASSUME NEW j \in Jobs, RunProbe(j) PROVE \A k \in Jobs : P(k)
  BY <1>3, <1>6 DEF RunProbe, Posts, Typed
<1>7. ASSUME NEW j \in Jobs, Ingest(j) PROVE \A k \in Jobs : P(k)
  <2>1. job'[j].at # "post" /\ \A k \in Jobs \ {j} : job'[k] = job[k]
    BY <1>4, <1>7 DEF Ingest, Ends, Typed
  <2>2. QED
    BY <1>3, <2>1
<1>8. ASSUME NEW j \in Jobs, Unsampled(j) \/ PostLost(j) \/ AuditFails(j)
      PROVE \A k \in Jobs : P(k)
  BY <1>3, <1>4, <1>8 DEF Unsampled, PostLost, AuditFails, Ends, Typed
<1>9. ASSUME NEW j \in Jobs, TimesOut(j) PROVE \A k \in Jobs : P(k)
  <2>1. job'[j].at = "post" => Job[j].source # "judge"
    BY <1>9 DEF TimesOut, Typed
  <2>2. \A k \in Jobs \ {j} : job'[k] = job[k]
    BY <1>9 DEF TimesOut, Typed
  <2>3. QED
    BY <1>3, <2>1, <2>2
<1>10. ASSUME NEW j \in Jobs, UpsertQualityState(j) PROVE \A k \in Jobs : P(k)
  BY <1>3, <1>4, <1>10 DEF UpsertQualityState, Typed
<1>11. ASSUME Crash PROVE \A k \in Jobs : P(k)
  BY <1>3, <1>4, <1>11 DEF Crash
<1>12. ASSUME UNCHANGED job PROVE \A k \in Jobs : P(k)
  BY <1>3, <1>12
<1>13. QED
  BY <1>5, <1>6, <1>7, <1>8, <1>9, <1>10, <1>11, <1>12 DEF QualityNext, Produce,
         Enforce, ReadState, Observe, Act, Slide, Reinstate, qualityVars

LEMMA StepJudgeConditions ==
  ASSUME Typed, Typed', PostsProven, JudgeConditionsAreSilent, [QualityNext]_qualityVars
  PROVE  JudgeConditionsAreSilent'
<1>1. UNCHANGED calibration
  BY StepGrows
<1>2. JudgeConditionsAreSilent <=>
        \A i \in DOMAIN rows : (Job[rows[i].id].source = "judge" /\ ~rows[i].obs.failed) =>
                               rows[i].obs.score \in 0..10 /\ Proven
  BY DEF JudgeConditionsAreSilent, Proven
<1>3. JudgeConditionsAreSilent' <=>
        \A i \in DOMAIN rows' : (Job[rows'[i].id].source = "judge" /\ ~rows'[i].obs.failed) =>
                                rows'[i].obs.score \in 0..10 /\ Proven
  BY <1>1 DEF JudgeConditionsAreSilent, Proven
<1>4. ASSUME NEW j \in Jobs, Stores(j) PROVE JudgeConditionsAreSilent'
  <2> DEFINE n == Len(rows) + 1
  <2>1. /\ n - 1 \in Nat /\ DOMAIN rows = 1..(n - 1) /\ DOMAIN rows' = 1..n
        /\ \A i \in 1..(n - 1) : rows'[i] = rows[i]
        /\ rows'[n] = [id |-> j, obs |-> job[j].obs]
    BY <1>4, StoresRow
  <2> HIDE DEF n
  <2>2. Job[j].source = "judge" /\ ~job[j].obs.failed => job[j].obs.score \in 0..10 /\ Proven
    BY <1>4 DEF PostsProven, Stores
  <2>3. \A i \in DOMAIN rows' : i = n \/ i \in DOMAIN rows
    <3>1. n \in Nat
      BY <2>1 DEF n
    <3>2. QED
      BY <2>1, <3>1
  <2>4. ASSUME NEW i \in DOMAIN rows', Job[rows'[i].id].source = "judge",
               ~rows'[i].obs.failed
        PROVE  rows'[i].obs.score \in 0..10 /\ Proven
    <3>1. CASE i = n
      BY <2>1, <2>2, <2>4, <3>1
    <3>2. CASE i \in DOMAIN rows
      BY <1>2, <2>1, <2>4, <3>2
    <3>3. QED
      BY <2>3, <3>1, <3>2
  <2>5. QED
    BY <1>3, <2>4
<1>5. CASE UNCHANGED rows
  BY <1>2, <1>3, <1>5
<1>6. QED
  BY <1>4, <1>5, StepKinds DEF ReadState, Observe, Act, UpsertQualityState,
         AuditFails, Slide, Crash, Reinstate, service

-----------------------------------------------------------------------------
(* Streaks.                                                                *)

\* The streak at a row is the one before it, with the row if its probe failed,
\* and nothing if its probe passed.
LEMMA StreakExtends ==
  ASSUME Typed, NEW t, NEW p \in DOMAIN rows, Job[rows[p].id].tenant = t
  PROVE  Cardinality(StreakAt(t, p)) =
           IF Job[rows[p].id].source # "probe" THEN Cardinality(StreakAt(t, p - 1))
           ELSE IF rows[p].obs.failed THEN Cardinality(StreakAt(t, p - 1)) + 1 ELSE 0
<1>1. /\ Len(rows) \in Nat /\ DOMAIN rows = 1..Len(rows) /\ p \in 1..Len(rows)
      /\ ProbeRows(t) \in SUBSET DOMAIN rows
  BY RowSets DEF Typed, ProbeRows
<1>2. p \in Int /\ \A i \in ProbeRows(t) : i \in Int
  BY <1>1
<1>3. rows[p].id \in Jobs
  BY ScoreRowType
<1>4. IsFiniteSet(StreakAt(t, p - 1))
  <2>1. StreakAt(t, p - 1) \in SUBSET DOMAIN rows
    BY <1>1 DEF StreakAt
  <2>2. QED
    BY <2>1, RowSets, FS_Subset
<1>5. CASE Job[rows[p].id].source # "probe"
  <2>1. p \notin ProbeRows(t)
    BY <1>5 DEF ProbeRows
  <2>2. \A i \in ProbeRows(t) : i <= p <=> i <= p - 1
    BY <1>2, <2>1
  <2>3. StreakAt(t, p) = StreakAt(t, p - 1)
    BY <2>2, Zenon DEF StreakAt
  <2>4. QED
    BY <1>5, <2>3
<1>6. CASE Job[rows[p].id].source = "probe"
  <2>1. p \in ProbeRows(t)
    BY <1>1, <1>3, <1>6, QualityAssumption DEF ProbeRows, Past, Route
  <2>2. \A i \in ProbeRows(t) : i <= p <=> i <= p - 1 \/ i = p
    BY <1>2
  <2>3. CASE ~rows[p].obs.failed
    <3>1. StreakAt(t, p) = {}
      <4>1. ASSUME NEW i \in StreakAt(t, p) PROVE FALSE
        <5>1. i <= p /\ p <= p
          BY <1>2, <4>1 DEF StreakAt
        <5>2. rows[p].obs.failed
          BY <2>1, <4>1, <5>1 DEF StreakAt
        <5>3. QED
          BY <2>3, <5>2
      <4>2. QED
        BY <4>1
    <3>2. QED
      BY <1>6, <2>3, <3>1, FS_EmptySet
  <2>4. CASE rows[p].obs.failed
    <3>1. StreakAt(t, p) = StreakAt(t, p - 1) \cup {p}
      <4>1. ASSUME NEW i \in StreakAt(t, p), i # p PROVE i \in StreakAt(t, p - 1)
        BY <2>2, <4>1 DEF StreakAt
      <4>2. ASSUME NEW i \in StreakAt(t, p - 1) PROVE i \in StreakAt(t, p)
        BY <2>2, <2>4, <4>2 DEF StreakAt
      <4>3. p \in StreakAt(t, p)
        <5>1. \A k \in ProbeRows(t) : p <= k /\ k <= p => k = p
          BY <1>2
        <5>2. p <= p
          BY <1>2
        <5>3. QED
          BY <2>1, <2>4, <5>1, <5>2 DEF StreakAt
      <4>4. QED
        BY <4>1, <4>2, <4>3
    <3>2. p \notin StreakAt(t, p - 1)
      BY <1>2 DEF StreakAt
    <3>3. QED
      BY <1>4, <1>6, <2>4, <3>1, <3>2, FS_AddElement
  <2>5. QED
    BY <2>3, <2>4
<1>7. QED
  BY <1>5, <1>6

\* Where the lane has no later row, its streak is the one at the row.
LEMMA StreakAtLast ==
  ASSUME Typed, NEW t, NEW p \in DOMAIN rows,
         \A i \in DOMAIN rows : i > p => Job[rows[i].id].tenant # t
  PROVE  StreakAt(t, Len(rows)) = StreakAt(t, p)
<1>1. /\ Len(rows) \in Nat /\ DOMAIN rows = 1..Len(rows) /\ ProbeRows(t) \in SUBSET DOMAIN rows
  BY RowSets DEF Typed, ProbeRows
<1>2. \A i \in ProbeRows(t) : Job[rows[i].id].tenant = t
  BY DEF ProbeRows, Past
<1>3. \A i \in ProbeRows(t) : i <= Len(rows) /\ i <= p
  BY <1>1, <1>2
<1>4. QED
  BY <1>3, Zenon DEF StreakAt

\* The streak StreakIsExact is about.
LEMMA TrailingIsStreak ==
  ASSUME Typed, NEW t
  PROVE  Trailing(t) = Cardinality(StreakAt(t, Len(rows)))
<1>1. /\ Len(rows) \in Nat /\ DOMAIN rows = 1..Len(rows) /\ ProbeRows(t) \in SUBSET DOMAIN rows
  BY RowSets DEF Typed, ProbeRows
<1>2. \A i \in ProbeRows(t) : i \in Int /\ i <= Len(rows)
  BY <1>1
<1>3. \A i, k \in ProbeRows(t) : k >= i <=> i <= k /\ k <= Len(rows)
  BY <1>2
<1>4. {i \in ProbeRows(t) : \A k \in ProbeRows(t) : k >= i => rows[k].obs.failed} = StreakAt(t, Len(rows))
  BY <1>2, <1>3, Zenon DEF StreakAt
<1>5. QED
  BY <1>4 DEF Trailing, ProbeRows

\* A row that is added changes no streak before it, and none of another lane.
LEMMA StreakOfOthers ==
  ASSUME Typed, Typed', NEW j \in Jobs, Stores(j), NEW t
  PROVE  /\ \A n \in 0..Len(rows) : StreakAt(t, n)' = StreakAt(t, n)
         /\ Job[j].tenant # t => StreakAt(t, Len(rows))' = StreakAt(t, Len(rows))
<1> DEFINE N == Len(rows)
<1>1. /\ N \in Nat /\ Len(rows') = N + 1
      /\ DOMAIN rows = 1..N /\ DOMAIN rows' = 1..(N + 1)
      /\ \A i \in 1..N : rows'[i] = rows[i]
      /\ rows'[N + 1] = [id |-> j, obs |-> job[j].obs]
  BY StoresRow
<1> HIDE DEF N
<1>2. DOMAIN rows \subseteq DOMAIN rows' /\ \A i \in DOMAIN rows' : i = N + 1 \/ i \in DOMAIN rows
  BY <1>1
<1>3. /\ ProbeRows(t) \subseteq ProbeRows(t)'
      /\ \A i \in ProbeRows(t)' : i = N + 1 \/ i \in ProbeRows(t)
      /\ Job[j].tenant # t => N + 1 \notin ProbeRows(t)'
  BY <1>1, <1>2 DEF ProbeRows, Past, Route
<1>4. \A i \in ProbeRows(t) : i \in 1..N /\ rows'[i] = rows[i]
  BY <1>1, RowSets DEF ProbeRows
<1>5. ASSUME NEW n \in 0..N PROVE StreakAt(t, n)' = StreakAt(t, n)
  <2>1. ~(N + 1 <= n) /\ n' = n
    BY <1>1
  <2>2. QED
    BY <1>3, <1>4, <2>1 DEF StreakAt
<1>6. ASSUME Job[j].tenant # t PROVE StreakAt(t, Len(rows))' = StreakAt(t, N)
  <2>1. ProbeRows(t)' = ProbeRows(t)
    BY <1>3, <1>6
  <2>2. \A i \in ProbeRows(t) : i <= N /\ i <= Len(rows)'
    BY <1>1, <1>4
  <2>3. QED
    BY <1>4, <2>1, <2>2 DEF StreakAt
<1>7. QED
  BY <1>5, <1>6 DEF N

\* A lane whose passes stay where they are, with what they carry, stays as it is.
LEMMA AloneStays ==
  ASSUME Typed, NEW t \in Tenants, Alone(t), UNCHANGED rows, Busy(t)' = Busy(t),
         qstate'[t].fails = qstate[t].fails,
         \A j \in Busy(t) : pass'[j].at = pass[j].at /\ pass'[j].fails = pass[j].fails
  PROVE  Alone(t)'
<1>1. \A n : StreakAt(t, n)' = StreakAt(t, n)
  <2>1. ProbeRows(t)' = ProbeRows(t)
    BY DEF ProbeRows, Past, Route
  <2>2. QED
    BY <2>1 DEF StreakAt
<1>2. QED
  BY <1>1 DEF Alone

\* The rows of a lane of its own do not move when another lane stores one.
LEMMA StoresAlone ==
  ASSUME Typed, Typed', StoredOnce, Sequential, NEW j \in Jobs, Stores(j),
         NEW t \in Tenants \ raced'
  PROVE  Alone(t)'
<1> DEFINE N == Len(rows)
           u == Job[j].tenant
<1>1. /\ N \in Nat /\ Len(rows') = N + 1
      /\ DOMAIN rows = 1..N /\ DOMAIN rows' = 1..(N + 1)
      /\ \A i \in 1..N : rows'[i] = rows[i]
      /\ rows'[N + 1] = [id |-> j, obs |-> job[j].obs]
      /\ pass'[j].at = "read" /\ \A k \in Jobs \ {j} : pass'[k] = pass[k]
  BY StoresRow
<1>2. pass[j].at = "none" /\ \A p \in DOMAIN rows : rows[p].id # j
  BY DEF Stores, StoredOnce, Stored
<1>3. /\ Alone(t) /\ qstate' = qstate
      /\ u = t => Busy(t) = {}
  BY DEF Sequential, Stores
<1>4. /\ \A n \in 0..N : StreakAt(t, n)' = StreakAt(t, n)
      /\ u # t => StreakAt(t, Len(rows))' = StreakAt(t, N)
  BY StreakOfOthers
<1>5. Busy(t)' = IF u = t THEN {j} ELSE Busy(t)
  <2>1. \A k \in Jobs \ {j} : k \in Busy(t)' <=> k \in Busy(t)
    BY <1>1 DEF Busy
  <2>2. j \in Busy(t)' <=> u = t
    BY <1>1 DEF Busy
  <2>3. j \notin Busy(t) /\ Busy(t) \subseteq Jobs /\ Busy(t)' \subseteq Jobs
    BY <1>2 DEF Busy
  <2> HIDE DEF u
  <2>4. QED
    BY <1>3, <2>1, <2>2, <2>3
<1> HIDE DEF N
<1>6. N \in 0..N /\ N + 1 \in DOMAIN rows' /\ (N + 1) - 1 = N /\ \A p \in DOMAIN rows' : p = N + 1 \/ p \in DOMAIN rows
  BY <1>1
<1>7. CASE u = t
  <2>1. ASSUME NEW k \in Busy(t)', NEW p \in DOMAIN rows', rows'[p].id = k
        PROVE p = N + 1 /\ k = j
    BY <1>1, <1>2, <1>5, <1>6, <1>7, <2>1
  <2>2. qstate[t].fails = Cardinality(StreakAt(t, N))
    BY <1>3, <1>7 DEF Alone, N
  <2>3. \A i \in DOMAIN rows' : ~(i > N + 1)
    BY <1>1
  <2>4. Busy(t)' # {} /\ \A k, l \in Busy(t)' : k = l
    BY <1>5, <1>7
  <2>5. ASSUME NEW k \in Busy(t)', NEW p \in DOMAIN rows', rows'[p].id = k
        PROVE  /\ \A i \in DOMAIN rows' : i > p => Job[rows'[i].id].tenant # t
               /\ pass'[k].at = "read" /\ qstate'[t].fails = Cardinality(StreakAt(t, p - 1)')
    <3>1. p = N + 1 /\ k = j
      BY <2>1, <2>5
    <3>2. p - 1 = N /\ p - 1 \in 0..N
      BY <1>1, <3>1
    <3>3. StreakAt(t, p - 1)' = StreakAt(t, N)
      BY <1>4, <3>2
    <3>4. QED
      BY <1>1, <1>3, <2>2, <2>3, <3>1, <3>3
  <2>6. QED
    BY <2>4, <2>5 DEF Alone
<1>8. CASE u # t
  <2>1. Busy(t)' = Busy(t) /\ \A k \in Busy(t) : pass'[k] = pass[k] /\ k # j /\ k \in Jobs
    BY <1>1, <1>2, <1>5, <1>8 DEF Busy
  <2>2. Cardinality(StreakAt(t, Len(rows))') = Cardinality(StreakAt(t, N))
    BY <1>4, <1>8
  <2>3. ASSUME NEW k \in Busy(t)', NEW p \in DOMAIN rows', rows'[p].id = k
        PROVE  /\ p \in 1..N /\ rows[p].id = k /\ k \in Busy(t)
               /\ StreakAt(t, p - 1)' = StreakAt(t, p - 1)
    <3>1. p # N + 1
      BY <1>1, <2>1, <2>3
    <3>2. p \in 1..N /\ rows[p].id = k
      BY <1>1, <2>3, <3>1
    <3>3. p - 1 \in 0..N
      BY <1>1, <3>2
    <3>4. QED
      BY <1>4, <2>1, <2>3, <3>2, <3>3
  <2>4. ASSUME NEW k \in Busy(t)', NEW p \in DOMAIN rows', rows'[p].id = k
        PROVE  /\ \A i \in DOMAIN rows' : i > p => Job[rows'[i].id].tenant # t
               /\ pass'[k].at = "read" => qstate'[t].fails = Cardinality(StreakAt(t, p - 1)')
               /\ pass'[k].at = "observe" => pass'[k].fails = Cardinality(StreakAt(t, p - 1)')
               /\ pass'[k].at = "act" => pass'[k].fails = Cardinality(StreakAt(t, Len(rows))')
    <3>1. /\ p \in 1..N /\ rows[p].id = k /\ k \in Busy(t)
          /\ StreakAt(t, p - 1)' = StreakAt(t, p - 1)
      BY <2>3, <2>4
    <3>2. /\ \A i \in DOMAIN rows : i > p => Job[rows[i].id].tenant # t
          /\ pass[k].at = "read" => qstate[t].fails = Cardinality(StreakAt(t, p - 1))
          /\ pass[k].at = "observe" => pass[k].fails = Cardinality(StreakAt(t, p - 1))
          /\ pass[k].at = "act" => pass[k].fails = Cardinality(StreakAt(t, N))
      BY <1>1, <1>3, <3>1 DEF Alone, N
    <3>3. \A i \in DOMAIN rows' : i > p => Job[rows'[i].id].tenant # t
      BY <1>1, <1>6, <1>8, <3>2
    <3>4. QED
      BY <1>3, <2>1, <2>2, <3>1, <3>2, <3>3
  <2>5. Busy(t)' = {} => qstate'[t].fails = Cardinality(StreakAt(t, Len(rows))')
    BY <1>3, <2>1, <2>2 DEF Alone, N
  <2>6. \A k, l \in Busy(t)' : k = l
    BY <1>3, <2>1 DEF Alone
  <2>7. QED
    BY <2>4, <2>5, <2>6 DEF Alone
<1>9. QED
  BY <1>7, <1>8

\* The pass of the last row finds the streak before it and makes the one at it.
LEMMA ObservesAlone ==
  ASSUME Typed, Typed', StoredOnce, NEW j \in Jobs, Alone(Job[j].tenant), Observe(j)
  PROVE  Alone(Job[j].tenant)'
<1> DEFINE t == Job[j].tenant
           p == RowOf(j)
<1>1. pass[j].at = "observe" /\ j \in Busy(t)
  BY DEF Observe, Busy
<1>2. p \in DOMAIN rows /\ rows[p].id = j
  BY <1>1, RowOfStored
<1>3. /\ \A i \in DOMAIN rows : i > p => Job[rows[i].id].tenant # t
      /\ pass[j].fails = Cardinality(StreakAt(t, p - 1))
      /\ \A k \in Busy(t) : k = j
  BY <1>1, <1>2 DEF Alone
<1>4. Streak(j) = Cardinality(StreakAt(t, Len(rows)))
  <2>1. StreakAt(t, Len(rows)) = StreakAt(t, p)
    BY <1>2, <1>3, StreakAtLast
  <2>2. Cardinality(StreakAt(t, p)) =
          IF Job[j].source # "probe" THEN pass[j].fails
          ELSE IF rows[p].obs.failed THEN pass[j].fails + 1 ELSE 0
    BY <1>2, <1>3, StreakExtends
  <2>3. QED
    BY <2>1, <2>2 DEF Streak
<1>5. /\ UNCHANGED <<rows, qstate>> /\ pass'[j].at = "act" /\ pass'[j].fails = Streak(j)
      /\ \A k \in Jobs \ {j} : pass'[k] = pass[k]
  BY DEF Observe, Typed
<1>6. Busy(t)' = {j}
  BY <1>1, <1>3, <1>5 DEF Busy
<1>7. StreakAt(t, Len(rows))' = StreakAt(t, Len(rows))
  BY <1>5 DEF StreakAt, ProbeRows, Past, Route
<1> HIDE DEF t
<1>8. ASSUME NEW i \in DOMAIN rows', NEW q \in DOMAIN rows', rows'[q].id = j, i > q
      PROVE  Job[rows'[i].id].tenant # t
  <2>1. q = p
    BY <1>2, <1>5, <1>8 DEF StoredOnce
  <2>2. QED
    BY <1>3, <1>5, <1>8, <2>1
<1>9. Alone(t)'
  BY <1>4, <1>5, <1>6, <1>7, <1>8 DEF Alone
<1>10. QED
  BY <1>9 DEF t

LEMMA StepSequential ==
  ASSUME Typed, Typed', StoredOnce, Sequential, [QualityNext]_qualityVars
  PROVE  Sequential'
<1> SUFFICES ASSUME NEW t \in Tenants \ raced' PROVE Alone(t)'
  BY DEF Sequential
<1>1. \A at \in {"done", "dead"} : Over(at).at = at
  BY Records
<1>2. raced \subseteq raced'
  BY StepKinds DEF Stores, ReadState, Observe, Act, UpsertQualityState, AuditFails,
         Slide, Crash, Reinstate, service
<1>3. Alone(t)
  BY <1>2 DEF Sequential
<1>4. ASSUME NEW j \in Jobs, UNCHANGED <<rows, qstate>>, Job[j].tenant # t,
             \A k \in Jobs \ {j} : pass'[k] = pass[k]
      PROVE  Alone(t)'
  <2>1. Busy(t)' = Busy(t) /\ \A k \in Busy(t) : pass'[k] = pass[k]
    BY <1>4 DEF Busy
  <2>2. QED
    BY <1>3, <1>4, <2>1, AloneStays
<1>5. ASSUME UNCHANGED <<rows, qstate, pass>> PROVE Alone(t)'
  <2>1. Busy(t)' = Busy(t)
    BY <1>5 DEF Busy
  <2>2. QED
    BY <1>3, <1>5, <2>1, AloneStays
<1>6. ASSUME NEW j \in Jobs, ReadState(j) PROVE Alone(t)'
  <2>1. /\ UNCHANGED <<rows, qstate>> /\ pass[j].at = "read" /\ pass'[j].at = "observe"
        /\ pass'[j].fails = qstate[Job[j].tenant].fails
        /\ \A k \in Jobs \ {j} : pass'[k] = pass[k]
    BY <1>6 DEF ReadState, Typed
  <2>2. CASE Job[j].tenant = t
    <3>1. j \in Busy(t) /\ \A k \in Busy(t) : k = j
      BY <1>3, <2>1, <2>2 DEF Busy, Alone
    <3>2. Busy(t)' = {j}
      BY <2>1, <2>2, <3>1 DEF Busy
    <3>3. \A n : StreakAt(t, n)' = StreakAt(t, n)
      BY <2>1 DEF StreakAt, ProbeRows, Past, Route
    <3>4. \A p \in DOMAIN rows : rows[p].id = j =>
            /\ \A i \in DOMAIN rows : i > p => Job[rows[i].id].tenant # t
            /\ pass'[j].fails = Cardinality(StreakAt(t, p - 1))
      BY <1>3, <2>1, <2>2, <3>1 DEF Alone
    <3>5. QED
      BY <2>1, <3>2, <3>3, <3>4 DEF Alone
  <2>3. QED
    BY <1>4, <2>1, <2>2
<1>7. ASSUME NEW j \in Jobs, Observe(j) PROVE Alone(t)'
  <2>1. /\ UNCHANGED <<rows, qstate>> /\ \A k \in Jobs \ {j} : pass'[k] = pass[k]
    BY <1>7 DEF Observe, Typed
  <2>2. QED
    BY <1>3, <1>4, <1>7, <2>1, ObservesAlone
<1>8. ASSUME NEW j \in Jobs, Act(j) PROVE Alone(t)'
  <2>1. /\ UNCHANGED <<rows, qstate>> /\ pass'[j].at = pass[j].at /\ pass'[j].fails = pass[j].fails
        /\ \A k \in Jobs \ {j} : pass'[k] = pass[k]
    BY <1>8 DEF Act, Typed
  <2>2. Busy(t)' = Busy(t) /\ \A k \in Busy(t) : pass'[k].at = pass[k].at /\ pass'[k].fails = pass[k].fails
    BY <2>1 DEF Busy
  <2>3. QED
    BY <1>3, <2>1, <2>2, AloneStays
<1>9. ASSUME NEW j \in Jobs, UpsertQualityState(j) PROVE Alone(t)'
  <2>1. /\ UNCHANGED rows /\ pass[j].at = "act" /\ pass'[j].at = "done"
        /\ \A k \in Jobs \ {j} : pass'[k] = pass[k]
        /\ Job[j].tenant = t => qstate'[t].fails = pass[j].fails
        /\ Job[j].tenant # t => qstate'[t] = qstate[t]
    BY <1>1, <1>9, QualityAssumption DEF UpsertQualityState, Typed
  <2>2. CASE Job[j].tenant = t
    <3>1. j \in Busy(t) /\ \A k \in Busy(t) : k = j
      BY <1>3, <2>1, <2>2 DEF Busy, Alone
    <3>2. Busy(t)' = {}
      BY <2>1, <3>1 DEF Busy
    <3>3. \E p \in DOMAIN rows : rows[p].id = j
      BY <2>1, RowOfStored
    <3>4. pass[j].fails = Cardinality(StreakAt(t, Len(rows)))
      BY <1>3, <2>1, <3>1, <3>3 DEF Alone
    <3>5. StreakAt(t, Len(rows))' = StreakAt(t, Len(rows))
      BY <2>1 DEF StreakAt, ProbeRows, Past, Route
    <3>6. QED
      BY <2>1, <2>2, <3>2, <3>4, <3>5 DEF Alone
  <2>3. CASE Job[j].tenant # t
    <3>1. Busy(t)' = Busy(t) /\ \A k \in Busy(t) : pass'[k] = pass[k]
      BY <2>1, <2>3 DEF Busy
    <3>2. QED
      BY <1>3, <2>1, <2>3, <3>1, AloneStays
  <2>4. QED
    BY <2>2, <2>3
<1>10. ASSUME NEW j \in Jobs, AuditFails(j) PROVE Alone(t)'
  BY <1>4, <1>10 DEF AuditFails, Typed
<1>11. ASSUME Crash PROVE Alone(t)'
  <2>1. Busy(t) = {} /\ UNCHANGED <<rows, qstate>>
    BY <1>11 DEF Crash, Busy
  <2>2. \A k \in Jobs : pass'[k].at = "dead" \/ pass'[k] = pass[k]
    BY <1>1, <1>11 DEF Crash
  <2>3. Busy(t)' = {}
    BY <2>1, <2>2 DEF Busy
  <2>4. QED
    BY <1>3, <2>1, <2>3, AloneStays
<1>12. ASSUME NEW j \in Jobs, Stores(j) PROVE Alone(t)'
  BY <1>12, StoresAlone
<1>13. QED
  BY <1>5, <1>6, <1>7, <1>8, <1>9, <1>10, <1>11, <1>12, StepKinds DEF Slide,
         Reinstate, service

-----------------------------------------------------------------------------
(* The theorems.                                                           *)

LEMMA InitInv == QualityInit => QualityInv
<1> SUFFICES ASSUME QualityInit PROVE QualityInv
  OBVIOUS
<1>1. Typed
  BY InitTyped
<1>2. DOMAIN rows = {} /\ Len(rows) = 0
  BY DEF QualityInit
<1>3. /\ \A j \in Jobs : pass[j].at = "none"
      /\ \A t \in Tenants : qstate[t].level = "ok" /\ qstate[t].fails = 0
  BY DEF QualityInit, NoPass
<1>4. StoredOnce
  BY <1>2, <1>3 DEF StoredOnce, Stored
<1>5. FailsBacked
  BY <1>1, <1>3, RowSets DEF FailsBacked
<1>6. LevelsBacked /\ SuspensionIsCorroborated
  BY <1>3 DEF LevelsBacked, Backed, SuspensionIsCorroborated, QualityInit
<1>7. PostsProven /\ JudgeConditionsAreSilent
  <2>1. \A j \in Jobs : job[j].at # "post"
    BY Records DEF QualityInit
  <2>2. QED
    BY <1>2, <2>1 DEF PostsProven, JudgeConditionsAreSilent
<1>8. Sequential
  <2>1. \A t : Busy(t) = {}
    BY <1>3 DEF Busy
  <2>2. \A t, n : StreakAt(t, n) = {}
    BY <1>2 DEF StreakAt, ProbeRows, Past
  <2>3. QED
    BY <1>2, <1>3, <2>1, <2>2, FS_EmptySet DEF Sequential, Alone
<1>9. QED
  BY <1>1, <1>4, <1>5, <1>6, <1>7, <1>8 DEF QualityInv

LEMMA StepInv == QualityInv /\ [QualityNext]_qualityVars => QualityInv'
<1> SUFFICES ASSUME QualityInv, [QualityNext]_qualityVars PROVE QualityInv'
  OBVIOUS
<1>1. Typed'
  BY StepTyped DEF QualityInv
<1>2. StoredOnce' /\ FailsBacked' /\ LevelsBacked' /\ SuspensionIsCorroborated'
  BY <1>1, StepStoredOnce, StepFailsBacked, StepLevelsBacked, StepSuspension
     DEF QualityInv
<1>3. PostsProven' /\ JudgeConditionsAreSilent' /\ Sequential'
  BY <1>1, StepPostsProven, StepJudgeConditions, StepSequential DEF QualityInv
<1>4. QED
  BY <1>1, <1>2, <1>3 DEF QualityInv

LEMMA InvImplies == QualityInv => EnforcementIsEarned /\ EvidenceIsTrue
<1> SUFFICES ASSUME QualityInv PROVE EnforcementIsEarned /\ EvidenceIsTrue
  OBVIOUS
<1>1. Typed
  BY DEF QualityInv
<1>2. QualityTypeOK
  <2>1. \A j \in Jobs : job[j].obs \in Observations
    BY <1>1 DEF Typed
  <2>2. QED
    BY <1>1, <2>1 DEF QualityTypeOK, Typed, QualityInv, StoredOnce, Observations
<1>3. FreezeIsEarned
  <2> SUFFICES ASSUME NEW t \in Tenants, NEW slo \in {Slo, SloDefault}, Frozen(t, slo)
               PROVE Evidence(t)
    BY DEF FreezeIsEarned, Evidence
  <2>1. CASE ComputeBudget(t, slo).state = "exhausted"
    BY <1>1, <2>1, BudgetEvidence DEF Evidence
  <2>2. CASE Order(qstate[t].level) > Order("exhausted")
    <3>1. qstate[t].level \in Rungs
      BY <1>1 DEF Typed
    <3>2. qstate[t].level \in {"severe", "floor"}
      BY <2>2, <3>1, RungOrder
    <3>3. QED
      BY <3>2 DEF QualityInv, LevelsBacked, Backed
  <2>3. QED
    BY <2>1, <2>2 DEF Frozen
<1>4. StreakIsExact
  BY <1>1, TrailingIsStreak DEF StreakIsExact, QualityInv, Sequential, Alone
<1>5. QED
  BY <1>2, <1>3, <1>4 DEF EnforcementIsEarned, EvidenceIsTrue, QualityInv

THEOREM QualityInvariant == QualitySpec => []QualityInv
BY InitInv, StepInv, PTL DEF QualitySpec

\* The agent is suspended only after probes of one tenant failed often enough, each
\* counted once whatever was retried; a lane is frozen only on evidence of its own.
THEOREM EnforcementEarned == QualitySpec => []EnforcementIsEarned
BY QualityInvariant, InvImplies, PTL

\* No condition of the judge is an observation, and where passes do not overlap
\* the stored streak is the number of probes that failed in a row.
THEOREM EvidenceTrue == QualitySpec => []EvidenceIsTrue
BY QualityInvariant, InvImplies, PTL
=============================================================================
