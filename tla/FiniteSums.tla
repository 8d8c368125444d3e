----------------------------- MODULE FiniteSums -----------------------------
(***************************************************************************)
(* What the proofs need of sums over finite sets: SumFunctionOnSet adds up *)
(* the values of a function in any order, is monotonic, and is at least    *)
(* the number of its terms times a lower bound of them.                    *)
(***************************************************************************)
EXTENDS Integers, FiniteSets, Functions, FiniteSetTheorems, WellFoundedInduction, TLAPS

\* A nonempty set of subsets of a finite set has a smallest one.
LEMMA SmallestSet ==
  ASSUME NEW S, IsFiniteSet(S), NEW B \in SUBSET SUBSET S, B # {}
  PROVE  \E T \in B : \A U \in B : U \subseteq T => U = T
<1> DEFINE R == StrictSubsetOrdering(S)
<1>1. IsWellFoundedOn(R, FiniteSubsetsOf(S))
  BY FS_StrictSubsetOrderingWellFounded
<1>2. B \subseteq FiniteSubsetsOf(S)
  BY FS_Subset DEF FiniteSubsetsOf
<1>3. PICK T \in B : \A U \in B : ~(<<U, T>> \in R)
  <2> HIDE DEF R
  <2> QED BY <1>1, <1>2, WFMin
<1>4. ASSUME NEW U \in B, U \subseteq T, U # T PROVE FALSE
  <2>1. <<U, T>> \in R
    BY <1>4 DEF StrictSubsetOrdering
  <2> HIDE DEF R
  <2>2. QED
    BY <1>3, <2>1
<1>5. QED
  BY <1>4

-----------------------------------------------------------------------------
(* SumFunctionOnSet iterates over a set in the order CHOOSE gives.         *)

Choice(s) == CHOOSE x \in s : TRUE
IsIteration(g, f, S) == g = [s \in SUBSET S |->
                        IF s = {} THEN 0 ELSE f[Choice(s)] + g[s \ {Choice(s)}]]

\* The fold behind SumFunctionOnSet, unfolded.
LEMMA SumIsIteration == ASSUME NEW f, NEW S PROVE SumFunctionOnSet(f, S) = (CHOOSE g : IsIteration(g, f, S))[S]
  BY DEF SumFunctionOnSet, FoldFunctionOnSet, MapThenFoldSet, IsIteration, Choice

\* Iterations over a set and over one of its subsets agree on the subset.
LEMMA IterationsAgree ==
  ASSUME NEW f, NEW S, IsFiniteSet(S), NEW T \in SUBSET S, NEW g, NEW h,
         IsIteration(g, f, S), IsIteration(h, f, T)
  PROVE  g[T] = h[T]
<1> DEFINE B == {U \in SUBSET T : g[U] # h[U]}
<1> SUFFICES ASSUME B # {} PROVE FALSE
  OBVIOUS
<1>1. B \in SUBSET SUBSET T /\ IsFiniteSet(T)
  BY FS_Subset
<1>2. PICK U \in B : \A V \in B : V \subseteq U => V = U
  <2> HIDE DEF B
  <2> QED BY <1>1, SmallestSet
<1>3. /\ g[U] = IF U = {} THEN 0 ELSE f[Choice(U)] + g[U \ {Choice(U)}]
      /\ h[U] = IF U = {} THEN 0 ELSE f[Choice(U)] + h[U \ {Choice(U)}]
  BY Zenon DEF IsIteration
<1>4. U # {}
  BY <1>3
<1>5. Choice(U) \in U
  BY <1>4 DEF Choice
<1>6. g[U \ {Choice(U)}] = h[U \ {Choice(U)}]
  BY <1>2, <1>5
<1>7. QED
  BY <1>3, <1>6

\* There is an iteration over every finite set.
LEMMA IterationExists ==
  ASSUME NEW f, NEW S, IsFiniteSet(S) PROVE \E g : IsIteration(g, f, S)
<1> DEFINE B == {T \in SUBSET S : ~\E g : IsIteration(g, f, T)}
<1> SUFFICES ASSUME B # {} PROVE FALSE
  OBVIOUS
<1>1. PICK T \in B : \A U \in B : U \subseteq T => U = T
  <2>1. B \in SUBSET SUBSET S
    OBVIOUS
  <2> HIDE DEF B
  <2> QED BY <2>1, SmallestSet
<1>2. ASSUME NEW U \in SUBSET T, U # T PROVE IsIteration(CHOOSE g : IsIteration(g, f, U), f, U)
  <2>1. \E g : IsIteration(g, f, U)
    BY <1>1, <1>2
  <2>2. QED
    BY <2>1
<1> DEFINE val(U) == IF U = {} THEN 0 ELSE f[Choice(U)] + SumFunctionOnSet(f, U \ {Choice(U)})
           h == [U \in SUBSET T |-> val(U)]
<1>3. ASSUME NEW U \in SUBSET T, U # T PROVE SumFunctionOnSet(f, U) = val(U)
  <2> DEFINE g == CHOOSE g : IsIteration(g, f, U)
  <2>1. SumFunctionOnSet(f, U) = g[U] /\ IsIteration(g, f, U)
    BY <1>2, <1>3, SumIsIteration
  <2> HIDE DEF g
  <2>2. g[U] = IF U = {} THEN 0 ELSE f[Choice(U)] + g[U \ {Choice(U)}]
    BY <2>1, Zenon DEF IsIteration
  <2>3. CASE U = {}
    BY <2>1, <2>2, <2>3
  <2>4. CASE U # {}
    <3> DEFINE V == U \ {Choice(U)}
    <3>1. Choice(U) \in U
      BY <2>4 DEF Choice
    <3>2. V \in SUBSET U /\ V \in SUBSET T /\ V # T
      BY <1>3, <3>1
    <3> DEFINE k == CHOOSE k : IsIteration(k, f, V)
    <3>3. SumFunctionOnSet(f, V) = k[V] /\ IsIteration(k, f, V)
      BY <1>2, <3>2, SumIsIteration
    <3>4. IsFiniteSet(U)
      BY <1>1, FS_Subset
    <3> HIDE DEF k
    <3>5. g[V] = k[V]
      BY <2>1, <3>2, <3>3, <3>4, IterationsAgree
    <3>6. QED
      BY <2>1, <2>2, <2>4, <3>3, <3>5
  <2>5. QED
    BY <2>3, <2>4
<1>4. ASSUME NEW U \in SUBSET T
      PROVE  h[U] = IF U = {} THEN 0 ELSE f[Choice(U)] + h[U \ {Choice(U)}]
  <2>1. CASE U = {}
    BY <2>1
  <2>2. CASE U # {}
    <3> DEFINE V == U \ {Choice(U)}
    <3>1. Choice(U) \in U
      BY <2>2 DEF Choice
    <3>2. V \in SUBSET T /\ V # T
      BY <3>1
    <3>3. h[V] = SumFunctionOnSet(f, V)
      BY <1>3, <3>2
    <3>4. QED
      BY <2>2, <3>3
  <2>3. QED
    BY <2>1, <2>2
<1>5. h = [U \in SUBSET T |-> IF U = {} THEN 0 ELSE f[Choice(U)] + h[U \ {Choice(U)}]]
  <2>1. \A U \in SUBSET T : h[U] = IF U = {} THEN 0 ELSE f[Choice(U)] + h[U \ {Choice(U)}]
    BY <1>4
  <2>2. h = [U \in SUBSET T |-> h[U]]
    OBVIOUS
  <2> HIDE DEF h
  <2>3. QED
    BY <2>1, <2>2, Zenon
<1> HIDE DEF h
<1>6. IsIteration(h, f, T)
  BY <1>5 DEF IsIteration
<1>7. QED
  BY <1>1, <1>6

\* A sum is the chosen element's term and the sum over the others.
LEMMA SumChoice ==
  ASSUME NEW f, NEW S, IsFiniteSet(S)
  PROVE  SumFunctionOnSet(f, S) = IF S = {} THEN 0 ELSE f[Choice(S)] + SumFunctionOnSet(f, S \ {Choice(S)})
<1> DEFINE g == CHOOSE g : IsIteration(g, f, S)
<1>1. SumFunctionOnSet(f, S) = g[S] /\ IsIteration(g, f, S)
  <2>1. \E k : IsIteration(k, f, S)
    BY IterationExists
  <2>2. QED
    BY <2>1, SumIsIteration
<1> HIDE DEF g
<1>2. g[S] = IF S = {} THEN 0 ELSE f[Choice(S)] + g[S \ {Choice(S)}]
  BY <1>1, Zenon DEF IsIteration
<1>3. CASE S = {}
  BY <1>1, <1>2, <1>3
<1>4. CASE S # {}
  <2> DEFINE V == S \ {Choice(S)}
             k == CHOOSE k : IsIteration(k, f, V)
  <2>1. V \in SUBSET S /\ IsFiniteSet(V)
    BY FS_Subset
  <2>2. SumFunctionOnSet(f, V) = k[V] /\ IsIteration(k, f, V)
    <3>1. \E h : IsIteration(h, f, V)
      BY <2>1, IterationExists
    <3>2. QED
      BY <3>1, SumIsIteration
  <2> HIDE DEF k
  <2>3. g[V] = k[V]
    BY <1>1, <2>1, <2>2, IterationsAgree
  <2>4. QED
    BY <1>1, <1>2, <1>4, <2>2, <2>3
<1>5. QED
  BY <1>3, <1>4

-----------------------------------------------------------------------------
(* Sums.                                                                   *)

\* The sum of naturals is a natural, and empty sums are 0.
LEMMA SumType ==
  ASSUME NEW f, NEW S, IsFiniteSet(S), \A x \in S : f[x] \in Nat
  PROVE  SumFunctionOnSet(f, S) \in Nat /\ (S = {} => SumFunctionOnSet(f, S) = 0)
<1> DEFINE B == {T \in SUBSET S : SumFunctionOnSet(f, T) \notin Nat}
<1>1. S = {} => SumFunctionOnSet(f, S) = 0
  BY SumChoice
<1>2. ASSUME B # {} PROVE FALSE
  <2>1. PICK T \in B : \A U \in B : U \subseteq T => U = T
    <3>1. B \in SUBSET SUBSET S
      OBVIOUS
    <3> HIDE DEF B
    <3> QED BY <1>2, <3>1, SmallestSet
  <2>2. IsFiniteSet(T)
    BY FS_Subset
  <2>3. SumFunctionOnSet(f, T) = IF T = {} THEN 0 ELSE f[Choice(T)] + SumFunctionOnSet(f, T \ {Choice(T)})
    BY <2>2, SumChoice
  <2>4. T # {}
    BY <2>1, <2>3
  <2>5. Choice(T) \in T /\ f[Choice(T)] \in Nat
    BY <2>4 DEF Choice
  <2>6. SumFunctionOnSet(f, T \ {Choice(T)}) \in Nat
    BY <2>1, <2>5
  <2>7. QED
    BY <2>1, <2>3, <2>4, <2>5, <2>6
<1>3. QED
  BY <1>1, <1>2

\* Any element may be taken out of a sum.
LEMMA SumRemove ==
  ASSUME NEW f, NEW S, IsFiniteSet(S), \A x \in S : f[x] \in Nat, NEW e \in S
  PROVE  SumFunctionOnSet(f, S) = f[e] + SumFunctionOnSet(f, S \ {e})
<1> DEFINE B == {T \in SUBSET S : \E x \in T : SumFunctionOnSet(f, T) # f[x] + SumFunctionOnSet(f, T \ {x})}
<1> SUFFICES ASSUME B # {} PROVE FALSE
  BY DEF B
<1>1. PICK T \in B : \A U \in B : U \subseteq T => U = T
  <2>1. B \in SUBSET SUBSET S
    OBVIOUS
  <2> HIDE DEF B
  <2> QED BY <2>1, SmallestSet
<1>2. PICK x \in T : SumFunctionOnSet(f, T) # f[x] + SumFunctionOnSet(f, T \ {x})
  BY <1>1
<1> DEFINE p == Choice(T)
<1>3. p \in T
  BY <1>2 DEF Choice
<1>4. SumFunctionOnSet(f, T) = f[p] + SumFunctionOnSet(f, T \ {p})
  <2>1. IsFiniteSet(T)
    BY FS_Subset
  <2>2. QED
    BY <1>2, <2>1, SumChoice
<1> HIDE DEF p
<1>5. p # x
  BY <1>2, <1>4
<1> DEFINE W == T \ {p, x}
<1>6. ASSUME NEW U \in SUBSET T, U # T, NEW y \in U
      PROVE  SumFunctionOnSet(f, U) = f[y] + SumFunctionOnSet(f, U \ {y})
  BY <1>1, <1>6
<1>7. /\ SumFunctionOnSet(f, T \ {p}) = f[x] + SumFunctionOnSet(f, (T \ {p}) \ {x})
      /\ SumFunctionOnSet(f, T \ {x}) = f[p] + SumFunctionOnSet(f, (T \ {x}) \ {p})
  <2>1. T \ {p} \in SUBSET T /\ T \ {p} # T /\ x \in T \ {p}
    BY <1>2, <1>3, <1>5
  <2>2. T \ {x} \in SUBSET T /\ T \ {x} # T /\ p \in T \ {x}
    BY <1>2, <1>3, <1>5
  <2> HIDE DEF B
  <2>3. QED
    BY <1>6, <2>1, <2>2
<1>8. (T \ {p}) \ {x} = W /\ (T \ {x}) \ {p} = W
  OBVIOUS
<1>9. f[p] \in Nat /\ f[x] \in Nat /\ SumFunctionOnSet(f, W) \in Nat
  <2>1. W \in SUBSET S /\ IsFiniteSet(W)
    BY FS_Subset
  <2> HIDE DEF W
  <2>2. QED
    BY <1>2, <1>3, <2>1, SumType
<1> HIDE DEF W
<1>10. SumFunctionOnSet(f, T) = f[x] + SumFunctionOnSet(f, T \ {x})
  BY <1>4, <1>7, <1>8, <1>9
<1>11. QED
  BY <1>2, <1>10

\* A sum grows by the element that is added to its set.
LEMMA SumAdd ==
  ASSUME NEW f, NEW S, IsFiniteSet(S), NEW e, e \notin S, \A x \in S \cup {e} : f[x] \in Nat
  PROVE  SumFunctionOnSet(f, S \cup {e}) = f[e] + SumFunctionOnSet(f, S)
<1>1. IsFiniteSet(S \cup {e}) /\ (S \cup {e}) \ {e} = S
  BY FS_AddElement
<1>2. QED
  BY <1>1, SumRemove, e \in S \cup {e}

\* A sum is monotonic in its terms.
LEMMA SumMonotonic ==
  ASSUME NEW f, NEW h, NEW S, IsFiniteSet(S), 
         \A x \in S : f[x] \in Nat /\ h[x] \in Nat /\ f[x] <= h[x]
  PROVE  SumFunctionOnSet(f, S) <= SumFunctionOnSet(h, S)
<1> DEFINE B == {T \in SUBSET S : ~(SumFunctionOnSet(f, T) <= SumFunctionOnSet(h, T))}
<1> SUFFICES ASSUME B # {} PROVE FALSE
  OBVIOUS
<1>1. PICK T \in B : \A U \in B : U \subseteq T => U = T
  <2>1. B \in SUBSET SUBSET S
    OBVIOUS
  <2> HIDE DEF B
  <2> QED BY <2>1, SmallestSet
<1>2. IsFiniteSet(T) /\ T \in SUBSET S
  BY FS_Subset
<1>3. /\ SumFunctionOnSet(f, T) \in Nat /\ SumFunctionOnSet(h, T) \in Nat
      /\ T = {} => SumFunctionOnSet(f, T) = 0 /\ SumFunctionOnSet(h, T) = 0
  BY <1>2, SumType
<1>4. PICK x \in T : TRUE
  BY <1>1, <1>3
<1> DEFINE V == T \ {x}
<1>5. V \in SUBSET S /\ IsFiniteSet(V) /\ V \subseteq T /\ V # T
  BY <1>2, <1>4, FS_Subset
<1>6. SumFunctionOnSet(f, T) = f[x] + SumFunctionOnSet(f, V) /\ SumFunctionOnSet(h, T) = h[x] + SumFunctionOnSet(h, V)
  BY <1>2, <1>4, SumRemove
<1>7. SumFunctionOnSet(f, V) <= SumFunctionOnSet(h, V)
  BY <1>1, <1>5
<1> HIDE DEF V
<1>8. SumFunctionOnSet(f, V) \in Nat /\ SumFunctionOnSet(h, V) \in Nat
  BY <1>5, SumType
<1>9. f[x] \in Nat /\ h[x] \in Nat /\ f[x] <= h[x]
  BY <1>2, <1>4
<1>10. QED
  BY <1>1, <1>6, <1>7, <1>8, <1>9

\* Terms that agree on a set have the same sum over it.
LEMMA SumSame ==
  ASSUME NEW f, NEW h, NEW S, IsFiniteSet(S), \A x \in S : f[x] \in Nat /\ f[x] = h[x]
  PROVE  SumFunctionOnSet(f, S) = SumFunctionOnSet(h, S)
<1>1. SumFunctionOnSet(f, S) <= SumFunctionOnSet(h, S) /\ SumFunctionOnSet(h, S) <= SumFunctionOnSet(f, S)
  BY SumMonotonic
<1>2. SumFunctionOnSet(f, S) \in Nat /\ SumFunctionOnSet(h, S) \in Nat
  BY SumType
<1>3. QED
  BY <1>1, <1>2

\* A sum splits at any subset.
LEMMA SumSplit ==
  ASSUME NEW f, NEW S, IsFiniteSet(S), \A x \in S : f[x] \in Nat, NEW D \in SUBSET S
  PROVE  SumFunctionOnSet(f, S) = SumFunctionOnSet(f, D) + SumFunctionOnSet(f, S \ D)
<1> DEFINE B == {T \in SUBSET S :
                   SumFunctionOnSet(f, S) # SumFunctionOnSet(f, T) + SumFunctionOnSet(f, S \ T)}
<1> SUFFICES ASSUME B # {} PROVE FALSE
  OBVIOUS
<1>1. PICK T \in B : \A U \in B : U \subseteq T => U = T
  <2>1. B \in SUBSET SUBSET S
    OBVIOUS
  <2> HIDE DEF B
  <2> QED BY <2>1, SmallestSet
<1>2. T \in SUBSET S /\ IsFiniteSet(T)
  BY FS_Subset
<1>3. PICK x \in T : TRUE
  <2>1. ASSUME T = {} PROVE FALSE
    <3>1. SumFunctionOnSet(f, T) = 0 /\ SumFunctionOnSet(f, S) \in Nat /\ S \ T = S
      BY <1>2, <2>1, SumType
    <3>2. SumFunctionOnSet(f, S \ T) = SumFunctionOnSet(f, S)
      BY <3>1
    <3>3. QED
      BY <1>1, <3>1, <3>2
  <2>2. QED
    BY <2>1
<1> DEFINE U == T \ {x}
<1>4. U \in SUBSET S /\ IsFiniteSet(U) /\ U \subseteq T /\ U # T
  BY <1>2, <1>3, FS_Subset
<1>5. SumFunctionOnSet(f, S) = SumFunctionOnSet(f, U) + SumFunctionOnSet(f, S \ U)
  BY <1>1, <1>4
<1>6. SumFunctionOnSet(f, T) = f[x] + SumFunctionOnSet(f, U)
  BY <1>2, <1>3, SumRemove
<1>7. SumFunctionOnSet(f, S \ U) = f[x] + SumFunctionOnSet(f, S \ T)
  <2>1. S \ U \in SUBSET S /\ IsFiniteSet(S \ U) /\ x \in S \ U /\ (S \ U) \ {x} = S \ T
    BY <1>2, <1>3, FS_Subset
  <2>2. \A y \in S \ U : f[y] \in Nat
    OBVIOUS
  <2> HIDE DEF U
  <2>3. QED
    BY <2>1, <2>2, SumRemove
<1>8. /\ SumFunctionOnSet(f, U) \in Nat /\ SumFunctionOnSet(f, S \ T) \in Nat /\ f[x] \in Nat
  <2>1. S \ T \in SUBSET S /\ IsFiniteSet(S \ T)
    BY FS_Subset
  <2>2. \A y \in S \ T : f[y] \in Nat
    OBVIOUS
  <2>3. SumFunctionOnSet(f, S \ T) \in Nat
    BY <2>1, <2>2, SumType
  <2>4. SumFunctionOnSet(f, U) \in Nat
    BY <1>4, SumType
  <2>5. QED
    BY <1>2, <1>3, <2>3, <2>4
<1> HIDE DEF U
<1>9. SumFunctionOnSet(f, S) = SumFunctionOnSet(f, T) + SumFunctionOnSet(f, S \ T)
  BY <1>5, <1>6, <1>7, <1>8
<1>10. QED
  BY <1>1, <1>9


\* A sum is at least as many times a lower bound as it has terms.
LEMMA SumAtLeast ==
  ASSUME NEW f, NEW S, IsFiniteSet(S), NEW c \in Int, \A x \in S : f[x] \in Nat /\ c <= f[x]
  PROVE  Cardinality(S) * c <= SumFunctionOnSet(f, S)
<1> DEFINE B == {T \in SUBSET S : ~(Cardinality(T) * c <= SumFunctionOnSet(f, T))}
<1> SUFFICES ASSUME B # {} PROVE FALSE
  OBVIOUS
<1>1. PICK T \in B : \A U \in B : U \subseteq T => U = T
  <2>1. B \in SUBSET SUBSET S
    OBVIOUS
  <2> HIDE DEF B
  <2> QED BY <2>1, SmallestSet
<1>2. IsFiniteSet(T) /\ T \in SUBSET S
  BY FS_Subset
<1>3. T # {}
  BY <1>2, SumType, FS_EmptySet
<1>4. PICK x \in T : TRUE
  BY <1>3
<1> DEFINE V == T \ {x}
<1>5. V \in SUBSET S /\ IsFiniteSet(V) /\ V \subseteq T /\ V # T
  BY <1>2, <1>4, FS_Subset
<1>6. SumFunctionOnSet(f, T) = f[x] + SumFunctionOnSet(f, V)
  BY <1>2, <1>4, SumRemove
<1>7. Cardinality(V) * c <= SumFunctionOnSet(f, V)
  BY <1>1, <1>5
<1>8. Cardinality(T) = Cardinality(V) + 1 /\ Cardinality(V) \in Nat
  BY <1>2, <1>4, <1>5, FS_RemoveElement, FS_CardinalityType
<1> HIDE DEF V
<1>9. SumFunctionOnSet(f, V) \in Nat /\ f[x] \in Nat /\ c <= f[x]
  BY <1>2, <1>4, <1>5, SumType
<1>10. Cardinality(T) * c = Cardinality(V) * c + c
  BY <1>8
<1>11. Cardinality(V) * c \in Int
  BY <1>8
<1>12. QED
  BY <1>1, <1>6, <1>7, <1>9, <1>10, <1>11
=============================================================================
