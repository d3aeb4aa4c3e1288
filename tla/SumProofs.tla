----------------------------- MODULE SumProofs -----------------------------
(***************************************************************************)
(* Sums over finite sets of natural numbers, SumFunctionOnSet of the       *)
(* community modules: what one element more or less changes.  The sum is   *)
(* computed by a recursive function; it is shown once that it counts a     *)
(* set of tallies, f[x] of them for each x, and the rest is cardinalities. *)
(***************************************************************************)
EXTENDS Functions, Integers, FiniteSetTheorems, TLAPS

\* f[x] tallies for each x.
Tallies(f, x) == {x} \X (1 .. f[x])

AllTallies(f, S) == UNION {Tallies(f, x) : x \in S}

\* The tallies of one element are as many as f[x].
LEMMA TalliesOfOne ==
    ASSUME NEW f, NEW x, f[x] \in Nat
    PROVE  IsFiniteSet(Tallies(f, x)) /\ Cardinality(Tallies(f, x)) = f[x]
<1>1. PICK n \in Nat : n = f[x]
  OBVIOUS
<1>2. IsFiniteSet(1 .. n) /\ Cardinality(1 .. n) = n
  BY FS_Interval
<1>3. PICK I : I = 1 .. n
  OBVIOUS
<1>4. PICK X : X = {x}
  OBVIOUS
<1>5. IsFiniteSet(X) /\ Cardinality(X) = 1
  BY <1>4, FS_Singleton, Zenon
<1>6. IsFiniteSet(I) /\ Cardinality(I) = n
  BY <1>2, <1>3
<1>7. IsFiniteSet(X \X I) /\ Cardinality(X \X I) = Cardinality(X) * Cardinality(I)
  BY <1>5, <1>6, FS_Product
<1>8. Tallies(f, x) = X \X I
  BY <1>1, <1>3, <1>4 DEF Tallies
<1>9. QED
  BY <1>1, <1>5, <1>6, <1>7, <1>8

\* Finitely many elements have finitely many tallies.
LEMMA TalliesFinite ==
    ASSUME NEW f, NEW S, IsFiniteSet(S), \A x \in S : f[x] \in Nat
    PROVE  IsFiniteSet(AllTallies(f, S))
<1>1. PICK T : T = {Tallies(f, x) : x \in S}
  OBVIOUS
<1>2. PICK g : g = [x \in S |-> Tallies(f, x)]
  OBVIOUS
<1>3. g \in Surjection(S, T)
  BY <1>1, <1>2 DEF Surjection
<1>4. IsFiniteSet(T)
  BY <1>3, FS_Surjection
<1>5. \A t \in T : IsFiniteSet(t)
  BY <1>1, TalliesOfOne
<1>6. QED
  BY <1>1, <1>4, <1>5, FS_UNION DEF AllTallies

\* One element more adds its tallies to the others.
LEMMA TalliesAdd ==
    ASSUME NEW f, NEW S, IsFiniteSet(S), NEW x, x \notin S,
           \A y \in S \cup {x} : f[y] \in Nat
    PROVE  Cardinality(AllTallies(f, S \cup {x})) = Cardinality(AllTallies(f, S)) + f[x]
<1>1. PICK A, B : A = AllTallies(f, S) /\ B = Tallies(f, x)
  OBVIOUS
<1>2. IsFiniteSet(A) /\ IsFiniteSet(B) /\ Cardinality(B) = f[x]
  BY <1>1, TalliesFinite, TalliesOfOne
<1>3. A \cap B = {}
  BY <1>1 DEF AllTallies, Tallies
<1>4. Cardinality(A \cup B) = Cardinality(A) + Cardinality(B) - Cardinality(A \cap B)
  BY <1>2, FS_Union
<1>5. AllTallies(f, S \cup {x}) = A \cup B
  BY <1>1 DEF AllTallies
<1>6. Cardinality(A \cap B) = 0
  BY <1>3, FS_EmptySet
<1>7. PICK n \in Nat : n = Cardinality(A)
  BY <1>2, FS_CardinalityType
<1>8. PICK m \in Nat : m = f[x]
  OBVIOUS
<1>9. Cardinality(A \cup B) = n + m
  BY <1>2, <1>4, <1>6, <1>7, <1>8
<1>10. QED
  BY <1>1, <1>5, <1>7, <1>8, <1>9

\* The element the sum takes next.
First(s) == CHOOSE x \in s : TRUE

\* The equation the sum over the subsets of S is the solution of.
SumEquation(f, S, h) ==
    h = [s \in SUBSET S |-> IF s = {} THEN 0
                            ELSE LET x == First(s) IN f[x] + h[s \ {x}]]

\* Counting tallies solves it.
LEMMA CountingSolves ==
    ASSUME NEW f, NEW S, IsFiniteSet(S), \A x \in S : f[x] \in Nat,
           NEW g, g = [s \in SUBSET S |-> Cardinality(AllTallies(f, s))]
    PROVE  SumEquation(f, S, g)
<1>1. ASSUME NEW s \in SUBSET S
      PROVE  g[s] = IF s = {} THEN 0
                    ELSE LET x == First(s) IN f[x] + g[s \ {x}]
  <2>1. CASE s = {}
    BY <2>1, FS_EmptySet DEF AllTallies
  <2>2. CASE s # {}
    <3>1. PICK x \in s : x = First(s)
      BY <2>2 DEF First
    <3>2. PICK t : t = s \ {x}
      OBVIOUS
    <3>3. IsFiniteSet(t) /\ t \in SUBSET S /\ s = t \cup {x} /\ x \notin t
      BY <3>1, <3>2, FS_Subset
    <3>4. Cardinality(AllTallies(f, s)) = Cardinality(AllTallies(f, t)) + f[x]
      BY <3>3, TalliesAdd
    <3>5. Cardinality(AllTallies(f, t)) \in Nat
      BY <3>3, TalliesFinite, FS_CardinalityType
    <3>6. g[s] = f[x] + g[t]
      BY <3>3, <3>4, <3>5
    <3>7. QED
      BY <2>2, <3>1, <3>2, <3>6
  <2>3. QED
    BY <2>1, <2>2
<1>2. QED
  BY <1>1 DEF SumEquation

\* Nothing else does: a smallest set on which two solutions differ is not
\* empty, and without its first element they already differ.
LEMMA SolutionIsUnique ==
    ASSUME NEW f, NEW S, IsFiniteSet(S), NEW g, NEW h,
           SumEquation(f, S, g), SumEquation(f, S, h)
    PROVE  g = h
<1>1. PICK D : D = {s \in SUBSET S : g[s] # h[s]}
  OBVIOUS
<1>2. CASE D # {}
  <2>1. PICK R, F : R = StrictSubsetOrdering(S) /\ F = FiniteSubsetsOf(S)
    OBVIOUS
  <2>2. IsWellFoundedOn(R, F) /\ F = SUBSET S
    BY <2>1, FS_StrictSubsetOrderingWellFounded, FS_FiniteSubsetsOfFinite
  <2>3. PICK s \in D : \A t \in D : <<t, s>> \notin R
    BY <1>1, <1>2, <2>2, WFMin
  <2>4. s # {}
    BY <1>1, <2>3 DEF SumEquation
  <2>5. PICK x \in s : x = First(s)
    BY <2>4 DEF First
  <2>6. PICK t : t = s \ {x}
    OBVIOUS
  <2>7. t \in SUBSET S /\ t \subseteq s /\ t # s
    BY <1>1, <2>3, <2>5, <2>6
  <2>8. g[t] = h[t]
    BY <1>1, <2>1, <2>3, <2>7 DEF StrictSubsetOrdering
  <2>9. g[s] = f[x] + g[t] /\ h[s] = f[x] + h[t]
    BY <1>1, <2>3, <2>4, <2>5, <2>6 DEF SumEquation
  <2>10. QED
    BY <1>1, <2>3, <2>8, <2>9
<1>3. CASE D = {}
  BY <1>1, <1>3 DEF SumEquation
<1>4. QED
  BY <1>2, <1>3

\* The sum of naturals over a finite set is how many tallies there are.
LEMMA SumCounts ==
    ASSUME NEW f, NEW S, IsFiniteSet(S), \A x \in S : f[x] \in Nat
    PROVE  SumFunctionOnSet(f, S) = Cardinality(AllTallies(f, S))
<1>1. PICK g : g = [s \in SUBSET S |-> Cardinality(AllTallies(f, s))]
  OBVIOUS
<1>2. SumEquation(f, S, g)
  BY <1>1, CountingSolves
<1>3. PICK h : h = CHOOSE k : SumEquation(f, S, k)
  OBVIOUS
<1>4. SumEquation(f, S, h)
  BY <1>2, <1>3, Zenon
<1>5. g = h
  BY <1>2, <1>4, SolutionIsUnique
<1>6. SumFunctionOnSet(f, S) = h[S]
  BY <1>3 DEF SumFunctionOnSet, FoldFunctionOnSet, MapThenFoldSet, SumEquation, First
<1>7. QED
  BY <1>1, <1>5, <1>6

-----------------------------------------------------------------------------
(* What the modules that sum rely on.                                      *)

LEMMA SumType ==
    ASSUME NEW f, NEW S, IsFiniteSet(S), \A x \in S : f[x] \in Nat
    PROVE  SumFunctionOnSet(f, S) \in Nat
BY SumCounts, TalliesFinite, FS_CardinalityType

LEMMA SumEmpty ==
    ASSUME NEW f
    PROVE  SumFunctionOnSet(f, {}) = 0
<1>1. SumFunctionOnSet(f, {}) = Cardinality(AllTallies(f, {}))
  BY SumCounts, FS_EmptySet
<1>2. AllTallies(f, {}) = {}
  BY DEF AllTallies
<1>3. QED
  BY <1>1, <1>2, FS_EmptySet

\* One element more adds its value.
LEMMA SumAdd ==
    ASSUME NEW f, NEW S, IsFiniteSet(S), NEW x, x \notin S,
           \A y \in S \cup {x} : f[y] \in Nat
    PROVE  SumFunctionOnSet(f, S \cup {x}) = SumFunctionOnSet(f, S) + f[x]
<1>1. IsFiniteSet(S \cup {x})
  BY FS_AddElement
<1>2. SumFunctionOnSet(f, S \cup {x}) = Cardinality(AllTallies(f, S \cup {x}))
  BY <1>1, SumCounts
<1>3. SumFunctionOnSet(f, S) = Cardinality(AllTallies(f, S))
  BY SumCounts
<1>4. QED
  BY <1>2, <1>3, TalliesAdd

\* One element less takes its value away.
LEMMA SumRemove ==
    ASSUME NEW f, NEW S, IsFiniteSet(S), \A y \in S : f[y] \in Nat, NEW x \in S
    PROVE  /\ SumFunctionOnSet(f, S) = SumFunctionOnSet(f, S \ {x}) + f[x]
           /\ SumFunctionOnSet(f, S \ {x}) \in Nat
<1>1. PICK t : t = S \ {x}
  OBVIOUS
<1>2. IsFiniteSet(t) /\ x \notin t /\ S = t \cup {x}
  BY <1>1, FS_RemoveElement
<1>3. SumFunctionOnSet(f, t \cup {x}) = SumFunctionOnSet(f, t) + f[x]
  BY <1>2, SumAdd
<1>4. SumFunctionOnSet(f, t) \in Nat
  BY <1>2, SumType
<1>5. QED
  BY <1>1, <1>2, <1>3, <1>4

\* Fewer elements sum to no more.
LEMMA SumSubset ==
    ASSUME NEW f, NEW S, IsFiniteSet(S), \A x \in S : f[x] \in Nat, NEW T \in SUBSET S
    PROVE  /\ SumFunctionOnSet(f, S) \in Nat
           /\ SumFunctionOnSet(f, T) <= SumFunctionOnSet(f, S)
<1>1. PICK A, B : A = AllTallies(f, S) /\ B = AllTallies(f, T)
  OBVIOUS
<1>2. IsFiniteSet(A) /\ B \in SUBSET A
  BY <1>1, TalliesFinite DEF AllTallies
<1>3. Cardinality(A) \in Nat /\ Cardinality(B) <= Cardinality(A)
  BY <1>2, FS_Subset, FS_CardinalityType
<1>4. IsFiniteSet(T) /\ \A x \in T : f[x] \in Nat
  BY FS_Subset
<1>5. SumFunctionOnSet(f, S) = Cardinality(A) /\ SumFunctionOnSet(f, T) = Cardinality(B)
  BY <1>1, <1>4, SumCounts
<1>6. QED
  BY <1>3, <1>5

\* Only the values on the set count.
LEMMA SumSame ==
    ASSUME NEW f, NEW g, NEW S, IsFiniteSet(S), \A x \in S : f[x] \in Nat,
           \A x \in S : f[x] = g[x]
    PROVE  SumFunctionOnSet(f, S) = SumFunctionOnSet(g, S)
<1>1. AllTallies(f, S) = AllTallies(g, S)
  BY DEF AllTallies, Tallies
<1>2. QED
  BY <1>1, SumCounts
=============================================================================
