---------------------------- MODULE SumTheorems ----------------------------
(***************************************************************************)
(* Facts about SumFunctionOnSet, the sum of a function over a finite set. *)
(* The fold takes the elements out in an order nobody knows; what a proof *)
(* needs is that any element may be taken out first, and how the sum moves *)
(* when the function changes at one element.                               *)
(***************************************************************************)
EXTENDS Functions, FiniteSetTheorems, WellFoundedInduction, TLAPS

(***************************************************************************)
(* Induction.                                                              *)
(***************************************************************************)

\* Every set of naturals has a least element.
LEMMA LeastNatural ==
  ASSUME NEW S \in SUBSET Nat, S # {}
  PROVE  \E n \in S : \A m \in S : n <= m
<1> DEFINE Less == {p \in Nat \X Nat : p[1] < p[2]}
<1>1. Less = OpToRel(<, Nat)
  BY DEF OpToRel
<1>2. IsWellFoundedOn(Less, Nat)
  BY <1>1, NatLessThanWellFounded
<1>3. PICK n \in S : \A m \in S : ~(<<m, n>> \in Less)
  <2> HIDE DEF Less
  <2> QED
    BY <1>2, WFMin
<1>4. ASSUME NEW m \in S
      PROVE  n <= m
  <2>1. m \in Nat /\ n \in Nat
    OBVIOUS
  <2>2. ~(m < n)
    <3> SUFFICES ASSUME m < n PROVE FALSE
      OBVIOUS
    <3>1. <<m, n>> \in Less
      BY <2>1
    <3> QED
      BY <1>3, <3>1
  <2> QED
    BY <2>1, <2>2
<1> QED
  BY <1>4

\* A finite set is in Good if every subset is that has all its smaller
\* subsets, those one element short, in Good.
LEMMA SubsetInduction ==
  ASSUME NEW S, IsFiniteSet(S), NEW Good,
         \A T \in SUBSET S : (\A x \in T : T \ {x} \in Good) => T \in Good
  PROVE  \A T \in SUBSET S : T \in Good
<1> DEFINE Bad == {n \in Nat : \E T \in SUBSET S : T \notin Good /\ Cardinality(T) = n}
<1>0. SUFFICES ASSUME NEW B \in SUBSET S, B \notin Good
              PROVE  FALSE
  OBVIOUS
<1>1. Cardinality(B) \in Bad
  BY <1>0, FS_Subset, FS_CardinalityType
<1>2. PICK n \in Bad : \A m \in Bad : n <= m
  <2>1. Bad \in SUBSET Nat /\ Bad # {}
    BY <1>1
  <2> HIDE DEF Bad
  <2> QED
    BY <2>1, LeastNatural
<1>3. PICK T \in SUBSET S : T \notin Good /\ Cardinality(T) = n
  OBVIOUS
<1>4. ASSUME NEW x \in T
      PROVE  T \ {x} \in Good
  <2>1. IsFiniteSet(T)
    BY FS_Subset
  <2>2. Cardinality(T \ {x}) = n - 1 /\ IsFiniteSet(T \ {x})
    BY <1>3, <2>1, FS_RemoveElement
  <2>3. n - 1 \in Nat
    BY <2>2, FS_CardinalityType
  <2>4. n - 1 \notin Bad
    BY <1>2, <2>3
  <2> QED
    BY <2>2, <2>3, <2>4
<1> QED
  BY <1>3, <1>4

-----------------------------------------------------------------------------
(***************************************************************************)
(* The fold's recursive function exists.                                   *)
(***************************************************************************)

Chosen(s) == CHOOSE x \in s : TRUE

\* The function on the subsets of S that the fold is defined by, and what it
\* says at one subset.
Unfolds(f, g, s) == g[s] = IF s = {} THEN 0 ELSE f[Chosen(s)] + g[s \ {Chosen(s)}]

SumRecursion(f, S) ==
  CHOOSE g : g = [s \in SUBSET S |->
                   IF s = {} THEN 0 ELSE f[Chosen(s)] + g[s \ {Chosen(s)}]]

LEMMA SumIsRecursion ==
  ASSUME NEW f, NEW S
  PROVE  SumFunctionOnSet(f, S) = SumRecursion(f, S)[S]
  BY DEF SumFunctionOnSet, FoldFunctionOnSet, MapThenFoldSet, SumRecursion, Chosen

LEMMA ChosenIn ==
  ASSUME NEW s, s # {}
  PROVE  Chosen(s) \in s
  BY DEF Chosen

\* Level by level, in the size of the subsets, there is such a function.
LEMMA RecursionUpTo ==
  ASSUME NEW f, NEW S, IsFiniteSet(S), NEW n \in Nat
  PROVE  \E g : \A s \in SUBSET S : Cardinality(s) <= n => Unfolds(f, g, s)
<1> DEFINE Fits(g, k) == \A s \in SUBSET S : Cardinality(s) <= k => Unfolds(f, g, s)
           Bad == {k \in Nat : ~ \E g : Fits(g, k)}
<1>0. SUFFICES ASSUME n \in Bad
              PROVE  FALSE
  OBVIOUS
<1>1. PICK k \in Bad : \A m \in Bad : k <= m
  <2>1. Bad \in SUBSET Nat /\ Bad # {}
    BY <1>0
  <2> HIDE DEF Bad
  <2> QED
    BY <2>1, LeastNatural
<1>2. \E g : Fits(g, k)
  <2>1. CASE k = 0
    <3> DEFINE h == [s \in SUBSET S |-> 0]
    <3>1. ASSUME NEW s \in SUBSET S, Cardinality(s) <= 0
          PROVE  Unfolds(f, h, s)
      <4>1. IsFiniteSet(s) /\ Cardinality(s) \in Nat
        BY FS_Subset, FS_CardinalityType
      <4>2. Cardinality(s) = 0
        BY <3>1, <4>1
      <4>3. s = {}
        BY <4>1, <4>2, FS_EmptySet
      <4> QED
        BY <4>3 DEF Unfolds
    <3> QED
      BY <2>1, <3>1
  <2>2. CASE k # 0
    <3>1. k - 1 \in Nat /\ k - 1 \notin Bad
      BY <1>1, <2>2
    <3>2. PICK g : Fits(g, k - 1)
      BY <3>1
    <3> DEFINE h == [s \in SUBSET S |->
                      IF s = {} THEN 0 ELSE f[Chosen(s)] + g[s \ {Chosen(s)}]]
    <3>3. ASSUME NEW s \in SUBSET S, Cardinality(s) <= k
          PROVE  Unfolds(f, h, s)
      <4>1. CASE s = {}
        BY <4>1 DEF Unfolds
      <4>2. CASE s # {}
        <5> DEFINE t == s \ {Chosen(s)}
        <5>1. t \in SUBSET S
          OBVIOUS
        <5>2. IsFiniteSet(s)
          BY FS_Subset
        <5>3. Cardinality(t) = Cardinality(s) - 1 /\ Cardinality(s) \in Nat
          BY <4>2, <5>2, ChosenIn, FS_RemoveElement, FS_CardinalityType
        <5>4. Cardinality(t) <= k - 1
          <6> HIDE DEF t
          <6> QED
            BY <3>3, <5>3
        <5>5. g[t] = IF t = {} THEN 0 ELSE f[Chosen(t)] + g[t \ {Chosen(t)}]
          <6> HIDE DEF t
          <6> QED
            BY <3>2, <5>1, <5>4 DEF Unfolds
        <5>6. h[t] = g[t]
          BY <5>1, <5>5
        <5>7. h[s] = f[Chosen(s)] + g[t]
          BY <4>2
        <5>8. h[s] = f[Chosen(s)] + h[t]
          BY <5>6, <5>7
        <5> QED
          BY <4>2, <5>8 DEF Unfolds
      <4> QED
        BY <4>1, <4>2
    <3> HIDE DEF h
    <3> QED
      BY <3>3
  <2> HIDE DEF Fits, Bad
  <2> QED
    BY <2>1, <2>2
<1> HIDE DEF Fits
<1> QED
  BY <1>2

LEMMA RecursionUnfolds ==
  ASSUME NEW f, NEW S, IsFiniteSet(S), NEW s \in SUBSET S
  PROVE  Unfolds(f, SumRecursion(f, S), s)
<1> DEFINE Makes(g) == g = [t \in SUBSET S |->
                             IF t = {} THEN 0 ELSE f[Chosen(t)] + g[t \ {Chosen(t)}]]
<1>1. Cardinality(S) \in Nat
  BY FS_CardinalityType
<1>2. PICK g : \A t \in SUBSET S : Cardinality(t) <= Cardinality(S) => Unfolds(f, g, t)
  BY <1>1, RecursionUpTo
<1>3. \A t \in SUBSET S : Unfolds(f, g, t)
  BY <1>2, FS_Subset
<1> DEFINE h == [t \in SUBSET S |-> g[t]]
<1>4. \A t \in SUBSET S : t \ {Chosen(t)} \in SUBSET S
  OBVIOUS
<1>5. h = [t \in SUBSET S |-> IF t = {} THEN 0 ELSE f[Chosen(t)] + h[t \ {Chosen(t)}]]
  BY <1>3, <1>4 DEF Unfolds
<1>6. \E r : Makes(r)
  <2> HIDE DEF h
  <2> QED
    BY <1>5
<1>7. Makes(SumRecursion(f, S))
  BY <1>6 DEF SumRecursion
<1> DEFINE r == SumRecursion(f, S)
<1>8. r = [t \in SUBSET S |-> IF t = {} THEN 0 ELSE f[Chosen(t)] + r[t \ {Chosen(t)}]]
  BY <1>7
<1> HIDE DEF r
<1>9. r[s] = IF s = {} THEN 0 ELSE f[Chosen(s)] + r[s \ {Chosen(s)}]
  BY <1>8
<1> QED
  BY <1>9 DEF Unfolds, r

\* What the recursion says of a subset does not depend on the set it is for.
LEMMA RecursionIsLocal ==
  ASSUME NEW f, NEW S, IsFiniteSet(S), NEW T \in SUBSET S
  PROVE  \A s \in SUBSET T : SumRecursion(f, S)[s] = SumRecursion(f, T)[s]
<1> DEFINE a == SumRecursion(f, S)
           b == SumRecursion(f, T)
           Good == {s \in SUBSET T : a[s] = b[s]}
<1>1. IsFiniteSet(T)
  BY FS_Subset
<1>2. ASSUME NEW s \in SUBSET T, \A x \in s : s \ {x} \in Good
      PROVE  s \in Good
  <2>1. Unfolds(f, a, s) /\ Unfolds(f, b, s)
    BY <1>1, RecursionUnfolds
  <2> HIDE DEF a, b
  <2>2. a[s] = b[s]
    BY <1>2, <2>1, ChosenIn DEF Unfolds
  <2> QED
    BY <2>2
<1>3. \A s \in SUBSET T : s \in Good
  <2> HIDE DEF Good
  <2> QED
    BY <1>1, <1>2, SubsetInduction
<1> QED
  BY <1>3

-----------------------------------------------------------------------------
(***************************************************************************)
(* The sum.                                                                *)
(***************************************************************************)

\* The sum over no elements is 0.
LEMMA SumOverNone ==
  ASSUME NEW f
  PROVE  SumFunctionOnSet(f, {}) = 0
<1>1. Unfolds(f, SumRecursion(f, {}), {})
  BY FS_EmptySet, RecursionUnfolds
<1> QED
  BY <1>1, SumIsRecursion DEF Unfolds

\* The sum takes out the element the fold chooses.
LEMMA SumTakesChosen ==
  ASSUME NEW f, NEW S, IsFiniteSet(S), S # {}
  PROVE  SumFunctionOnSet(f, S)
           = f[Chosen(S)] + SumFunctionOnSet(f, S \ {Chosen(S)})
<1> DEFINE t == S \ {Chosen(S)}
<1>1. Unfolds(f, SumRecursion(f, S), S)
  BY RecursionUnfolds
<1>2. SumRecursion(f, S)[t] = SumRecursion(f, t)[t]
  BY RecursionIsLocal
<1> QED
  BY <1>1, <1>2, SumIsRecursion DEF Unfolds

\* A sum of integers is an integer.
LEMMA SumOfIntegers ==
  ASSUME NEW f, NEW S, IsFiniteSet(S), \A x \in S : f[x] \in Int
  PROVE  SumFunctionOnSet(f, S) \in Int
<1> DEFINE Good == {T \in SUBSET S : SumFunctionOnSet(f, T) \in Int}
<1>1. ASSUME NEW T \in SUBSET S, \A x \in T : T \ {x} \in Good
      PROVE  T \in Good
  <2>1. CASE T = {}
    BY <2>1, SumOverNone
  <2>2. CASE T # {}
    <3>1. Chosen(T) \in T /\ IsFiniteSet(T)
      BY <2>2, ChosenIn, FS_Subset
    <3>2. T \ {Chosen(T)} \in Good /\ f[Chosen(T)] \in Int
      BY <1>1, <3>1
    <3>3. SumFunctionOnSet(f, T) = f[Chosen(T)] + SumFunctionOnSet(f, T \ {Chosen(T)})
      BY <2>2, <3>1, SumTakesChosen
    <3> QED
      BY <3>2, <3>3
  <2> QED
    BY <2>1, <2>2
<1>2. \A T \in SUBSET S : T \in Good
  <2> HIDE DEF Good
  <2> QED
    BY <1>1, SubsetInduction
<1> QED
  BY <1>2

\* The sum depends on the function's values in the set alone.
LEMMA SumOfEquals ==
  ASSUME NEW f, NEW g, NEW S, IsFiniteSet(S), \A x \in S : f[x] = g[x]
  PROVE  SumFunctionOnSet(f, S) = SumFunctionOnSet(g, S)
<1> DEFINE Good == {T \in SUBSET S : SumFunctionOnSet(f, T) = SumFunctionOnSet(g, T)}
<1>1. ASSUME NEW T \in SUBSET S, \A x \in T : T \ {x} \in Good
      PROVE  T \in Good
  <2>1. CASE T = {}
    BY <2>1, SumOverNone
  <2>2. CASE T # {}
    <3>1. Chosen(T) \in T /\ IsFiniteSet(T)
      BY <2>2, ChosenIn, FS_Subset
    <3>2. T \ {Chosen(T)} \in Good /\ f[Chosen(T)] = g[Chosen(T)]
      BY <1>1, <3>1
    <3> QED
      BY <2>2, <3>1, <3>2, SumTakesChosen
  <2> QED
    BY <2>1, <2>2
<1>2. \A T \in SUBSET S : T \in Good
  <2> HIDE DEF Good
  <2> QED
    BY <1>1, SubsetInduction
<1> QED
  BY <1>2

\* Any element may be taken out first.
LEMMA SumTakesAny ==
  ASSUME NEW f, NEW S, IsFiniteSet(S), \A x \in S : f[x] \in Int
  PROVE  \A x \in S : SumFunctionOnSet(f, S) = f[x] + SumFunctionOnSet(f, S \ {x})
<1> DEFINE Takes(T, x) == SumFunctionOnSet(f, T) = f[x] + SumFunctionOnSet(f, T \ {x})
           Good == {T \in SUBSET S : \A x \in T : Takes(T, x)}
<1>1. ASSUME NEW T \in SUBSET S, \A x \in T : T \ {x} \in Good
      PROVE  T \in Good
  <2>1. ASSUME NEW x \in T
        PROVE  Takes(T, x)
    <3> DEFINE p == Chosen(T)
    <3>1. p \in T /\ IsFiniteSet(T) /\ IsFiniteSet(T \ {x})
      BY ChosenIn, FS_Subset
    <3>2. SumFunctionOnSet(f, T) = f[p] + SumFunctionOnSet(f, T \ {p})
      BY <3>1, SumTakesChosen
    <3> HIDE DEF p
    <3>3. CASE x = p
      BY <3>2, <3>3
    <3>4. CASE x # p
      <4>1. /\ Takes(T \ {p}, x)
            /\ Takes(T \ {x}, p)
        BY <1>1, <3>1, <3>4
      <4>2. (T \ {p}) \ {x} = (T \ {x}) \ {p}
        OBVIOUS
      <4>3. IsFiniteSet((T \ {x}) \ {p})
        BY <3>1, FS_RemoveElement
      <4>4. SumFunctionOnSet(f, (T \ {x}) \ {p}) \in Int /\ f[x] \in Int /\ f[p] \in Int
        BY <3>1, <4>3, SumOfIntegers
      <4> DEFINE R == SumFunctionOnSet(f, (T \ {x}) \ {p})
      <4>5. SumFunctionOnSet(f, T) = f[p] + (f[x] + R)
        BY <3>2, <4>1, <4>2
      <4>6. f[x] + SumFunctionOnSet(f, T \ {x}) = f[x] + (f[p] + R)
        BY <4>1
      <4> QED
        BY <4>4, <4>5, <4>6
    <3> QED
      BY <3>3, <3>4
  <2> QED
    BY <2>1
<1>2. \A T \in SUBSET S : T \in Good
  <2> HIDE DEF Good
  <2> QED
    BY <1>1, SubsetInduction
<1> QED
  BY <1>2

\* When the function changes at one element, the sum moves by as much.
LEMMA SumMovesByOne ==
  ASSUME NEW f, NEW g, NEW S, IsFiniteSet(S), NEW x \in S,
         \A y \in S : f[y] \in Int, g[x] \in Int,
         \A y \in S : y # x => g[y] = f[y]
  PROVE  SumFunctionOnSet(g, S) = SumFunctionOnSet(f, S) - f[x] + g[x]
<1>1. IsFiniteSet(S \ {x})
  BY FS_RemoveElement
<1>2. \A y \in S : g[y] \in Int
  OBVIOUS
<1>3. SumFunctionOnSet(f, S) = f[x] + SumFunctionOnSet(f, S \ {x})
  BY SumTakesAny
<1>4. SumFunctionOnSet(g, S) = g[x] + SumFunctionOnSet(g, S \ {x})
  BY <1>2, SumTakesAny
<1>5. SumFunctionOnSet(g, S \ {x}) = SumFunctionOnSet(f, S \ {x})
  BY <1>1, SumOfEquals
<1>6. SumFunctionOnSet(f, S \ {x}) \in Int
  BY <1>1, SumOfIntegers
<1> QED
  BY <1>3, <1>4, <1>5, <1>6

\* A sum of naturals is a natural, and no term is more than the whole.
LEMMA SumOfNaturals ==
  ASSUME NEW f, NEW S, IsFiniteSet(S), \A x \in S : f[x] \in Nat
  PROVE  /\ SumFunctionOnSet(f, S) \in Nat
         /\ \A x \in S : f[x] <= SumFunctionOnSet(f, S)
<1> DEFINE Good == {T \in SUBSET S : SumFunctionOnSet(f, T) \in Nat}
<1>1. ASSUME NEW T \in SUBSET S, \A x \in T : T \ {x} \in Good
      PROVE  T \in Good
  <2>1. CASE T = {}
    BY <2>1, SumOverNone
  <2>2. CASE T # {}
    <3>1. Chosen(T) \in T /\ IsFiniteSet(T)
      BY <2>2, ChosenIn, FS_Subset
    <3>2. T \ {Chosen(T)} \in Good /\ f[Chosen(T)] \in Nat
      BY <1>1, <3>1
    <3>3. SumFunctionOnSet(f, T) = f[Chosen(T)] + SumFunctionOnSet(f, T \ {Chosen(T)})
      BY <2>2, <3>1, SumTakesChosen
    <3> QED
      BY <3>2, <3>3
  <2> QED
    BY <2>1, <2>2
<1>2. \A T \in SUBSET S : SumFunctionOnSet(f, T) \in Nat
  <2>1. \A T \in SUBSET S : T \in Good
    <3> HIDE DEF Good
    <3> QED
      BY <1>1, SubsetInduction
  <2> QED
    BY <2>1
<1>3. ASSUME NEW x \in S
      PROVE  f[x] <= SumFunctionOnSet(f, S)
  <2>1. SumFunctionOnSet(f, S) = f[x] + SumFunctionOnSet(f, S \ {x})
    BY SumTakesAny
  <2>2. SumFunctionOnSet(f, S \ {x}) \in Nat
    BY <1>2
  <2> QED
    BY <2>1, <2>2
<1> QED
  BY <1>2, <1>3

\* Terms of at most c add up to at most c for each of them.
LEMMA SumAtMost ==
  ASSUME NEW f, NEW S, IsFiniteSet(S), NEW c \in Nat,
         \A x \in S : f[x] \in Int /\ f[x] <= c
  PROVE  SumFunctionOnSet(f, S) <= Cardinality(S) * c
<1> DEFINE Good == {T \in SUBSET S : SumFunctionOnSet(f, T) <= Cardinality(T) * c}
<1>1. ASSUME NEW T \in SUBSET S, \A x \in T : T \ {x} \in Good
      PROVE  T \in Good
  <2>1. CASE T = {}
    BY <2>1, SumOverNone, FS_EmptySet
  <2>2. CASE T # {}
    <3> DEFINE x == Chosen(T)
               R == SumFunctionOnSet(f, T \ {x})
               n == Cardinality(T \ {x})
    <3>1. x \in T /\ IsFiniteSet(T) /\ IsFiniteSet(T \ {x})
      BY <2>2, ChosenIn, FS_Subset
    <3>2. SumFunctionOnSet(f, T) = f[x] + R
      BY <2>2, <3>1, SumTakesChosen
    <3>3. R <= n * c
      BY <1>1, <3>1
    <3>4. n \in Nat /\ Cardinality(T) = n + 1
      <4>1. Cardinality(T \ {x}) = Cardinality(T) - 1 /\ Cardinality(T) \in Nat
        BY <3>1, FS_RemoveElement, FS_CardinalityType
      <4>2. Cardinality(T \ {x}) \in Nat
        BY <3>1, FS_CardinalityType
      <4> QED
        BY <4>1, <4>2
    <3>5. R \in Int
      BY <3>1, SumOfIntegers
    <3>6. f[x] \in Int /\ f[x] <= c
      BY <3>1
    <3> HIDE DEF x, R, n
    <3>7. (n + 1) * c = n * c + c /\ n * c \in Int
      BY <3>4
    <3>8. f[x] + R <= (n + 1) * c
      BY <3>3, <3>5, <3>6, <3>7
    <3> QED
      BY <3>2, <3>4, <3>8
  <2> QED
    BY <2>1, <2>2
<1>2. \A T \in SUBSET S : T \in Good
  <2> HIDE DEF Good
  <2> QED
    BY <1>1, SubsetInduction
<1> QED
  BY <1>2

\* A sum of zeros is zero.
LEMMA SumOfZeros ==
  ASSUME NEW f, NEW S, IsFiniteSet(S), \A x \in S : f[x] = 0
  PROVE  SumFunctionOnSet(f, S) = 0
<1>1. SumFunctionOnSet(f, S) \in Nat
  BY SumOfNaturals
<1>2. SumFunctionOnSet(f, S) <= Cardinality(S) * 0
  BY SumAtMost
<1>3. Cardinality(S) * 0 = 0
  BY FS_CardinalityType
<1> QED
  BY <1>1, <1>2, <1>3

\* A finite set whose members have natural sizes has one of the greatest size.
LEMMA GreatestOfFinite ==
  ASSUME NEW f, NEW S, IsFiniteSet(S), \A x \in S : f[x] \in Nat, S # {}
  PROVE  \E x \in S : \A y \in S : f[y] <= f[x]
<1> DEFINE Top(T) == \E x \in T : \A y \in T : f[y] <= f[x]
           Good == {T \in SUBSET S : T = {} \/ Top(T)}
<1>1. ASSUME NEW T \in SUBSET S, \A x \in T : T \ {x} \in Good
      PROVE  T \in Good
  <2>1. SUFFICES ASSUME NEW z \in T PROVE Top(T)
    OBVIOUS
  <2>2. CASE T \ {z} = {}
    BY <2>2
  <2>3. CASE Top(T \ {z})
    <3>1. PICK x \in T \ {z} : \A y \in T \ {z} : f[y] <= f[x]
      BY <2>3
    <3>2. f[x] \in Nat /\ f[z] \in Nat /\ \A y \in T : f[y] \in Nat
      BY <2>1
    <3>3. CASE f[z] <= f[x]
      BY <3>1, <3>3
    <3>4. CASE f[x] < f[z]
      BY <3>1, <3>2, <3>4
    <3> QED
      BY <3>2, <3>3, <3>4
  <2> QED
    BY <1>1, <2>2, <2>3
<1>2. \A T \in SUBSET S : T \in Good
  <2> HIDE DEF Good
  <2> QED
    BY <1>1, SubsetInduction
<1> QED
  BY <1>2

=============================================================================
