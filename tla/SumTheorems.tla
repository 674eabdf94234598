---------------------------- MODULE SumTheorems -----------------------------
(***************************************************************************)
(* What the sum of a function over a finite set is, whichever order its    *)
(* elements are taken in: the facts about SumFunctionOnSet, a fold, that   *)
(* the proofs about totals rest on.                                        *)
(*                                                                         *)
(* The induction is over the size of the set.  It is stated for sets of    *)
(* numbers (NatInd): a set that has 0, and n + 1 with n, has every number. *)
(***************************************************************************)
EXTENDS Integers, Functions, FiniteSets, FiniteSetTheorems, WellFoundedInduction, TLAPS

\* Induction: a set of natural numbers that lacks one has a least one that it lacks.
LEMMA NatInd ==
  ASSUME NEW S \in SUBSET Nat, 0 \in S, \A n \in S : n + 1 \in S
  PROVE  S = Nat
<1> DEFINE T == Nat \ S
<1> SUFFICES ASSUME T # {} PROVE FALSE
  OBVIOUS
<1>1. PICK x \in T : \A y \in T : ~ (<<y, x>> \in OpToRel(<, Nat))
  BY NatLessThanWellFounded, WFMin
<1>2. \A y \in T : ~(y < x)
  BY <1>1 DEF OpToRel
<1>3. x # 0 /\ x - 1 \in Nat /\ x - 1 < x
  OBVIOUS
<1>4. x - 1 \in S
  BY <1>2, <1>3
<1> QED
  BY <1>4

-----------------------------------------------------------------------------
(* The function that the fold is the value of.                             *)

\* The element that the fold takes first.
First(S) == CHOOSE x \in S : TRUE

\* g sums f over every set of D: what the fold of SumFunctionOnSet is over the subsets
\* of its set.
Sums(f, D, g) == g = [s \in D |-> IF s = {} THEN 0 ELSE f[First(s)] + g[s \ {First(s)}]]

\* The subsets of S with at most n elements.
Small(S, n) == {s \in SUBSET S : Cardinality(s) <= n}

\* The sum is the value at the set of the function that the fold chooses.
LEMMA SumDef ==
  ASSUME NEW f, NEW S
  PROVE  SumFunctionOnSet(f, S) = (CHOOSE g : Sums(f, SUBSET S, g))[S]
  BY DEF SumFunctionOnSet, FoldFunctionOnSet, MapThenFoldSet, Sums, First

\* The element taken first is one of the set.
LEMMA FirstIn == ASSUME NEW S, S # {} PROVE First(S) \in S
  BY DEF First

\* A set with one element less is smaller.
LEMMA SmallRemove ==
  ASSUME NEW S, IsFiniteSet(S), NEW n \in Nat, NEW s \in Small(S, n + 1), NEW x \in s
  PROVE  s \ {x} \in Small(S, n)
<1>1. IsFiniteSet(s)
  BY FS_Subset DEF Small
<1>2. Cardinality(s \ {x}) = Cardinality(s) - 1 /\ Cardinality(s) \in Nat
  BY <1>1, FS_RemoveElement, FS_CardinalityType
<1> QED
  BY <1>2 DEF Small

\* No subset of a finite set is larger than the set.
LEMMA SmallAll ==
  ASSUME NEW S, IsFiniteSet(S)
  PROVE  Cardinality(S) \in Nat /\ Small(S, Cardinality(S)) = SUBSET S
<1>1. \A s \in SUBSET S : Cardinality(s) <= Cardinality(S)
  BY FS_Subset
<1> QED
  BY <1>1, FS_CardinalityType DEF Small

\* Only the empty set has no element.
LEMMA SmallZero ==
  ASSUME NEW S, IsFiniteSet(S)
  PROVE  Small(S, 0) = {{}}
<1>1. \A s \in SUBSET S : Cardinality(s) <= 0 <=> s = {}
  <2> TAKE s \in SUBSET S
  <2>1. IsFiniteSet(s)
    BY FS_Subset
  <2> QED
    BY <2>1, FS_EmptySet, FS_CardinalityType
<1> QED
  BY <1>1 DEF Small

\* There is such a g, by induction on the size of the subsets.
LEMMA SumsExists ==
  ASSUME NEW S, IsFiniteSet(S), NEW f, \A x \in S : f[x] \in Int
  PROVE  \E g : Sums(f, SUBSET S, g) /\ g \in [SUBSET S -> Int]
<1> DEFINE N == {n \in Nat : \E g \in [Small(S, n) -> Int] : Sums(f, Small(S, n), g)}
<1>1. 0 \in N
  <2> DEFINE g == [s \in {{}} |-> 0]
  <2>1. Sums(f, {{}}, g)
    BY DEF Sums
  <2>2. g \in [{{}} -> Int]
    OBVIOUS
  <2> HIDE DEF g
  <2> QED
    BY <2>1, <2>2, SmallZero
<1>2. ASSUME NEW n \in N PROVE n + 1 \in N
  <2>1. PICK g \in [Small(S, n) -> Int] : Sums(f, Small(S, n), g)
    OBVIOUS
  <2> DEFINE D == Small(S, n + 1)
             h == [s \in D |-> IF s = {} THEN 0 ELSE f[First(s)] + g[s \ {First(s)}]]
  <2>2. \A s \in D : s # {} => First(s) \in s /\ f[First(s)] \in Int /\ s \ {First(s)} \in Small(S, n)
    <3> SUFFICES ASSUME NEW s \in D, s # {}
                 PROVE  First(s) \in s /\ f[First(s)] \in Int /\ s \ {First(s)} \in Small(S, n)
      OBVIOUS
    <3>1. First(s) \in s /\ First(s) \in S
      BY FirstIn DEF Small
    <3> QED
      BY <3>1, SmallRemove
  <2>3. h \in [D -> Int]
    BY <2>2
  <2>4. \A s \in Small(S, n) : s \in D /\ h[s] = g[s]
    <3> SUFFICES ASSUME NEW s \in Small(S, n) PROVE s \in D /\ h[s] = g[s]
      OBVIOUS
    <3>1. s \in D
      <4>1. IsFiniteSet(s)
        BY FS_Subset DEF Small
      <4> QED
        BY <4>1, FS_CardinalityType DEF Small
    <3>2. g[s] = IF s = {} THEN 0 ELSE f[First(s)] + g[s \ {First(s)}]
      BY <2>1 DEF Sums
    <3> QED
      BY <3>1, <3>2
  <2>5. h = [s \in D |-> IF s = {} THEN 0 ELSE f[First(s)] + h[s \ {First(s)}]]
    <3>1. \A s \in D : s # {} => g[s \ {First(s)}] = h[s \ {First(s)}]
      BY <2>2, <2>4
    <3> HIDE DEF D
    <3> QED
      BY <3>1
  <2>6. Sums(f, D, h)
    BY <2>5 DEF Sums
  <2> HIDE DEF h
  <2> QED
    BY <2>3, <2>6
<1>3. Cardinality(S) \in N
  <2> HIDE DEF N
  <2>1. N \in SUBSET Nat
    BY DEF N
  <2>2. N = Nat
    BY <1>1, <1>2, <2>1, NatInd
  <2> QED
    BY <2>2, SmallAll
<1> QED
  BY <1>3, SmallAll

\* Two of them agree on the sets they have in common, and where their functions agree.
LEMMA SumsAgree ==
  ASSUME NEW S, IsFiniteSet(S), NEW f, NEW D, NEW g, Sums(f, D, g),
         NEW e, NEW C, NEW h, Sums(e, C, h),
         SUBSET S \subseteq D, SUBSET S \subseteq C, \A x \in S : e[x] = f[x]
  PROVE  g[S] = h[S]
<1> DEFINE N == {n \in Nat : \A s \in Small(S, n) : g[s] = h[s]}
<1>0. \A s \in SUBSET S :
        /\ g[s] = IF s = {} THEN 0 ELSE f[First(s)] + g[s \ {First(s)}]
        /\ h[s] = IF s = {} THEN 0 ELSE e[First(s)] + h[s \ {First(s)}]
  BY DEF Sums
<1>1. 0 \in N
  BY <1>0, SmallZero
<1>2. ASSUME NEW n \in N PROVE n + 1 \in N
  <2> SUFFICES ASSUME NEW s \in Small(S, n + 1), s # {} PROVE g[s] = h[s]
    BY <1>0 DEF Small
  <2>1. First(s) \in s /\ First(s) \in S
    BY FirstIn DEF Small
  <2>2. s \ {First(s)} \in Small(S, n)
    BY <2>1, SmallRemove
  <2>3. s \in SUBSET S
    BY DEF Small
  <2> QED
    BY <1>0, <2>1, <2>2, <2>3
<1>3. Cardinality(S) \in N
  <2> HIDE DEF N
  <2>1. N \in SUBSET Nat
    BY DEF N
  <2>2. N = Nat
    BY <1>1, <1>2, <2>1, NatInd
  <2> QED
    BY <2>2, SmallAll
<1> QED
  BY <1>3, SmallAll

-----------------------------------------------------------------------------
(* The sum.                                                                *)

\* The sum over no element is 0, and the sum over a set is a number: the first element
\* plus the sum over the others.
LEMMA SumEquation ==
  ASSUME NEW S, IsFiniteSet(S), NEW f, \A x \in S : f[x] \in Int
  PROVE  /\ SumFunctionOnSet(f, S) \in Int
         /\ S = {} => SumFunctionOnSet(f, S) = 0
         /\ S # {} => SumFunctionOnSet(f, S)
                        = f[First(S)] + SumFunctionOnSet(f, S \ {First(S)})
<1> DEFINE g == CHOOSE g : Sums(f, SUBSET S, g)
<1>1. PICK k : Sums(f, SUBSET S, k) /\ k \in [SUBSET S -> Int]
  BY SumsExists
<1>2. Sums(f, SUBSET S, g)
  BY <1>1
<1>3. SumFunctionOnSet(f, S) = g[S]
  BY SumDef
<1> HIDE DEF g
<1>4. g[S] = k[S]
  BY <1>1, <1>2, SumsAgree
<1>5. g[S] = IF S = {} THEN 0 ELSE f[First(S)] + g[S \ {First(S)}]
  BY <1>2 DEF Sums
<1>6. ASSUME S # {} PROVE SumFunctionOnSet(f, S \ {First(S)}) = g[S \ {First(S)}]
  <2> DEFINE R == S \ {First(S)}
             h == CHOOSE h : Sums(f, SUBSET R, h)
  <2>1. IsFiniteSet(R) /\ R \subseteq S
    BY FS_Subset
  <2>2. \E h0 : Sums(f, SUBSET R, h0)
    BY <2>1, SumsExists
  <2>3. Sums(f, SUBSET R, h)
    BY <2>2
  <2>4. SumFunctionOnSet(f, R) = h[R]
    BY SumDef
  <2> HIDE DEF h, R
  <2>5. SUBSET R \subseteq SUBSET S
    BY <2>1
  <2>6. g[R] = h[R]
    BY <1>2, <2>1, <2>3, <2>5, SumsAgree
  <2> QED
    BY <2>4, <2>6 DEF R
<1> QED
  BY <1>1, <1>3, <1>4, <1>5, <1>6

\* The sum depends on nothing but the values at the elements.
LEMMA SumCongruence ==
  ASSUME NEW S, IsFiniteSet(S), NEW f, NEW e, \A x \in S : f[x] \in Int /\ e[x] = f[x]
  PROVE  SumFunctionOnSet(f, S) = SumFunctionOnSet(e, S)
<1> DEFINE g == CHOOSE g : Sums(f, SUBSET S, g)
           h == CHOOSE h : Sums(e, SUBSET S, h)
<1>1. (\E g0 : Sums(f, SUBSET S, g0)) /\ (\E h0 : Sums(e, SUBSET S, h0))
  BY SumsExists
<1>2. Sums(f, SUBSET S, g) /\ Sums(e, SUBSET S, h)
  BY <1>1
<1>3. SumFunctionOnSet(f, S) = g[S] /\ SumFunctionOnSet(e, S) = h[S]
  BY SumDef
<1> HIDE DEF g, h
<1>4. g[S] = h[S]
  BY <1>2, SumsAgree
<1> QED
  BY <1>3, <1>4

\* It does not matter which element is taken first.
LEMMA SumRemove ==
  ASSUME NEW S, IsFiniteSet(S), NEW f, \A y \in S : f[y] \in Int, NEW x \in S
  PROVE  SumFunctionOnSet(f, S) = f[x] + SumFunctionOnSet(f, S \ {x})
<1> DEFINE N == {n \in Nat : \A s \in Small(S, n) : \A z \in s :
                   SumFunctionOnSet(f, s) = f[z] + SumFunctionOnSet(f, s \ {z})}
<1>1. 0 \in N
  BY SmallZero
<1>2. ASSUME NEW n \in N PROVE n + 1 \in N
  <2> SUFFICES ASSUME NEW s \in Small(S, n + 1), NEW z \in s
               PROVE  SumFunctionOnSet(f, s) = f[z] + SumFunctionOnSet(f, s \ {z})
    OBVIOUS
  <2> DEFINE c == First(s)
  <2>1. s \subseteq S /\ IsFiniteSet(s) /\ c \in s
    BY FS_Subset, FirstIn DEF Small
  <2>2. SumFunctionOnSet(f, s) = f[c] + SumFunctionOnSet(f, s \ {c})
    BY <2>1, SumEquation
  <2> HIDE DEF c
  <2>3. CASE z # c
    <3> DEFINE rest == s \ {z, c}
    <3>1. s \ {c} \in Small(S, n) /\ s \ {z} \in Small(S, n)
      BY <2>1, SmallRemove
    <3>2. (s \ {c}) \ {z} = rest /\ (s \ {z}) \ {c} = rest /\ IsFiniteSet(rest)
      BY <2>1, FS_Subset
    <3>3. SumFunctionOnSet(f, s \ {c}) = f[z] + SumFunctionOnSet(f, rest)
      BY <2>3, <3>1, <3>2
    <3>4. SumFunctionOnSet(f, s \ {z}) = f[c] + SumFunctionOnSet(f, rest)
      BY <2>1, <2>3, <3>1, <3>2
    <3>5. SumFunctionOnSet(f, rest) \in Int
      BY <2>1, <3>2, SumEquation
    <3>6. f[z] \in Int /\ f[c] \in Int
      BY <2>1
    <3> QED
      BY <2>2, <3>3, <3>4, <3>5, <3>6
  <2> QED
    BY <2>2, <2>3
<1>3. Cardinality(S) \in N
  <2> HIDE DEF N
  <2>1. N \in SUBSET Nat
    BY DEF N
  <2>2. N = Nat
    BY <1>1, <1>2, <2>1, NatInd
  <2> QED
    BY <2>2, SmallAll
<1> QED
  BY <1>3, SmallAll

\* An element that was not summed yet adds its value.
LEMMA SumAdd ==
  ASSUME NEW S, IsFiniteSet(S), NEW x, x \notin S, NEW f, f[x] \in Int, \A y \in S : f[y] \in Int
  PROVE  SumFunctionOnSet(f, S \cup {x}) = f[x] + SumFunctionOnSet(f, S)
<1>1. IsFiniteSet(S \cup {x})
  BY FS_AddElement
<1>2. (S \cup {x}) \ {x} = S
  OBVIOUS
<1> QED
  BY <1>1, <1>2, SumRemove

\* A sum of natural numbers is one.
LEMMA SumNat ==
  ASSUME NEW S, IsFiniteSet(S), NEW f, \A x \in S : f[x] \in Nat
  PROVE  SumFunctionOnSet(f, S) \in Nat
<1> DEFINE N == {n \in Nat : \A s \in Small(S, n) : SumFunctionOnSet(f, s) \in Nat}
<1>1. 0 \in N
  <2>1. SumFunctionOnSet(f, {}) = 0
    BY FS_EmptySet, SumEquation
  <2> QED
    BY <2>1, SmallZero
<1>2. ASSUME NEW n \in N PROVE n + 1 \in N
  <2> SUFFICES ASSUME NEW s \in Small(S, n + 1) PROVE SumFunctionOnSet(f, s) \in Nat
    OBVIOUS
  <2>1. s \subseteq S /\ IsFiniteSet(s) /\ (\A x \in s : f[x] \in Int /\ f[x] \in Nat)
    BY FS_Subset DEF Small
  <2>2. CASE s = {}
    BY <2>1, <2>2, SumEquation
  <2>3. CASE s # {}
    <3>1. First(s) \in s
      BY <2>3, FirstIn
    <3>2. s \ {First(s)} \in Small(S, n)
      BY <3>1, SmallRemove
    <3>3. SumFunctionOnSet(f, s \ {First(s)}) \in Nat
      BY <3>2
    <3>4. SumFunctionOnSet(f, s) = f[First(s)] + SumFunctionOnSet(f, s \ {First(s)})
      BY <2>1, <2>3, SumEquation
    <3>5. f[First(s)] \in Nat
      BY <2>1, <3>1
    <3> HIDE DEF N
    <3> QED
      BY <3>3, <3>4, <3>5
  <2> QED
    BY <2>2, <2>3
<1>3. Cardinality(S) \in N
  <2> HIDE DEF N
  <2>1. N \in SUBSET Nat
    BY DEF N
  <2>2. N = Nat
    BY <1>1, <1>2, <2>1, NatInd
  <2> QED
    BY <2>2, SmallAll
<1> QED
  BY <1>3, SmallAll

\* What is divided in two adds up to the two sums.
LEMMA SumSplit ==
  ASSUME NEW S, IsFiniteSet(S), NEW f, NEW g, NEW h,
         \A x \in S : g[x] \in Int /\ h[x] \in Int /\ f[x] = g[x] + h[x]
  PROVE  /\ SumFunctionOnSet(g, S) \in Int /\ SumFunctionOnSet(h, S) \in Int
         /\ SumFunctionOnSet(f, S) = SumFunctionOnSet(g, S) + SumFunctionOnSet(h, S)
<1> DEFINE N == {n \in Nat : \A s \in Small(S, n) :
                   SumFunctionOnSet(f, s) = SumFunctionOnSet(g, s) + SumFunctionOnSet(h, s)}
<1>1. 0 \in N
  <2>1. ASSUME NEW e PROVE SumFunctionOnSet(e, {}) = 0
    BY FS_EmptySet, SumEquation
  <2>2. 0 = SumFunctionOnSet(g, {}) + SumFunctionOnSet(h, {})
    BY <2>1
  <2> QED
    BY <2>1, <2>2, SmallZero
<1>2. ASSUME NEW n \in N PROVE n + 1 \in N
  <2> SUFFICES ASSUME NEW s \in Small(S, n + 1)
               PROVE  SumFunctionOnSet(f, s) = SumFunctionOnSet(g, s) + SumFunctionOnSet(h, s)
    OBVIOUS
  <2>1. /\ s \subseteq S /\ IsFiniteSet(s)
        /\ \A x \in s : f[x] \in Int /\ g[x] \in Int /\ h[x] \in Int /\ f[x] = g[x] + h[x]
    BY FS_Subset DEF Small
  <2>2. CASE s = {}
    <3>1. /\ SumFunctionOnSet(f, s) = 0 /\ SumFunctionOnSet(g, s) = 0
          /\ SumFunctionOnSet(h, s) = 0
      BY <2>1, <2>2, SumEquation
    <3> QED
      BY <3>1
  <2>3. CASE s # {}
    <3> DEFINE x == First(s)
               rest == s \ {First(s)}
    <3>1. x \in s
      BY <2>3, FirstIn
    <3>2. rest \in Small(S, n) /\ IsFiniteSet(rest) /\ rest \subseteq s
      BY <2>1, <3>1, SmallRemove, FS_Subset
    <3>3. SumFunctionOnSet(f, rest) = SumFunctionOnSet(g, rest) + SumFunctionOnSet(h, rest)
      BY <3>2
    <3>4. /\ SumFunctionOnSet(f, s) = f[x] + SumFunctionOnSet(f, rest)
          /\ SumFunctionOnSet(g, s) = g[x] + SumFunctionOnSet(g, rest)
          /\ SumFunctionOnSet(h, s) = h[x] + SumFunctionOnSet(h, rest)
      BY <2>1, <2>3, SumEquation
    <3>5. SumFunctionOnSet(g, rest) \in Int /\ SumFunctionOnSet(h, rest) \in Int
      BY <2>1, <3>2, SumEquation
    <3>6. g[x] \in Int /\ h[x] \in Int /\ f[x] = g[x] + h[x]
      BY <2>1, <3>1
    <3> HIDE DEF N, x, rest
    <3> QED
      BY <3>3, <3>4, <3>5, <3>6
  <2> QED
    BY <2>2, <2>3
<1>3. Cardinality(S) \in N
  <2> HIDE DEF N
  <2>1. N \in SUBSET Nat
    BY DEF N
  <2>2. N = Nat
    BY <1>1, <1>2, <2>1, NatInd
  <2> QED
    BY <2>2, SmallAll
<1>4. SumFunctionOnSet(g, S) \in Int /\ SumFunctionOnSet(h, S) \in Int
  BY SumEquation
<1> QED
  BY <1>3, <1>4, SmallAll
=============================================================================
