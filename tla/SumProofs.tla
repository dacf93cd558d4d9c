----------------------------- MODULE SumProofs -----------------------------
(***************************************************************************)
(* What a sum over a finite set is (SumFunctionOnSet of Functions), for    *)
(* the proofs about byte counters and accounts.  The fold takes the        *)
(* elements in an order of its own choice; the theorems at the end say     *)
(* that the order does not matter.  Induction goes over the subsets of a   *)
(* finite set, as the absence of a smallest set without the property.      *)
(***************************************************************************)
EXTENDS Functions, FiniteSetTheorems, WellFoundedInduction, TLAPS

\* Induction over the natural numbers, for a set instead of a predicate.
LEMMA NatSets ==
    ASSUME NEW G, 0 \in G, \A n \in Nat : n \in G => n + 1 \in G
    PROVE  Nat \subseteq G
<1> DEFINE Bad == Nat \ G
<1>1. ASSUME Bad # {} PROVE FALSE
  <2>1. PICK n \in Bad : \A m \in Bad : ~(<<m, n>> \in OpToRel(<, Nat))
    <3>1. Bad \subseteq Nat
      OBVIOUS
    <3> HIDE DEF Bad
    <3> QED
      BY <1>1, <3>1, NatLessThanWellFounded, WFMin
  <2>2. n # 0 /\ n - 1 \in Nat /\ n - 1 \notin G
    OBVIOUS
  <2>3. <<n - 1, n>> \in OpToRel(<, Nat)
    BY <2>2 DEF OpToRel
  <2> QED
    BY <2>1, <2>2, <2>3
<1> QED
  BY <1>1

\* Induction over the subsets of a finite set, one element at a time.
LEMMA SubsetSets ==
    ASSUME NEW S, IsFiniteSet(S), NEW G,
           \A s \in SUBSET S : (\A x \in s : s \ {x} \in G) => s \in G
    PROVE  SUBSET S \subseteq G
<1> DEFINE Bad == (SUBSET S) \ G
<1>1. ASSUME Bad # {} PROVE FALSE
  <2>1. Bad \subseteq FiniteSubsetsOf(S)
    BY FS_Subset DEF FiniteSubsetsOf
  <2>2. PICK s \in Bad : \A t \in Bad : ~(<<t, s>> \in StrictSubsetOrdering(S))
    <3> HIDE DEF Bad
    <3> QED
      BY <1>1, <2>1, FS_StrictSubsetOrderingWellFounded, WFMin
  <2>3. PICK x \in s : s \ {x} \notin G
    OBVIOUS
  <2>4. <<s \ {x}, s>> \in StrictSubsetOrdering(S)
    BY DEF StrictSubsetOrdering
  <2> QED
    BY <2>2, <2>3, <2>4
<1> QED
  BY <1>1

-----------------------------------------------------------------------------
\* The element of s that a fold takes first.
Ch(s) == CHOOSE x \in s : TRUE

LEMMA ChIn == \A s : s # {} => Ch(s) \in s
  BY DEF Ch

\* What the fold's recursion says about the set s.
Recurs(g, f, s) ==
    g[s] = IF s = {} THEN 0 ELSE f[Ch(s)] + g[s \ {Ch(s)}]

\* g sums f over every subset of S.
IsSum(g, f, S) ==
    g = [s \in SUBSET S |-> IF s = {} THEN 0 ELSE f[Ch(s)] + g[s \ {Ch(s)}]]

LEMMA Unfold == ASSUME NEW f, NEW S
  PROVE SumFunctionOnSet(f, S) = (CHOOSE g : IsSum(g, f, S))[S]
  BY DEF SumFunctionOnSet, FoldFunctionOnSet, MapThenFoldSet, IsSum, Ch

\* The subsets of S of at most n elements.
UpTo(S, n) == {s \in SUBSET S : Cardinality(s) <= n}

\* The recursion defines a function, built up one level at a time.
LEMMA SumExists ==
    ASSUME NEW f, NEW S, IsFiniteSet(S)
    PROVE  \E g : IsSum(g, f, S)
<1> DEFINE G == {n \in Nat : \E g : /\ DOMAIN g = UpTo(S, n)
                                    /\ \A s \in UpTo(S, n) : Recurs(g, f, s)}
<1>0. \A s \in SUBSET S : IsFiniteSet(s) /\ Cardinality(s) \in Nat
  BY FS_Subset, FS_CardinalityType
<1>1. 0 \in G
  <2> DEFINE g == [s \in UpTo(S, 0) |-> 0]
  <2>1. \A s \in UpTo(S, 0) : s = {}
    BY <1>0, FS_EmptySet DEF UpTo
  <2>2. DOMAIN g = UpTo(S, 0) /\ \A s \in UpTo(S, 0) : Recurs(g, f, s)
    BY <2>1 DEF Recurs
  <2> QED
    BY <2>2
<1>2. ASSUME NEW n \in Nat, n \in G PROVE n + 1 \in G
  <2>1. PICK g : DOMAIN g = UpTo(S, n) /\ \A s \in UpTo(S, n) : Recurs(g, f, s)
    BY <1>2
  <2> DEFINE h == [s \in UpTo(S, n + 1) |->
                      IF s = {} THEN 0 ELSE f[Ch(s)] + g[s \ {Ch(s)}]]
  <2>2. ASSUME NEW s \in UpTo(S, n + 1), s # {}
        PROVE  s \ {Ch(s)} \in UpTo(S, n)
    <3>1. Ch(s) \in s /\ s \in SUBSET S /\ Cardinality(s) <= n + 1
      BY <2>2, ChIn DEF UpTo
    <3>2. /\ Cardinality(s \ {Ch(s)}) = Cardinality(s) - 1
          /\ Cardinality(s) \in Nat
      BY <3>1, <1>0, FS_RemoveElement
    <3> QED
      BY <3>1, <3>2 DEF UpTo
  <2>3. UpTo(S, n) \subseteq UpTo(S, n + 1)
    BY <1>0 DEF UpTo
  <2>4. \A s \in UpTo(S, n) : h[s] = g[s]
    BY <2>1, <2>3 DEF Recurs
  <2>5. \A s \in UpTo(S, n + 1) : Recurs(h, f, s)
    <3> SUFFICES ASSUME NEW s \in UpTo(S, n + 1) PROVE Recurs(h, f, s)
      OBVIOUS
    <3>1. CASE s = {}
      BY <3>1 DEF Recurs
    <3>2. CASE s # {}
      <4>1. h[s] = f[Ch(s)] + g[s \ {Ch(s)}]
        BY <3>2
      <4>2. g[s \ {Ch(s)}] = h[s \ {Ch(s)}]
        BY <3>2, <2>2, <2>4
      <4> HIDE DEF h
      <4> QED
        BY <3>2, <4>1, <4>2 DEF Recurs
    <3> QED
      BY <3>1, <3>2
  <2>6. DOMAIN h = UpTo(S, n + 1)
    OBVIOUS
  <2> HIDE DEF h
  <2> QED
    BY <2>5, <2>6
<1>3. Cardinality(S) \in G
  <2> HIDE DEF G
  <2> QED
    BY <1>1, <1>2, NatSets, FS_CardinalityType
<1>4. PICK g : /\ DOMAIN g = UpTo(S, Cardinality(S))
               /\ \A s \in UpTo(S, Cardinality(S)) : Recurs(g, f, s)
  BY <1>3
<1>5. UpTo(S, Cardinality(S)) = SUBSET S
  BY FS_Subset DEF UpTo
<1> DEFINE k == [s \in SUBSET S |-> g[s]]
<1>6. IsSum(k, f, S)
  <2>1. ASSUME NEW s \in SUBSET S
        PROVE  k[s] = IF s = {} THEN 0 ELSE f[Ch(s)] + k[s \ {Ch(s)}]
    BY <1>4, <1>5, <2>1, ChIn DEF Recurs
  <2>2. k = [s \in SUBSET S |-> k[s]]
    OBVIOUS
  <2> HIDE DEF k
  <2> QED
    BY <2>1, <2>2 DEF IsSum
<1> QED
  BY <1>6

-----------------------------------------------------------------------------
LEMMA SumIs ==
    ASSUME NEW f, NEW S, IsFiniteSet(S)
    PROVE  \E g : IsSum(g, f, S) /\ SumFunctionOnSet(f, S) = g[S]
<1>1. IsSum(CHOOSE g : IsSum(g, f, S), f, S)
  BY SumExists
<1> QED
  BY <1>1, Unfold

\* A sum over a set takes any element the fold happens to choose first.
LEMMA SumChoose ==
    ASSUME NEW f, NEW S, IsFiniteSet(S), S # {}
    PROVE  SumFunctionOnSet(f, S) = f[Ch(S)] + SumFunctionOnSet(f, S \ {Ch(S)})
<1> DEFINE T == S \ {Ch(S)}
<1>1. IsFiniteSet(T) /\ T \subseteq S
  BY FS_RemoveElement
<1>2. PICK g : IsSum(g, f, S) /\ SumFunctionOnSet(f, S) = g[S]
  BY SumIs
<1>3. PICK h : IsSum(h, f, T) /\ SumFunctionOnSet(f, T) = h[T]
  BY <1>1, SumIs
<1> HIDE DEF T
<1> DEFINE G == {s \in SUBSET T : g[s] = h[s]}
<1>4. \A s \in SUBSET T : (\A x \in s : s \ {x} \in G) => s \in G
  <2> SUFFICES ASSUME NEW s \in SUBSET T, \A x \in s : s \ {x} \in G
               PROVE  g[s] = h[s]
    OBVIOUS
  <2>1. /\ g[s] = IF s = {} THEN 0 ELSE f[Ch(s)] + g[s \ {Ch(s)}]
        /\ h[s] = IF s = {} THEN 0 ELSE f[Ch(s)] + h[s \ {Ch(s)}]
    BY <1>1, <1>2, <1>3 DEF IsSum
  <2> QED
    BY <2>1, ChIn
<1>5. g[T] = h[T]
  <2> HIDE DEF G
  <2>1. T \in G
    BY <1>1, <1>4, SubsetSets
  <2> QED
    BY <2>1 DEF G
<1>6. g[S] = f[Ch(S)] + g[T]
  BY <1>2 DEF IsSum, T
<1> QED
  BY <1>2, <1>3, <1>5, <1>6 DEF T

\* The sum of nothing.
THEOREM SumEmpty == ASSUME NEW f PROVE SumFunctionOnSet(f, {}) = 0
<1>1. PICK g : IsSum(g, f, {}) /\ SumFunctionOnSet(f, {}) = g[{}]
  BY FS_EmptySet, SumIs
<1> QED
  BY <1>1 DEF IsSum

\* Sums of integers, and of natural numbers, are of the same kind.
THEOREM SumInt ==
    ASSUME NEW S, IsFiniteSet(S), NEW f, \A x \in S : f[x] \in Int
    PROVE  SumFunctionOnSet(f, S) \in Int
<1> DEFINE G == {s \in SUBSET S : SumFunctionOnSet(f, s) \in Int}
<1>1. ASSUME NEW s \in SUBSET S, \A x \in s : s \ {x} \in G
      PROVE  s \in G
  <2>1. CASE s = {}
    BY <2>1, SumEmpty
  <2>2. CASE s # {}
    <3>1. PICK c \in s : c = Ch(s)
      BY <2>2, ChIn
    <3>2. IsFiniteSet(s)
      BY FS_Subset
    <3>3. s \ {c} \in G /\ c \in S
      BY <1>1
    <3>4. SumFunctionOnSet(f, s) = f[c] + SumFunctionOnSet(f, s \ {c})
      BY <2>2, <3>1, <3>2, SumChoose
    <3> QED
      BY <3>3, <3>4
  <2> QED
    BY <2>1, <2>2
<1>2. S \in G
  <2> HIDE DEF G
  <2> QED
    BY <1>1, SubsetSets
<1> QED
  BY <1>2

\* In particular the sum of natural numbers is never negative.
THEOREM SumNat ==
    ASSUME NEW S, IsFiniteSet(S), NEW f, \A x \in S : f[x] \in Nat
    PROVE  SumFunctionOnSet(f, S) \in Nat
<1> DEFINE G == {s \in SUBSET S : SumFunctionOnSet(f, s) \in Nat}
<1>1. ASSUME NEW s \in SUBSET S, \A x \in s : s \ {x} \in G
      PROVE  s \in G
  <2>1. CASE s = {}
    BY <2>1, SumEmpty
  <2>2. CASE s # {}
    <3>1. PICK c \in s : c = Ch(s)
      BY <2>2, ChIn
    <3>2. IsFiniteSet(s)
      BY FS_Subset
    <3>3. s \ {c} \in G /\ c \in S
      BY <1>1
    <3>4. SumFunctionOnSet(f, s) = f[c] + SumFunctionOnSet(f, s \ {c})
      BY <2>2, <3>1, <3>2, SumChoose
    <3> QED
      BY <3>3, <3>4
  <2> QED
    BY <2>1, <2>2
<1>2. S \in G
  <2> HIDE DEF G
  <2> QED
    BY <1>1, SubsetSets
<1> QED
  BY <1>2

\* Only the values of the summands count.
THEOREM SumSame ==
    ASSUME NEW S, IsFiniteSet(S), NEW f, NEW h, \A x \in S : f[x] = h[x]
    PROVE  SumFunctionOnSet(f, S) = SumFunctionOnSet(h, S)
<1> DEFINE G == {s \in SUBSET S : SumFunctionOnSet(f, s) = SumFunctionOnSet(h, s)}
<1>1. ASSUME NEW s \in SUBSET S, \A x \in s : s \ {x} \in G
      PROVE  s \in G
  <2>1. CASE s = {}
    BY <2>1, SumEmpty
  <2>2. CASE s # {}
    <3>1. PICK c \in s : c = Ch(s)
      BY <2>2, ChIn
    <3>2. IsFiniteSet(s)
      BY FS_Subset
    <3>3. s \ {c} \in G /\ c \in S
      BY <1>1
    <3>4. SumFunctionOnSet(f, s) = f[c] + SumFunctionOnSet(f, s \ {c})
      BY <2>2, <3>1, <3>2, SumChoose
    <3>5. SumFunctionOnSet(h, s) = h[c] + SumFunctionOnSet(h, s \ {c})
      BY <2>2, <3>1, <3>2, SumChoose
    <3> QED
      BY <3>3, <3>4, <3>5
  <2> QED
    BY <2>1, <2>2
<1>2. S \in G
  <2> HIDE DEF G
  <2> QED
    BY <1>1, SubsetSets
<1> QED
  BY <1>2

\* Any element can be taken out of a sum.
THEOREM SumSplit ==
    ASSUME NEW S, IsFiniteSet(S), NEW f, \A x \in S : f[x] \in Int, NEW z \in S
    PROVE  SumFunctionOnSet(f, S) = f[z] + SumFunctionOnSet(f, S \ {z})
<1> DEFINE G == {s \in SUBSET S : \A x \in s :
                    SumFunctionOnSet(f, s) = f[x] + SumFunctionOnSet(f, s \ {x})}
<1>1. ASSUME NEW s \in SUBSET S, \A x \in s : s \ {x} \in G
      PROVE  s \in G
  <2> SUFFICES ASSUME NEW x \in s
               PROVE  SumFunctionOnSet(f, s) = f[x] + SumFunctionOnSet(f, s \ {x})
    OBVIOUS
  <2>1. PICK c \in s : c = Ch(s)
    BY ChIn
  <2>2. SumFunctionOnSet(f, s) = f[c] + SumFunctionOnSet(f, s \ {c})
    BY <2>1, SumChoose, FS_Subset
  <2>3. CASE c = x
    BY <2>2, <2>3
  <2>4. CASE c # x
    <3>1. s \ {c} \in G /\ s \ {x} \in G
      BY <1>1
    <3>2. SumFunctionOnSet(f, s \ {c}) = f[x] + SumFunctionOnSet(f, (s \ {c}) \ {x})
      BY <3>1, <2>4
    <3>3. SumFunctionOnSet(f, s \ {x}) = f[c] + SumFunctionOnSet(f, (s \ {x}) \ {c})
      BY <3>1, <2>4
    <3>4. (s \ {c}) \ {x} = (s \ {x}) \ {c}
      OBVIOUS
    <3>5. SumFunctionOnSet(f, (s \ {x}) \ {c}) \in Int
      <4>1. (s \ {x}) \ {c} \in SUBSET S
        OBVIOUS
      <4> QED
        BY <4>1, FS_Subset, SumInt
    <3>6. f[x] \in Int /\ f[c] \in Int
      OBVIOUS
    <3>7. PICK r \in Int : r = SumFunctionOnSet(f, (s \ {x}) \ {c})
      BY <3>5
    <3>8. SumFunctionOnSet(f, s) = f[c] + (f[x] + r)
      BY <2>2, <3>2, <3>4, <3>7
    <3>9. SumFunctionOnSet(f, s \ {x}) = f[c] + r
      BY <3>3, <3>7
    <3>10. f[c] + (f[x] + r) = f[x] + (f[c] + r)
      BY <3>6
    <3> QED
      BY <3>8, <3>9, <3>10
  <2> QED
    BY <2>3, <2>4
<1>2. S \in G
  <2> HIDE DEF G
  <2> QED
    BY <1>1, SubsetSets
<1> QED
  BY <1>2

\* Changing one summand changes the sum by as much.
THEOREM SumUpdate ==
    ASSUME NEW S, IsFiniteSet(S), NEW z \in S, NEW f, NEW h,
           \A x \in S : f[x] \in Int /\ h[x] \in Int,
           \A x \in S \ {z} : f[x] = h[x]
    PROVE  SumFunctionOnSet(h, S) = SumFunctionOnSet(f, S) + h[z] - f[z]
<1>1. IsFiniteSet(S \ {z})
  BY FS_RemoveElement
<1>2. SumFunctionOnSet(h, S \ {z}) = SumFunctionOnSet(f, S \ {z})
  BY <1>1, SumSame
<1>3. PICK r \in Int : r = SumFunctionOnSet(f, S \ {z})
  BY <1>1, SumInt
<1>4. SumFunctionOnSet(f, S) = f[z] + r
  BY <1>3, SumSplit
<1>5. SumFunctionOnSet(h, S) = h[z] + r
  BY <1>2, <1>3, SumSplit
<1>6. f[z] \in Int /\ h[z] \in Int
  OBVIOUS
<1> QED
  BY <1>4, <1>5, <1>6

\* A sum of zeros.
THEOREM SumZero ==
    ASSUME NEW S, IsFiniteSet(S), NEW f, \A x \in S : f[x] = 0
    PROVE  SumFunctionOnSet(f, S) = 0
<1> DEFINE G == {s \in SUBSET S : SumFunctionOnSet(f, s) = 0}
<1>1. ASSUME NEW s \in SUBSET S, \A x \in s : s \ {x} \in G
      PROVE  s \in G
  <2>1. CASE s = {}
    BY <2>1, SumEmpty
  <2>2. CASE s # {}
    <3>1. PICK c \in s : c = Ch(s)
      BY <2>2, ChIn
    <3>2. IsFiniteSet(s)
      BY FS_Subset
    <3>3. s \ {c} \in G /\ c \in S
      BY <1>1
    <3>4. SumFunctionOnSet(f, s) = f[c] + SumFunctionOnSet(f, s \ {c})
      BY <2>2, <3>1, <3>2, SumChoose
    <3> QED
      BY <3>3, <3>4
  <2> QED
    BY <2>1, <2>2
<1>2. S \in G
  <2> HIDE DEF G
  <2> QED
    BY <1>1, SubsetSets
<1> QED
  BY <1>2
=============================================================================
