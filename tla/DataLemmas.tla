----------------------------- MODULE DataLemmas -----------------------------
(***************************************************************************)
(* Induction without operator parameters, for proofs about data: the least *)
(* number of a set, induction over Nat as a fact about sets, a fold over a  *)
(* sequence, whose step is given as a function, and ranks in finite sets.  *)
(***************************************************************************)
EXTENDS Naturals, FiniteSetTheorems, FiniteSetsExt, TLAPS

\* A set of numbers has a least element: < is well-founded.
LEMMA LeastNat ==
  ASSUME NEW T, T \subseteq Nat, T # {}
  PROVE  \E m \in T : \A k \in T : m <= k
<1> DEFINE R == {p \in Nat \X Nat : p[1] < p[2]}
<1>1. IsWellFoundedOn(R, Nat)
  <2>1. R = OpToRel(<, Nat)
    BY DEF OpToRel
  <2> QED
    BY <2>1, NatLessThanWellFounded
<1>2. \E x \in T : \A y \in T : <<y, x>> \notin R
  <2> HIDE DEF R
  <2> QED
    BY <1>1, WFMin
<1>3. \A x, y \in Nat : <<y, x>> \in R <=> y < x
  OBVIOUS
<1> HIDE DEF R
<1>4. PICK m \in T : \A y \in T : <<y, m>> \notin R
  BY <1>2
<1>5. \A k \in T : m \in Nat /\ k \in Nat /\ ~(k < m)
  BY <1>3, <1>4
<1> QED
  BY <1>5

\* Induction.
LEMMA NatInd ==
  ASSUME NEW S, 0 \in S, \A n \in Nat : n \in S => n + 1 \in S
  PROVE  \A n \in Nat : n \in S
<1> DEFINE T == Nat \ S
<1>1. SUFFICES ASSUME T # {} PROVE FALSE
  OBVIOUS
<1>2. PICK m \in T : \A k \in T : m <= k
  BY <1>1, LeastNat
<1>3. m - 1 \in Nat /\ m - 1 \notin T
  BY <1>2
<1> QED
  BY <1>2, <1>3

\* The greatest of some of the numbers from 1 to n
LEMMA GreatestOf ==
  ASSUME NEW n \in Nat, NEW S \in SUBSET (1 .. n), S # {}
  PROVE  Max(S) \in S /\ \A k \in S : k <= Max(S)
<1> DEFINE T == {n - k : k \in S}
<1>0. \A k \in S : k \in Nat /\ k <= n /\ n - k \in Nat
  OBVIOUS
<1>1. T \subseteq Nat /\ T # {}
  BY <1>0
<1>2. PICK m \in T : \A t \in T : m <= t
  BY <1>1, LeastNat
<1>3. PICK k \in S : m = n - k
  BY <1>2
<1>4. \A j \in S : k >= j
  <2> SUFFICES ASSUME NEW j \in S PROVE k >= j
    OBVIOUS
  <2>1. m <= n - j
    BY <1>2
  <2> QED
    BY <1>0, <1>3, <2>1
<1> QED
  BY <1>0, <1>4 DEF Max
-----------------------------------------------------------------------------
(* A fold over the positions 1 .. n, from the first to the last, by the step  *)
(* `step' from a value of V and a position to a value of V.  The library      *)
(* recurs over the sets of positions and takes the greatest of each.          *)

Folded(it, base, step, n) ==
  \A S \in SUBSET (1 .. n) :
     it[S] = IF S = {} THEN base ELSE step[<<it[S \ {Max(S)}], Max(S)>>]

LEMMA FoldExists ==
  ASSUME NEW V, NEW base \in V, NEW n \in Nat, NEW step \in [V \X (1 .. n) -> V]
  PROVE  \E it \in [SUBSET (1 .. n) -> V] : Folded(it, base, step, n)
<1> DEFINE P(k) == \E it \in [SUBSET (1 .. k) -> V] : Folded(it, base, step, k)
           D == {k \in Nat : k <= n => P(k)}
<1>d. \A k \in Nat : k \in D <=> (k <= n => P(k))
  OBVIOUS
<1>1. 0 \in D
  <2> DEFINE it == [S \in SUBSET (1 .. 0) |-> base]
  <2>1. it \in [SUBSET (1 .. 0) -> V] /\ Folded(it, base, step, 0)
    BY DEF Folded
  <2> HIDE DEF it
  <2>2. P(0)
    BY <2>1
  <2> QED
    BY <2>2
<1>2. ASSUME NEW k \in Nat, k \in D PROVE k + 1 \in D
  <2> HIDE DEF D, P
  <2> SUFFICES ASSUME k + 1 <= n PROVE P(k + 1)
    BY <1>d
  <2>0. P(k)
    BY <1>2, <1>d
  <2>1. PICK it \in [SUBSET (1 .. k) -> V] : Folded(it, base, step, k)
    BY <2>0 DEF P
  <2> DEFINE nx == [S \in SUBSET (1 .. k + 1) |->
                      IF k + 1 \in S THEN step[<<it[S \ {k + 1}], k + 1>>] ELSE it[S]]
  <2>2. \A S \in SUBSET (1 .. k + 1) : S \ {k + 1} \in SUBSET (1 .. k)
    OBVIOUS
  <2>3. \A S \in SUBSET (1 .. k + 1) : k + 1 \notin S => S \in SUBSET (1 .. k)
    OBVIOUS
  <2>4. nx \in [SUBSET (1 .. k + 1) -> V]
    BY <2>1, <2>2, <2>3
  <2>5. \A S \in SUBSET (1 .. k) : S \in SUBSET (1 .. k + 1) /\ k + 1 \notin S /\ nx[S] = it[S]
    OBVIOUS
  <2>6. \A S \in SUBSET (1 .. k + 1) : k + 1 \in S => nx[S] = step[<<it[S \ {k + 1}], k + 1>>]
    OBVIOUS
  <2> HIDE DEF nx
  <2>7. ASSUME NEW S \in SUBSET (1 .. k + 1)
        PROVE  nx[S] = IF S = {} THEN base ELSE step[<<nx[S \ {Max(S)}], Max(S)>>]
    <3>1. CASE k + 1 \in S
      <4>1. Max(S) = k + 1
        <5>1. k + 1 \in Nat /\ S # {}
          BY <3>1
        <5>2. Max(S) \in S /\ k + 1 <= Max(S)
          BY <3>1, <5>1, GreatestOf
        <5>3. Max(S) \in 1 .. k + 1
          BY <5>2
        <5> QED
          BY <5>2, <5>3
      <4> QED
        BY <3>1, <4>1, <2>2, <2>5, <2>6
    <3>2. CASE k + 1 \notin S
      <4>1. S \in SUBSET (1 .. k) /\ S \ {Max(S)} \in SUBSET (1 .. k)
        BY <3>2, <2>3
      <4> QED
        BY <4>1, <2>1, <2>5 DEF Folded
    <3> QED
      BY <3>1, <3>2
  <2> QED
    BY <2>4, <2>7 DEF Folded, P
<1> HIDE DEF D, P
<1>3. n \in D
  BY <1>1, <1>2, NatInd
<1>4. P(n)
  BY <1>3, <1>d
<1> QED
  BY <1>4 DEF P

\* What it folds at a time: the last position, after those before it
LEMMA UpTo ==
  ASSUME NEW k \in Nat \ {0}
  PROVE  Max(1 .. k) = k /\ (1 .. k) \ {k} = 1 .. k - 1 /\ 1 .. k # {}
<1>1. k \in Nat /\ k \in 1 .. k /\ 1 .. k \in SUBSET (1 .. k) /\ 1 .. k # {}
  OBVIOUS
<1>2. Max(1 .. k) \in 1 .. k /\ k <= Max(1 .. k)
  BY <1>1, GreatestOf
<1> QED
  BY <1>1, <1>2

LEMMA MinOfTwo ==
  ASSUME NEW a \in Int, NEW b \in Int
  PROVE  Min({a, b}) = IF a <= b THEN a ELSE b
<1> DEFINE m == IF a <= b THEN a ELSE b
<1>1. m \in {a, b} /\ \A y \in {a, b} : m <= y
  OBVIOUS
<1>2. \A x \in {a, b} : (\A y \in {a, b} : x <= y) => x = m
  OBVIOUS
<1> HIDE DEF m
<1>3. Min({a, b}) \in {a, b} /\ \A y \in {a, b} : Min({a, b}) <= y
  BY <1>1 DEF Min
<1>4. Min({a, b}) = m
  BY <1>2, <1>3
<1> QED
  BY <1>4 DEF m
-----------------------------------------------------------------------------
(* The rank of a number in a finite set of numbers: how many are not greater. *)

Rank(S, k) == Cardinality({j \in S : j <= k})

\* Counting along a map that hits each element once, or once at most
LEMMA SameCount ==
  ASSUME NEW S, NEW T, IsFiniteSet(S), NEW f \in [S -> T],
         \A x, y \in S : f[x] = f[y] => x = y, \A t \in T : \E x \in S : f[x] = t
  PROVE  IsFiniteSet(T) /\ Cardinality(T) = Cardinality(S)
<1>1. f \in Bijection(S, T)
  BY DEF Bijection, Injection, Surjection, IsInjective
<1> QED
  BY <1>1, FS_Bijection DEF ExistsBijection

LEMMA NoMore ==
  ASSUME NEW S, NEW T, IsFiniteSet(T), NEW f \in [S -> T],
         \A x, y \in S : f[x] = f[y] => x = y
  PROVE  IsFiniteSet(S) /\ Cardinality(S) <= Cardinality(T)
<1>1. f \in Injection(S, T)
  BY DEF Injection, IsInjective
<1> QED
  BY <1>1, FS_Injection

LEMMA RankType ==
  ASSUME NEW S \in SUBSET Nat, IsFiniteSet(S), NEW k \in S
  PROVE  Rank(S, k) \in 1 .. Cardinality(S)
<1> DEFINE T == {j \in S : j <= k}
<1>1. T \in SUBSET S /\ k \in T
  OBVIOUS
<1> HIDE DEF T
<1>2. IsFiniteSet(T) /\ Cardinality(T) <= Cardinality(S)
  BY <1>1, FS_Subset
<1>3. Cardinality(T) \in Nat /\ Cardinality(T) # 0 /\ Cardinality(S) \in Nat
  BY <1>1, <1>2, FS_CardinalityType, FS_EmptySet
<1>4. Cardinality(T) \in 1 .. Cardinality(S)
  BY <1>2, <1>3
<1> QED
  BY <1>4 DEF Rank, T

\* The rank grows with the number.
LEMMA RankGrows ==
  ASSUME NEW S \in SUBSET Nat, IsFiniteSet(S), NEW j \in S, NEW k \in S, j < k
  PROVE  Rank(S, j) < Rank(S, k)
<1> DEFINE A == {i \in S : i <= j}
           B == {i \in S : i <= k}
<1>1. A \in SUBSET B /\ B \in SUBSET S /\ k \in B /\ k \notin A
  <2>1. j \in Nat /\ k \in Nat /\ \A i \in S : i \in Nat
    OBVIOUS
  <2>2. \A i \in S : i <= j => i <= k
    BY <2>1
  <2>3. k <= k /\ ~(k <= j)
    BY <2>1
  <2>4. A \subseteq B
    BY <2>2
  <2> QED
    BY <2>3, <2>4
<1> HIDE DEF A, B
<1>2. IsFiniteSet(B)
  BY <1>1, FS_Subset
<1>3. Cardinality(A) <= Cardinality(B) /\ Cardinality(A) # Cardinality(B) /\ IsFiniteSet(A)
  BY <1>1, <1>2, FS_Subset
<1>4. Cardinality(A) \in Nat /\ Cardinality(B) \in Nat
  BY <1>2, <1>3, FS_CardinalityType
<1>5. Cardinality(A) < Cardinality(B)
  BY <1>3, <1>4
<1> QED
  BY <1>5 DEF Rank, A, B

LEMMA RankUnique ==
  ASSUME NEW S \in SUBSET Nat, IsFiniteSet(S)
  PROVE  \A j, k \in S : Rank(S, j) = Rank(S, k) => j = k
<1> SUFFICES ASSUME NEW j \in S, NEW k \in S, Rank(S, j) = Rank(S, k), j # k PROVE FALSE
  OBVIOUS
<1>1. Rank(S, j) \in 1 .. Cardinality(S) /\ Rank(S, k) \in 1 .. Cardinality(S)
  BY RankType
<1>2. j < k \/ k < j
  OBVIOUS
<1>3. Rank(S, j) < Rank(S, k) \/ Rank(S, k) < Rank(S, j)
  BY <1>2, RankGrows
<1>4. \A a \in Int : ~(a < a)
  OBVIOUS
<1> QED
  BY <1>1, <1>3, <1>4

\* Each rank up to the size of the set is somebody's.
LEMMA RankExists ==
  ASSUME NEW S \in SUBSET Nat, IsFiniteSet(S), NEW r \in 1 .. Cardinality(S)
  PROVE  \E k \in S : Rank(S, k) = r
<1> DEFINE n == Cardinality(S)
           f == [k \in S |-> Rank(S, k)]
<1>1. n \in Nat
  BY FS_CardinalityType
<1>2. f \in [S -> 1 .. n]
  BY RankType
<1>3. \A j, k \in S : f[j] = f[k] => j = k
  BY RankUnique
<1> HIDE DEF f
<1>4. f \in Injection(S, 1 .. n)
  BY <1>2, <1>3 DEF Injection, IsInjective
<1>5. IsFiniteSet(1 .. n) /\ Cardinality(1 .. n) = n
  BY <1>1, FS_Interval
<1>6. f \in Surjection(S, 1 .. n)
  BY <1>4, <1>5, FS_Injection
<1>7. \E k \in S : f[k] = r
  BY <1>6 DEF Surjection
<1> QED
  BY <1>7 DEF f
=============================================================================
