---------------------------- MODULE SphereProofs ----------------------------
(***************************************************************************)
(* Theorems about Sphere, for any names, crowd, number of cards and polls. *)
(*                                                                         *)
(* First what syncSlots does to a list: who keeps a slot is paired with    *)
(* the entries of the list that bring nobody new, rank by rank among those *)
(* of one name, so that the new ones fit into what is free.                *)
(***************************************************************************)
EXTENDS Sphere, DataLemmas, SequenceTheorems

NameOrBlank == Names \cup {Blank}

-----------------------------------------------------------------------------
(* The elements of a list at some positions.                               *)

OnlyTakes(list, at, o) ==
  /\ DOMAIN o = 1 .. Cardinality(at)
  /\ Len(o) = Cardinality(at)
  /\ \A r \in DOMAIN o : \E k \in at : Rank(at, k) = r /\ o[r] = list[k]

LEMMA OnlyTaken ==
  ASSUME NEW list, NEW at \in SUBSET Nat, IsFiniteSet(at)
  PROVE  OnlyTakes(list, at, Only(list, at))
<1> DEFINE n == Cardinality(at)
           pick(r) == CHOOSE k \in at : Cardinality({j \in at : j <= k}) = r
           o == [r \in 1 .. n |-> list[pick(r)]]
<1>1. n \in Nat
  BY FS_CardinalityType
<1>2. ASSUME NEW r \in 1 .. n
      PROVE  pick(r) \in at /\ Rank(at, pick(r)) = r
  <2>1. \E k \in at : Cardinality({j \in at : j <= k}) = r
    BY RankExists DEF Rank
  <2> QED
    BY <2>1 DEF Rank
<1> HIDE DEF pick
<1>3. DOMAIN o = 1 .. n /\ Len(o) = n
  BY <1>1
<1>4. \A r \in DOMAIN o : \E k \in at : Rank(at, k) = r /\ o[r] = list[k]
  BY <1>2
<1>5. o = Only(list, at)
  BY DEF Only, pick
<1> QED
  BY <1>3, <1>4, <1>5 DEF OnlyTakes

LEMMA OnlyType ==
  ASSUME NEW S, NEW list \in Seq(S), NEW at \in SUBSET DOMAIN list
  PROVE  Only(list, at) \in Seq(S) /\ IsFiniteSet(at)
<1>1. Len(list) \in Nat /\ DOMAIN list = 1 .. Len(list) /\ \A k \in DOMAIN list : list[k] \in S
  BY LenProperties
<1>2. IsFiniteSet(at) /\ at \in SUBSET Nat
  <2>1. IsFiniteSet(1 .. Len(list))
    BY <1>1, FS_Interval
  <2> QED
    BY <1>1, <2>1, FS_Subset
<1>3. OnlyTakes(list, at, Only(list, at)) /\ Cardinality(at) \in Nat
  BY <1>2, OnlyTaken, FS_CardinalityType
<1> DEFINE o == Only(list, at)
           n == Cardinality(at)
<1>4. DOMAIN o = 1 .. n /\ n \in Nat /\ \A r \in 1 .. n : o[r] \in S
  BY <1>1, <1>3 DEF OnlyTakes
<1>5. o = [r \in 1 .. n |-> o[r]]
  BY <1>4 DEF Only
<1> HIDE DEF o, n
<1>6. o \in Seq(S)
  BY <1>4, <1>5
<1> QED
  BY <1>2, <1>6 DEF o

-----------------------------------------------------------------------------
(* Who keeps a slot.                                                       *)

Where(s, n) == {k \in DOMAIN s : s[k] = n}
Keepers(old, want, n) == {i \in Slot : Kept(old, want, i) /\ old[i] = n}
Free(old, want) == {i \in Slot : ~Kept(old, want, i)}

\* The entries of the list that bring somebody new
Extra(old, want) ==
  {k \in DOMAIN want : Cardinality({j \in 1 .. k : want[j] = want[k]})
                          > Cardinality(Keepers(old, want, want[k]))}

LEMMA SlotsFinite ==
  /\ Cards \in Nat /\ IsFiniteSet(Slot) /\ Cardinality(Slot) = Cards
  /\ \A T \in SUBSET Slot : IsFiniteSet(T) /\ Cardinality(T) \in Nat /\ T \in SUBSET Nat
<1>1. Cards \in Nat
  BY SphereAssumption DEF SphereAssumption
<1>2. IsFiniteSet(Slot) /\ Cardinality(Slot) = Cards
  BY <1>1, FS_Interval DEF Slot
<1>3. ASSUME NEW T \in SUBSET Slot PROVE IsFiniteSet(T) /\ Cardinality(T) \in Nat /\ T \in SUBSET Nat
  <2>1. IsFiniteSet(T)
    BY <1>2, FS_Subset
  <2>2. \A i \in Slot : i \in Nat
    BY <1>1 DEF Slot
  <2> QED
    BY <2>1, <2>2, FS_CardinalityType
<1> QED
  BY <1>1, <1>2, <1>3

LEMMA ListFinite ==
  ASSUME NEW want \in Seq(Names)
  PROVE  /\ Len(want) \in Nat /\ DOMAIN want = 1 .. Len(want)
         /\ \A k \in DOMAIN want : want[k] \in Names
         /\ IsFiniteSet(DOMAIN want) /\ Cardinality(DOMAIN want) = Len(want)
         /\ \A T \in SUBSET DOMAIN want : IsFiniteSet(T) /\ Cardinality(T) \in Nat /\ T \in SUBSET Nat
<1>1. Len(want) \in Nat /\ DOMAIN want = 1 .. Len(want) /\ \A k \in DOMAIN want : want[k] \in Names
  BY LenProperties
<1>2. IsFiniteSet(DOMAIN want) /\ Cardinality(DOMAIN want) = Len(want)
  BY <1>1, FS_Interval
<1>3. ASSUME NEW T \in SUBSET DOMAIN want
      PROVE  IsFiniteSet(T) /\ Cardinality(T) \in Nat /\ T \in SUBSET Nat
  BY <1>1, <1>2, FS_Subset, FS_CardinalityType
<1> QED
  BY <1>1, <1>2, <1>3

\* The leftmost of a name keep their slots, as many as the list has of it.
LEMMA KeepersAre ==
  ASSUME NEW old \in [Slot -> NameOrBlank], NEW want \in Seq(Names), NEW n \in Names
  PROVE  Keepers(old, want, n) = {i \in Where(old, n) : Rank(Where(old, n), i) <= Count(want, n)}
<1>1. ASSUME NEW i \in Slot, old[i] = n
      PROVE  {j \in 1 .. i : old[j] = old[i]} = {j \in Where(old, n) : j <= i}
  <2>1. Cards \in Nat /\ DOMAIN old = Slot /\ Slot = 1 .. Cards
    BY SlotsFinite DEF Slot
  <2>2. \A j : j \in 1 .. i <=> j \in Slot /\ j <= i
    BY <2>1
  <2> QED
    BY <1>1, <2>1, <2>2 DEF Where
<1>2. n # Blank
  BY SphereAssumption DEF SphereAssumption
<1>3. ASSUME NEW i \in Slot, old[i] = n
      PROVE  Kept(old, want, i) <=> Rank(Where(old, n), i) <= Count(want, n)
  <2>1. old[i] # Blank /\ Count(want, old[i]) = Count(want, n)
    BY <1>2, <1>3
  <2>2. Cardinality({j \in 1 .. i : old[j] = old[i]}) = Rank(Where(old, n), i)
    BY <1>1, <1>3 DEF Rank
  <2> QED
    BY <2>1, <2>2 DEF Kept
<1> QED
  BY <1>3 DEF Keepers, Where

\* Their ranks are those up to their number.
LEMMA KeepersRanks ==
  ASSUME NEW old \in [Slot -> NameOrBlank], NEW want \in Seq(Names), NEW n \in Names
  PROVE  /\ \A i \in Keepers(old, want, n) :
               Rank(Where(old, n), i) \in 1 .. Cardinality(Keepers(old, want, n))
         /\ \A r \in 1 .. Cardinality(Keepers(old, want, n)) :
               \E i \in Keepers(old, want, n) : Rank(Where(old, n), i) = r
         /\ \A i, j \in Keepers(old, want, n) : Rank(Where(old, n), i) = Rank(Where(old, n), j) => i = j
         /\ Cardinality(Keepers(old, want, n)) <= Count(want, n)
<1> DEFINE W == Where(old, n)
           K == Keepers(old, want, n)
           c == Count(want, n)
<1>1. W \in SUBSET Slot /\ K = {i \in W : Rank(W, i) <= c}
  BY KeepersAre DEF Where
<1>2. c \in Nat
  <2>1. {k \in DOMAIN want : want[k] = n} \in SUBSET DOMAIN want
    OBVIOUS
  <2> QED
    BY <2>1, ListFinite DEF Count
<1> HIDE DEF W, K, c
<1>3. /\ IsFiniteSet(W) /\ W \in SUBSET Nat /\ Cardinality(W) \in Nat
      /\ IsFiniteSet(K) /\ K \in SUBSET W /\ Cardinality(K) \in Nat /\ Cardinality(K) <= Cardinality(W)
  <2>1. IsFiniteSet(W) /\ W \in SUBSET Nat /\ Cardinality(W) \in Nat /\ K \in SUBSET W
    BY <1>1, SlotsFinite
  <2> QED
    BY <2>1, FS_Subset, FS_CardinalityType
<1>4. ASSUME NEW i \in K PROVE Rank(W, i) \in 1 .. Cardinality(K)
  <2> DEFINE T == {j \in W : j <= i}
  <2>1. i \in W /\ Rank(W, i) \in 1 .. Cardinality(W) /\ Rank(W, i) <= c
    BY <1>1, <1>3, RankType
  <2>2. ASSUME NEW j \in T PROVE j \in K
    <3>1. CASE j = i
      BY <3>1
    <3>2. CASE j # i
      <4>1. j \in W /\ j < i
        BY <2>1, <1>3, <3>2
      <4>2. Rank(W, j) < Rank(W, i) /\ Rank(W, j) \in 1 .. Cardinality(W)
        BY <1>3, <2>1, <4>1, RankGrows, RankType
      <4>3. Rank(W, j) <= c
        BY <1>2, <2>1, <4>2
      <4> QED
        BY <1>1, <4>1, <4>3
    <3> QED
      BY <3>1, <3>2
  <2>3. T \in SUBSET K
    BY <2>2
  <2> HIDE DEF T
  <2>4. Cardinality(T) <= Cardinality(K)
    BY <1>3, <2>3, FS_Subset
  <2>5. Rank(W, i) <= Cardinality(K)
    BY <2>4 DEF Rank, T
  <2> QED
    BY <1>3, <2>1, <2>5
<1>5. Cardinality(K) <= c
  <2> DEFINE f == [i \in K |-> Rank(W, i)]
  <2>1. ASSUME NEW i \in K PROVE Rank(W, i) \in 1 .. c
    <3>1. i \in W /\ Rank(W, i) \in 1 .. Cardinality(W) /\ Rank(W, i) <= c
      BY <1>1, <1>3, RankType
    <3> QED
      BY <1>2, <3>1
  <2>2. f \in [K -> 1 .. c] /\ \A i, j \in K : f[i] = f[j] => i = j
    BY <1>3, <2>1, RankUnique
  <2> HIDE DEF f
  <2>3. IsFiniteSet(1 .. c) /\ Cardinality(1 .. c) = c
    BY <1>2, FS_Interval
  <2> QED
    BY <2>2, <2>3, NoMore
<1>6. ASSUME NEW r \in 1 .. Cardinality(K) PROVE \E i \in K : Rank(W, i) = r
  <2>1. r \in 1 .. Cardinality(W) /\ r <= c
    BY <1>2, <1>3, <1>5
  <2>2. PICK i \in W : Rank(W, i) = r
    BY <1>3, <2>1, RankExists
  <2> QED
    BY <1>1, <2>1, <2>2
<1>7. \A i, j \in K : Rank(W, i) = Rank(W, j) => i = j
  BY <1>3, RankUnique
<1> QED
  BY <1>4, <1>5, <1>6, <1>7 DEF K, W, c

\* An entry brings somebody new when its rank is beyond those who keep a slot.
LEMMA ExtraAre ==
  ASSUME NEW old, NEW want \in Seq(Names), NEW k \in DOMAIN want
  PROVE  k \in Extra(old, want) <=>
           Rank(Where(want, want[k]), k) > Cardinality(Keepers(old, want, want[k]))
<1>1. Len(want) \in Nat /\ DOMAIN want = 1 .. Len(want)
  BY ListFinite
<1>2. \A j : j \in 1 .. k <=> j \in DOMAIN want /\ j <= k
  BY <1>1
<1>3. {j \in 1 .. k : want[j] = want[k]} = {j \in Where(want, want[k]) : j <= k}
  BY <1>2 DEF Where
<1> QED
  BY <1>3 DEF Extra, Rank

\* Those who keep a slot, and the entries that bring nobody new: as many of each
\* name, and as many in all.
LEMMA KeptOfName ==
  ASSUME NEW old \in [Slot -> NameOrBlank], NEW want \in Seq(Names), NEW n \in Names
  PROVE  Cardinality(Keepers(old, want, n)) = Cardinality(Where(want, n) \ Extra(old, want))
<1> DEFINE c == Cardinality(Keepers(old, want, n))
           U == Where(want, n)
           V == U \ Extra(old, want)
           f == [k \in V |-> Rank(U, k)]
<1>1. /\ U \in SUBSET DOMAIN want /\ IsFiniteSet(U) /\ U \in SUBSET Nat /\ Cardinality(U) \in Nat
      /\ IsFiniteSet(V) /\ c \in Nat
  <2>1. U \in SUBSET DOMAIN want /\ V \in SUBSET DOMAIN want
    BY DEF Where
  <2>2. Keepers(old, want, n) \in SUBSET Slot
    BY DEF Keepers
  <2> HIDE DEF U, V
  <2> QED
    BY <2>1, <2>2, ListFinite, SlotsFinite
<1>2. c <= Cardinality(U)
  BY KeepersRanks DEF Count, Where
<1>3. \A k \in U : k \in V <=> Rank(U, k) <= c
  <2> SUFFICES ASSUME NEW k \in U PROVE k \in V <=> Rank(U, k) <= c
    OBVIOUS
  <2>1. k \in DOMAIN want /\ want[k] = n
    BY DEF Where
  <2>2. Rank(U, k) \in Nat
    BY <1>1, RankType
  <2>3. k \in Extra(old, want) <=> Rank(U, k) > c
    BY <2>1, ExtraAre
  <2> HIDE DEF U, c
  <2> QED
    BY <1>1, <2>2, <2>3
<1>v. V \in SUBSET U
  OBVIOUS
<1> HIDE DEF U, V, c
<1>4. ASSUME NEW k \in V PROVE Rank(U, k) \in 1 .. c
  <2>1. Rank(U, k) \in 1 .. Cardinality(U) /\ Rank(U, k) <= c
    BY <1>1, <1>3, <1>v, RankType
  <2> QED
    BY <1>1, <2>1
<1>5. f \in [V -> 1 .. c] /\ \A j, k \in V : f[j] = f[k] => j = k
  BY <1>1, <1>4, <1>v, RankUnique
<1>6. ASSUME NEW r \in 1 .. c PROVE \E k \in V : f[k] = r
  <2>1. r \in 1 .. Cardinality(U) /\ r <= c
    BY <1>1, <1>2
  <2>2. PICK k \in U : Rank(U, k) = r
    BY <1>1, <2>1, RankExists
  <2> QED
    BY <1>3, <2>1, <2>2
<1> HIDE DEF f
<1>7. Cardinality(1 .. c) = Cardinality(V)
  BY <1>1, <1>5, <1>6, SameCount
<1>8. Cardinality(1 .. c) = c
  BY <1>1, FS_Interval
<1> QED
  BY <1>7, <1>8 DEF c, U, V

LEMMA KeptInAll ==
  ASSUME NEW old \in [Slot -> NameOrBlank], NEW want \in Seq(Names)
  PROVE  Cardinality(Slot \ Free(old, want)) = Cardinality(DOMAIN want \ Extra(old, want))
<1> DEFINE K(n) == Keepers(old, want, n)
           U(n) == Where(want, n)
           W(n) == Where(old, n)
           S == Slot \ Free(old, want)
           T == DOMAIN want \ Extra(old, want)
           Same(i, k) == want[k] = old[i] /\ Rank(U(old[i]), k) = Rank(W(old[i]), i)
           f == [i \in S |-> CHOOSE k \in T : Same(i, k)]
<1>1. \A i \in S : old[i] \in Names /\ i \in K(old[i])
  BY DEF Free, Kept, Keepers, NameOrBlank
<1>2. \A n \in Names : /\ U(n) \in SUBSET DOMAIN want /\ IsFiniteSet(U(n)) /\ U(n) \in SUBSET Nat
                       /\ Cardinality(U(n)) \in Nat /\ Cardinality(K(n)) \in Nat
                       /\ Cardinality(K(n)) <= Cardinality(U(n))
  <2> SUFFICES ASSUME NEW n \in Names
               PROVE  /\ U(n) \in SUBSET DOMAIN want /\ IsFiniteSet(U(n)) /\ U(n) \in SUBSET Nat
                      /\ Cardinality(U(n)) \in Nat /\ Cardinality(K(n)) \in Nat
                      /\ Cardinality(K(n)) <= Cardinality(U(n))
    OBVIOUS
  <2>1. U(n) \in SUBSET DOMAIN want /\ K(n) \in SUBSET Slot
    BY DEF Where, Keepers
  <2>2. Cardinality(K(n)) <= Cardinality(U(n))
    BY KeepersRanks DEF Count, Where
  <2> HIDE DEF U, K
  <2> QED
    BY <2>1, <2>2, ListFinite, SlotsFinite
<1>3. \A k \in DOMAIN want : /\ want[k] \in Names /\ k \in U(want[k])
                             /\ k \in T <=> Rank(U(want[k]), k) <= Cardinality(K(want[k]))
  <2> SUFFICES ASSUME NEW k \in DOMAIN want
               PROVE  /\ want[k] \in Names /\ k \in U(want[k])
                      /\ k \in T <=> Rank(U(want[k]), k) <= Cardinality(K(want[k]))
    OBVIOUS
  <2>1. want[k] \in Names /\ k \in U(want[k])
    BY ListFinite DEF Where
  <2>2. Rank(U(want[k]), k) \in Nat
    BY <1>2, <2>1, RankType
  <2>3. Rank(U(want[k]), k) > Cardinality(K(want[k])) <=> k \in Extra(old, want)
    BY ExtraAre
  <2> HIDE DEF U, K
  <2>4. ~(Rank(U(want[k]), k) > Cardinality(K(want[k]))) <=> Rank(U(want[k]), k) <= Cardinality(K(want[k]))
    BY <1>2, <2>1, <2>2
  <2> QED
    BY <2>1, <2>3, <2>4
<1>4. /\ \A n \in Names : \A i \in K(n) : Rank(W(n), i) \in 1 .. Cardinality(K(n))
      /\ \A n \in Names : \A r \in 1 .. Cardinality(K(n)) : \E i \in K(n) : Rank(W(n), i) = r
      /\ \A n \in Names : \A i, j \in K(n) : Rank(W(n), i) = Rank(W(n), j) => i = j
  BY KeepersRanks
<1>5. \A n \in Names : \A i \in K(n) : i \in S /\ old[i] = n
  BY DEF Keepers, Free
<1>u. \A n \in Names : \A k \in U(n) : want[k] = n
  BY DEF Where
<1>t. T \in SUBSET DOMAIN want
  OBVIOUS
<1> HIDE DEF K, U, W, S, T
<1>6. ASSUME NEW i \in S PROVE \E k \in T : Same(i, k)
  <2> DEFINE n == old[i]
             r == Rank(W(n), i)
  <2>1. n \in Names /\ r \in 1 .. Cardinality(K(n))
    BY <1>1, <1>4
  <2> HIDE DEF n, r
  <2>2. r \in 1 .. Cardinality(U(n)) /\ r <= Cardinality(K(n))
    BY <1>2, <2>1
  <2>3. PICK k \in U(n) : Rank(U(n), k) = r
    BY <1>2, <2>1, <2>2, RankExists
  <2>4. k \in DOMAIN want /\ want[k] = n
    BY <1>2, <1>u, <2>1
  <2> QED
    BY <1>3, <2>2, <2>3, <2>4 DEF n, r
<1>7. \A i \in S : f[i] \in T /\ Same(i, f[i])
  BY <1>6
<1>8. f \in [S -> T]
  BY <1>7
<1> HIDE DEF f
<1>9. ASSUME NEW i \in S, NEW j \in S, f[i] = f[j] PROVE i = j
  <2>1. old[i] = old[j] /\ Rank(W(old[i]), i) = Rank(W(old[i]), j)
    BY <1>7, <1>9
  <2> QED
    BY <1>1, <1>4, <2>1
<1>10. ASSUME NEW k \in T PROVE \E i \in S : f[i] = k
  <2> DEFINE n == want[k]
             r == Rank(U(n), k)
  <2>1. n \in Names /\ k \in U(n) /\ r \in 1 .. Cardinality(K(n))
    <3>1. n \in Names /\ k \in U(n) /\ r <= Cardinality(K(n))
      BY <1>3, <1>t
    <3>2. r \in 1 .. Cardinality(U(n))
      BY <1>2, <3>1, RankType
    <3> HIDE DEF n, r
    <3> QED
      BY <1>2, <3>1, <3>2
  <2>2. PICK i \in K(n) : Rank(W(n), i) = r
    BY <1>4, <2>1
  <2> HIDE DEF n, r
  <2>3. i \in S /\ old[i] = n
    BY <1>5, <2>1
  <2>4. want[f[i]] = n /\ Rank(U(n), f[i]) = r /\ f[i] \in T
    <3>1. f[i] \in T /\ Same(i, f[i])
      BY <1>7, <2>3
    <3>2. old[i] = n
      BY <2>3
    <3> QED
      BY <2>2, <3>1, <3>2
  <2>5. f[i] \in U(n)
    BY <1>3, <1>t, <2>4
  <2>6. Rank(U(n), k) = r
    BY DEF r
  <2>7. f[i] = k
    <3>1. IsFiniteSet(U(n)) /\ U(n) \in SUBSET Nat
      BY <1>2, <2>1
    <3>2. \A j, e \in U(n) : Rank(U(n), j) = Rank(U(n), e) => j = e
      BY <3>1, RankUnique
    <3> QED
      BY <2>1, <2>4, <2>5, <2>6, <3>2
  <2> QED
    BY <2>3, <2>7
<1>11. IsFiniteSet(S)
  BY SlotsFinite DEF S
<1>12. Cardinality(T) = Cardinality(S)
  BY <1>8, <1>9, <1>10, <1>11, SameCount
<1> QED
  BY <1>12 DEF S, T

-----------------------------------------------------------------------------
(* What the ball shows of a list.                                          *)

\* The list, or as much of it as there are cards
Shows(shown, list) ==
  IF Len(list) <= Cards
  THEN \A n \in Names : Count(shown, n) = Count(list, n)
  ELSE \A i \in Slot : shown[i] # Blank /\ Count(shown, shown[i]) <= Count(list, shown[i])

\* The kept slots are as they were, and the others have the new entries in order.
Filled(old, want, sync) ==
  /\ sync \in [Slot -> NameOrBlank]
  /\ \A i \in Slot \ Free(old, want) : sync[i] = old[i] /\ sync[i] # Blank
  /\ \A i \in Free(old, want) :
       IF Rank(Free(old, want), i) <= Cardinality(Extra(old, want))
       THEN \E k \in Extra(old, want) :
               Rank(Extra(old, want), k) = Rank(Free(old, want), i) /\ sync[i] = want[k]
       ELSE sync[i] = Blank

LEMMA SyncFills ==
  ASSUME NEW old \in [Slot -> NameOrBlank], NEW want \in Seq(Names)
  PROVE  Filled(old, want, SyncSlots(old, want))
<1> DEFINE F == Free(old, want)
           X == Extra(old, want)
           new == Only(want, X)
           sync == SyncSlots(old, want)
<1>1. sync = [i \in Slot |-> IF i \notin F THEN old[i]
                             ELSE IF Rank(F, i) <= Len(new) THEN new[Rank(F, i)] ELSE Blank]
  BY DEF SyncSlots, Newcomers, Free, Extra, Keepers, Rank
<1>2. X \in SUBSET DOMAIN want /\ F \in SUBSET Slot
  BY DEF Extra, Free
<1>3. /\ IsFiniteSet(X) /\ Cardinality(X) \in Nat /\ X \in SUBSET Nat
      /\ IsFiniteSet(F) /\ Cardinality(F) \in Nat /\ F \in SUBSET Nat
  BY <1>2, ListFinite, SlotsFinite
<1>4. \A i \in Slot \ F : old[i] # Blank
  BY DEF Free, Kept
<1> HIDE DEF F, X, sync
<1>5. OnlyTakes(want, X, new)
  BY <1>3, OnlyTaken
<1> HIDE DEF new
<1>6. DOMAIN sync = Slot /\ \A i \in Slot \ F : sync[i] = old[i] /\ sync[i] # Blank
  BY <1>1, <1>4
<1>7. ASSUME NEW i \in F
      PROVE  IF Rank(F, i) <= Cardinality(X)
             THEN \E k \in X : Rank(X, k) = Rank(F, i) /\ sync[i] = want[k]
             ELSE sync[i] = Blank
  <2>1. i \in Slot /\ Rank(F, i) \in 1 .. Cardinality(F)
    BY <1>2, <1>3, RankType
  <2>2. CASE Rank(F, i) <= Cardinality(X)
    <3>1. Rank(F, i) \in DOMAIN new
      BY <1>3, <1>5, <2>1, <2>2 DEF OnlyTakes
    <3>2. sync[i] = new[Rank(F, i)]
      BY <1>1, <1>5, <2>1, <2>2 DEF OnlyTakes
    <3> QED
      BY <1>5, <2>2, <3>1, <3>2 DEF OnlyTakes
  <2>3. CASE ~(Rank(F, i) <= Cardinality(X))
    BY <1>1, <1>5, <2>1, <2>3 DEF OnlyTakes
  <2> QED
    BY <2>2, <2>3
<1>8. ASSUME NEW i \in Slot PROVE sync[i] \in NameOrBlank
  <2>1. CASE i \notin F
    BY <1>6, <2>1
  <2>2. CASE i \in F
    BY <1>2, <1>7, <2>2, ListFinite DEF NameOrBlank
  <2> QED
    BY <2>1, <2>2
<1>9. sync = [i \in Slot |-> sync[i]]
  BY <1>1
<1>10. sync \in [Slot -> NameOrBlank]
  BY <1>8, <1>9
<1> QED
  BY <1>6, <1>7, <1>10 DEF Filled, F, X, sync

\* What is free and what is new: the list fits when the new entries do.
LEMMA RoomForExtra ==
  ASSUME NEW old \in [Slot -> NameOrBlank], NEW want \in Seq(Names)
  PROVE  Cardinality(Free(old, want)) - Cardinality(Extra(old, want)) = Cards - Len(want)
<1> DEFINE F == Free(old, want)
           X == Extra(old, want)
<1>1. F \in SUBSET Slot /\ X \in SUBSET DOMAIN want
  BY DEF Free, Extra
<1>2. /\ IsFiniteSet(Slot) /\ Cardinality(Slot) = Cards /\ Cards \in Nat
      /\ IsFiniteSet(DOMAIN want) /\ Cardinality(DOMAIN want) = Len(want) /\ Len(want) \in Nat
  BY SlotsFinite, ListFinite
<1>3. Cardinality(Slot \ F) = Cardinality(DOMAIN want \ X)
  BY KeptInAll
<1> HIDE DEF F, X
<1>4. Slot \cap F = F /\ DOMAIN want \cap X = X
  BY <1>1
<1>5. Cardinality(Slot \ F) = Cards - Cardinality(F)
  <2>1. Cardinality(Slot \ F) = Cardinality(Slot) - Cardinality(Slot \cap F)
    BY <1>2, FS_Difference
  <2> QED
    BY <1>2, <1>4, <2>1
<1>6. Cardinality(DOMAIN want \ X) = Len(want) - Cardinality(X)
  <2>1. Cardinality(DOMAIN want \ X) = Cardinality(DOMAIN want) - Cardinality(DOMAIN want \cap X)
    BY <1>2, FS_Difference
  <2> QED
    BY <1>2, <1>4, <2>1
<1>7. Cardinality(F) \in Nat /\ Cardinality(X) \in Nat
  BY <1>1, SlotsFinite, ListFinite
<1>8. Cards - Cardinality(F) = Len(want) - Cardinality(X)
  BY <1>3, <1>5, <1>6
<1> QED
  BY <1>2, <1>7, <1>8 DEF F, X

\* The new entries of a name that get a free slot
Seated(old, want, sync, n) ==
  {i \in Free(old, want) : /\ Rank(Free(old, want), i) <= Cardinality(Extra(old, want))
                           /\ sync[i] = n}

LEMMA SeatedCount ==
  ASSUME NEW old \in [Slot -> NameOrBlank], NEW want \in Seq(Names), NEW n \in Names,
         NEW sync, Filled(old, want, sync)
  PROVE  /\ Cardinality(Seated(old, want, sync, n)) <= Cardinality(Where(want, n) \cap Extra(old, want))
         /\ Cardinality(Extra(old, want)) <= Cardinality(Free(old, want)) =>
              Cardinality(Seated(old, want, sync, n)) = Cardinality(Where(want, n) \cap Extra(old, want))
<1> DEFINE F == Free(old, want)
           X == Extra(old, want)
           S == Seated(old, want, sync, n)
           Y == Where(want, n) \cap X
           g == [i \in S |-> CHOOSE k \in Y : Rank(X, k) = Rank(F, i)]
<1>1. X \in SUBSET DOMAIN want /\ F \in SUBSET Slot /\ Y \in SUBSET X /\ S \in SUBSET F
  BY DEF Extra, Free, Seated
<1>2. \A i : i \in S <=> i \in F /\ Rank(F, i) <= Cardinality(X) /\ sync[i] = n
  BY DEF Seated
<1>3. \A k : k \in Y <=> k \in X /\ want[k] = n
  BY <1>1 DEF Where
<1>4. \A i \in F : Rank(F, i) <= Cardinality(X) =>
         \E k \in X : Rank(X, k) = Rank(F, i) /\ sync[i] = want[k]
  BY DEF Filled
<1> HIDE DEF F, X, S, Y
<1>5. /\ IsFiniteSet(X) /\ Cardinality(X) \in Nat /\ X \in SUBSET Nat
      /\ IsFiniteSet(F) /\ Cardinality(F) \in Nat /\ F \in SUBSET Nat
      /\ IsFiniteSet(S) /\ Cardinality(S) \in Nat
      /\ IsFiniteSet(Y) /\ Cardinality(Y) \in Nat
  <2>1. S \in SUBSET Slot /\ Y \in SUBSET DOMAIN want
    BY <1>1
  <2> QED
    BY <1>1, <2>1, ListFinite, SlotsFinite
<1>6. \A i \in S : \E k \in Y : Rank(X, k) = Rank(F, i)
  BY <1>2, <1>3, <1>4
<1>7. \A i \in S : g[i] \in Y /\ Rank(X, g[i]) = Rank(F, i)
  BY <1>6
<1>8. g \in [S -> Y]
  BY <1>7
<1> HIDE DEF g
<1>9. ASSUME NEW i \in S, NEW j \in S, g[i] = g[j] PROVE i = j
  <2>1. Rank(F, i) = Rank(F, j) /\ i \in F /\ j \in F
    BY <1>1, <1>7, <1>9
  <2> QED
    BY <1>5, <2>1, RankUnique
<1>10. Cardinality(S) <= Cardinality(Y)
  BY <1>5, <1>8, <1>9, NoMore
<1>11. ASSUME Cardinality(X) <= Cardinality(F) PROVE Cardinality(S) = Cardinality(Y)
  <2>1. ASSUME NEW k \in Y PROVE \E i \in S : g[i] = k
    <3>1. k \in X /\ want[k] = n /\ Rank(X, k) \in 1 .. Cardinality(X)
      BY <1>3, <1>5, RankType
    <3>2. Rank(X, k) \in 1 .. Cardinality(F)
      BY <1>5, <1>11, <3>1
    <3>3. PICK i \in F : Rank(F, i) = Rank(X, k)
      BY <1>5, <3>2, RankExists
    <3>4. Rank(F, i) <= Cardinality(X)
      BY <3>1, <3>3
    <3>5. PICK e \in X : Rank(X, e) = Rank(F, i) /\ sync[i] = want[e]
      BY <1>4, <3>4
    <3>6. \A a, b \in X : Rank(X, a) = Rank(X, b) => a = b
      BY <1>5, RankUnique
    <3>7. e = k
      BY <3>1, <3>3, <3>5, <3>6
    <3>8. i \in S
      BY <1>2, <3>1, <3>4, <3>5, <3>7
    <3>9. g[i] \in X /\ Rank(X, g[i]) = Rank(X, k)
      BY <1>1, <1>7, <3>3, <3>8
    <3> QED
      BY <3>1, <3>6, <3>8, <3>9
  <2> QED
    BY <1>5, <1>8, <1>9, <2>1, SameCount
<1> QED
  BY <1>10, <1>11 DEF F, X, S, Y

LEMMA SyncCount ==
  ASSUME NEW old \in [Slot -> NameOrBlank], NEW want \in Seq(Names), NEW n \in Names,
         NEW sync, Filled(old, want, sync)
  PROVE  /\ Count(sync, n) <= Count(want, n)
         /\ Len(want) <= Cards => Count(sync, n) = Count(want, n)
<1> DEFINE F == Free(old, want)
           X == Extra(old, want)
           K == Keepers(old, want, n)
           S == Seated(old, want, sync, n)
           U == Where(want, n)
           Z == Where(sync, n)
<1>1. X \in SUBSET DOMAIN want /\ F \in SUBSET Slot /\ S \in SUBSET F /\ K \in SUBSET Slot \ F
      /\ U \in SUBSET DOMAIN want
  BY DEF Extra, Free, Seated, Keepers, Where
<1>2. n # Blank
  BY SphereAssumption DEF SphereAssumption
<1>3. Z = K \cup S
  <2>1. DOMAIN sync = Slot
    BY DEF Filled
  <2>2. ASSUME NEW i \in Slot \ F PROVE i \in Z <=> i \in K
    <3>1. sync[i] = old[i]
      BY DEF Filled
    <3> QED
      BY <2>1, <3>1 DEF Where, Keepers, Free
  <2>3. ASSUME NEW i \in F PROVE i \in Z <=> i \in S
    <3>1. sync[i] = n => Rank(F, i) <= Cardinality(X)
      BY <1>2 DEF Filled
    <3> QED
      BY <1>1, <2>1, <3>1 DEF Where, Seated
  <2>4. Z \in SUBSET Slot
    BY <2>1 DEF Where
  <2> HIDE DEF F, K, S, Z
  <2> QED
    BY <1>1, <2>2, <2>3, <2>4
<1>4. Cardinality(K) = Cardinality(U \ X)
  BY KeptOfName
<1>5. /\ Cardinality(S) <= Cardinality(U \cap X)
      /\ Cardinality(X) <= Cardinality(F) => Cardinality(S) = Cardinality(U \cap X)
  BY SeatedCount
<1>6. Cardinality(F) - Cardinality(X) = Cards - Len(want)
  BY RoomForExtra
<1>7. Count(sync, n) = Cardinality(Z) /\ Count(want, n) = Cardinality(U)
  BY DEF Count, Where
<1> HIDE DEF F, X, K, S, U, Z
<1>8. /\ IsFiniteSet(K) /\ Cardinality(K) \in Nat /\ IsFiniteSet(S) /\ Cardinality(S) \in Nat
      /\ IsFiniteSet(U) /\ Cardinality(U) \in Nat /\ Cardinality(U \cap X) \in Nat
      /\ Cardinality(F) \in Nat /\ Cardinality(X) \in Nat /\ Cards \in Nat /\ Len(want) \in Nat
  <2>1. K \in SUBSET Slot /\ S \in SUBSET Slot /\ F \in SUBSET Slot
        /\ U \in SUBSET DOMAIN want /\ U \cap X \in SUBSET DOMAIN want /\ X \in SUBSET DOMAIN want
    BY <1>1
  <2> QED
    BY <2>1, ListFinite, SlotsFinite
<1>9. Cardinality(Z) = Cardinality(K) + Cardinality(S)
  <2>1. K \cap S = {}
    BY <1>1
  <2>2. Cardinality(K \cup S) = Cardinality(K) + Cardinality(S) - Cardinality(K \cap S)
    BY <1>8, FS_Union
  <2>3. Cardinality(K \cap S) = 0
    BY <2>1, FS_EmptySet
  <2> QED
    BY <1>3, <1>8, <2>2, <2>3
<1>10. Cardinality(U \ X) = Cardinality(U) - Cardinality(U \cap X)
  BY <1>8, FS_Difference
<1>11. Len(want) <= Cards => Cardinality(X) <= Cardinality(F)
  BY <1>6, <1>8
<1> QED
  BY <1>4, <1>5, <1>7, <1>8, <1>9, <1>10, <1>11

\* syncSlots shows the list, whatever the ball showed before.
LEMMA SyncShows ==
  ASSUME NEW old \in [Slot -> NameOrBlank], NEW want \in Seq(Names)
  PROVE  /\ SyncSlots(old, want) \in [Slot -> NameOrBlank]
         /\ Shows(SyncSlots(old, want), want)
<1> DEFINE sync == SyncSlots(old, want)
           F == Free(old, want)
           X == Extra(old, want)
<1>1. Filled(old, want, sync)
  BY SyncFills
<1> HIDE DEF sync
<1>2. \A n \in Names : /\ Count(sync, n) <= Count(want, n)
                       /\ Len(want) <= Cards => Count(sync, n) = Count(want, n)
  BY <1>1, SyncCount
<1>3. ASSUME ~(Len(want) <= Cards), NEW i \in Slot PROVE sync[i] \in Names /\ sync[i] # Blank
  <2>1. Cardinality(F) - Cardinality(X) = Cards - Len(want)
    BY RoomForExtra
  <2>2. F \in SUBSET Slot /\ X \in SUBSET DOMAIN want
    BY DEF Free, Extra
  <2>3. CASE i \in F
    <3>1. \E k \in X : sync[i] = want[k]
      <4>1. Rank(F, i) <= Cardinality(X) =>  \E k \in X : sync[i] = want[k]
        BY <1>1, <2>3 DEF Filled
      <4> HIDE DEF F, X
      <4>2. Rank(F, i) \in 1 .. Cardinality(F) /\ Cardinality(F) \in Nat /\ Cardinality(X) \in Nat
        BY <2>2, <2>3, SlotsFinite, ListFinite, RankType
      <4>3. Cards \in Nat /\ Len(want) \in Nat
        BY SlotsFinite, ListFinite
      <4>4. Rank(F, i) <= Cardinality(X)
        BY <1>3, <2>1, <4>2, <4>3
      <4> QED
        BY <4>1, <4>4
    <3> QED
      BY <2>2, <3>1, ListFinite, SphereAssumption DEF SphereAssumption
  <2>4. CASE i \notin F
    <3>1. sync[i] # Blank /\ sync[i] \in NameOrBlank
      BY <1>1, <2>4 DEF Filled
    <3> QED
      BY <3>1 DEF NameOrBlank
  <2> QED
    BY <2>3, <2>4
<1>4. Shows(sync, want)
  BY <1>2, <1>3 DEF Shows
<1>5. sync \in [Slot -> NameOrBlank]
  BY <1>1 DEF Filled
<1> QED
  BY <1>4, <1>5 DEF sync

-----------------------------------------------------------------------------
(* The cards of the winners, one after the other.                          *)

LEMMA CardIsFree ==
  ASSUME NEW name, NEW used
  PROVE  CardFor(name, used) \in Slot /\ (Slot \ used # {} => CardFor(name, used) \notin used)
<1> DEFINE First(S) == CHOOSE i \in S : \A j \in S : i <= j
           Own == {i \in Slot \ used : slots[i] = name}
           Empty == {i \in Slot \ used : slots[i] = Blank}
           Left == Slot \ used
<1>1. CardFor(name, used) = IF Own # {} THEN First(Own)
                            ELSE IF Empty # {} THEN First(Empty)
                            ELSE IF Left # {} THEN First(Left) ELSE 1
  BY DEF CardFor
<1>2. Own \in SUBSET Left /\ Empty \in SUBSET Left /\ Left \in SUBSET Slot /\ Left \cap used = {}
  OBVIOUS
<1>3. 1 \in Slot
  BY SphereAssumption DEF SphereAssumption, Slot
<1> HIDE DEF Own, Empty, Left
<1>4. ASSUME NEW S \in SUBSET Left, S # {} PROVE First(S) \in S
  <2>1. S \subseteq Nat
    BY <1>2, SlotsFinite
  <2>2. \E i \in S : \A j \in S : i <= j
    BY <1>4, <2>1, LeastNat
  <2> QED
    BY <2>2
<1> HIDE DEF First
<1>5. Left \in SUBSET Left
  OBVIOUS
<1>6. CASE Left # {}
  <2>1. CardFor(name, used) \in Left
    BY <1>1, <1>2, <1>4, <1>5, <1>6
  <2> QED
    BY <1>2, <2>1
<1>7. CASE Left = {}
  <2>1. CardFor(name, used) = 1
    BY <1>1, <1>2, <1>7
  <2> QED
    BY <1>3, <1>7, <2>1 DEF Left
<1> QED
  BY <1>6, <1>7

\* The next card, after those of the winners before
NextCard(chosen, n) == Append(chosen, CardFor(n, Range(chosen)))

CardsRun(w, n, winners) ==
  /\ w[0] = <<>>
  /\ \A k \in 1 .. n : w[k] = NextCard(w[k - 1], winners[k])
  /\ CardsFor(winners) = w[n]

LEMMA CardsUnfold ==
  ASSUME NEW n \in Nat, NEW winners, DOMAIN winners = 1 .. n
  PROVE  \E w : CardsRun(w, n, winners)
<1> DEFINE V == Seq(Slot)
           step == [q \in V \X (1 .. n) |-> NextCard(q[1], winners[q[2]])]
           Body(it, S) == IF S = {} THEN <<>> ELSE NextCard(it[S \ {Max(S)}], winners[Max(S)])
           Is(it) == it = [S \in SUBSET (1 .. n) |-> Body(it, S)]
<1>1. CardsFor(winners) = (CHOOSE it : Is(it))[1 .. n]
  BY DEF CardsFor, FoldLeft, MapThenFoldSet, NextCard
<1>2. <<>> \in V
  OBVIOUS
<1>3. ASSUME NEW w \in V, NEW i \in 1 .. n PROVE NextCard(w, winners[i]) \in V
  <2>1. CardFor(winners[i], Range(w)) \in Slot
    BY CardIsFree
  <2> QED
    BY <2>1, AppendProperties DEF NextCard
<1> HIDE DEF V
<1>4. step \in [V \X (1 .. n) -> V]
  BY <1>3
<1>5. PICK it \in [SUBSET (1 .. n) -> V] : Folded(it, <<>>, step, n)
  <2> HIDE DEF step
  <2> QED
    BY <1>2, <1>4, FoldExists
<1>6. Is(it)
  <2>1. ASSUME NEW S \in SUBSET (1 .. n) PROVE it[S] = Body(it, S)
    <3>1. CASE S # {}
      <4>1. Max(S) \in 1 .. n /\ S \ {Max(S)} \in SUBSET (1 .. n)
        BY <3>1, GreatestOf
      <4>2. it[S \ {Max(S)}] \in V
        BY <4>1, <1>5
      <4>3. it[S] = step[<<it[S \ {Max(S)}], Max(S)>>]
        BY <3>1, <1>5 DEF Folded
      <4> QED
        BY <3>1, <4>1, <4>2, <4>3
    <3> QED
      BY <3>1, <1>5 DEF Folded
  <2> HIDE DEF Body
  <2> QED
    BY <2>1
<1> DEFINE ch == CHOOSE f : Is(f)
<1>7. Is(ch)
  <2> HIDE DEF Is
  <2> QED
    BY <1>6
<1> HIDE DEF ch
<1>8. \A S \in SUBSET (1 .. n) : ch[S] = Body(ch, S)
  <2> HIDE DEF Body
  <2> QED
    BY <1>7
<1> DEFINE w == [k \in 0 .. n |-> ch[1 .. k]]
<1>9. w[0] = <<>>
  <2>1. 1 .. 0 = {} /\ {} \in SUBSET (1 .. n) /\ 0 \in 0 .. n
    OBVIOUS
  <2>2. ch[{}] = <<>>
    BY <2>1, <1>8
  <2> QED
    BY <2>1, <2>2
<1>10. ASSUME NEW k \in 1 .. n PROVE w[k] = NextCard(w[k - 1], winners[k])
  <2>1. 1 .. k \in SUBSET (1 .. n) /\ k - 1 \in 0 .. n /\ k \in Nat \ {0}
    OBVIOUS
  <2>2. Max(1 .. k) = k /\ (1 .. k) \ {k} = 1 .. k - 1 /\ 1 .. k # {}
    BY <2>1, UpTo
  <2>3. ch[1 .. k] = NextCard(ch[1 .. k - 1], winners[k])
    BY <2>1, <2>2, <1>8
  <2> QED
    BY <2>1, <2>3
<1>11. CardsFor(winners) = w[n]
  BY <1>1 DEF ch
<1> QED
  BY <1>9, <1>10, <1>11 DEF CardsRun

\* A card of their own each, while there are cards
CardsOk(cards, k) ==
  /\ cards \in Seq(Slot)
  /\ Len(cards) = k
  /\ k <= Cards => IsInjective(cards)

LEMMA NextCardOk ==
  ASSUME NEW k \in Nat, NEW cards, CardsOk(cards, k), NEW n
  PROVE  CardsOk(NextCard(cards, n), k + 1)
<1> DEFINE c == CardFor(n, Range(cards))
           next == NextCard(cards, n)
<1>1. c \in Slot /\ (Slot \ Range(cards) # {} => c \notin Range(cards))
  BY CardIsFree
<1>2. cards \in Seq(Slot) /\ Len(cards) = k /\ DOMAIN cards = 1 .. k /\ cards \in [1 .. k -> Slot]
  BY LenProperties DEF CardsOk
<1>3. next = Append(cards, c)
  BY DEF NextCard
<1> HIDE DEF c, next
<1>4. /\ next \in Seq(Slot) /\ Len(next) = k + 1 /\ DOMAIN next = 1 .. k + 1
      /\ \A j \in 1 .. k : next[j] = cards[j]
      /\ next[k + 1] = c
  BY <1>1, <1>2, <1>3
<1>5. ASSUME k + 1 <= Cards PROVE IsInjective(next)
  <2>1. Slot \ Range(cards) # {}
    <3> SUFFICES ASSUME Slot \ Range(cards) = {} PROVE FALSE
      OBVIOUS
    <3>1. \A i \in Slot : \E j \in 1 .. k : cards[j] = i
      BY <1>2 DEF Range
    <3>2. cards \in Surjection(1 .. k, Slot)
      BY <1>2, <3>1 DEF Surjection
    <3>3. IsFiniteSet(1 .. k) /\ Cardinality(1 .. k) = k
      BY FS_Interval
    <3>4. Cardinality(Slot) <= k
      BY <3>2, <3>3, FS_Surjection
    <3> QED
      BY <1>5, <3>4, SlotsFinite
  <2>2. \A j \in 1 .. k : next[j] # c
    BY <1>1, <1>2, <1>4, <2>1 DEF Range
  <2>3. IsInjective(cards)
    BY <1>5, SlotsFinite DEF CardsOk
  <2>4. \A i, j \in 1 .. k : next[i] = next[j] => i = j
    BY <1>2, <1>4, <2>3 DEF IsInjective
  <2>5. \A j \in 1 .. k + 1 : j \in 1 .. k \/ j = k + 1
    OBVIOUS
  <2> QED
    BY <1>4, <2>2, <2>4, <2>5 DEF IsInjective
<1> QED
  BY <1>4, <1>5 DEF CardsOk, next

LEMMA CardsChosen ==
  ASSUME NEW winners \in Seq(Names)
  PROVE  CardsOk(CardsFor(winners), Len(winners))
<1> DEFINE n == Len(winners)
<1>1. n \in Nat /\ DOMAIN winners = 1 .. n
  BY LenProperties
<1> HIDE DEF n
<1>2. PICK w : CardsRun(w, n, winners)
  BY <1>1, CardsUnfold
<1> DEFINE D == {k \in Nat : k <= n => CardsOk(w[k], k)}
<1>d. \A k \in Nat : k \in D <=> (k <= n => CardsOk(w[k], k))
  OBVIOUS
<1>3. 0 \in D
  <2>1. CardsOk(<<>>, 0)
    BY DEF CardsOk, IsInjective
  <2> QED
    BY <1>2, <2>1 DEF CardsRun
<1> HIDE DEF D
<1>4. ASSUME NEW k \in Nat, k \in D PROVE k + 1 \in D
  <2> SUFFICES ASSUME k + 1 <= n PROVE CardsOk(w[k + 1], k + 1)
    BY <1>d
  <2>1. k + 1 \in 1 .. n /\ (k + 1) - 1 = k /\ k <= n
    BY <1>1
  <2>2. CardsOk(w[k], k)
    BY <1>4, <1>d, <2>1
  <2>3. w[k + 1] = NextCard(w[k], winners[k + 1])
    BY <1>2, <2>1 DEF CardsRun
  <2> QED
    BY <2>2, <2>3, NextCardOk
<1>5. n \in D
  BY <1>1, <1>3, <1>4, NatInd
<1> QED
  BY <1>1, <1>2, <1>5, <1>d DEF CardsRun, n

-----------------------------------------------------------------------------
(* The page, step by step.                                                 *)

IInv == TypeOK /\ WinnersShown

\* What a step of the hub, or one that leaves the ball alone, has to keep
LEMMA ShownStays ==
  ASSUME IInv, UNCHANGED <<luckys, selected>>,
         \A k \in DOMAIN selected : labels'[selected[k]] = labels[selected[k]]
  PROVE  WinnersShown'
<1>1. selected \in Seq(Slot) /\ luckys \in Seq(Names)
  BY DEF IInv, TypeOK
<1>2. DOMAIN selected = 1 .. Len(selected) /\ DOMAIN luckys = 1 .. Len(luckys)
  BY <1>1, LenProperties
<1>3. DOMAIN selected = DOMAIN luckys
  BY <1>2 DEF IInv, WinnersShown
<1> QED
  BY <1>3 DEF IInv, WinnersShown

\* A ball that shows a list: the names are names, and a selected card is as it was.
LEMMA ShowTypes ==
  ASSUME IInv, NEW list \in Seq(Names), NEW sel \in Seq(Slot), Show(list, sel)
  PROVE  /\ slots' \in [Slot -> NameOrBlank] /\ labels' \in [Slot -> NameOrBlank]
         /\ \A k \in DOMAIN sel : labels'[sel[k]] = labels[sel[k]]
         /\ Shows(slots', list)
<1>1. slots' = SyncSlots(slots, list) /\ labels' = Refresh(labels, slots', sel)
  BY DEF Show
<1>2. slots \in [Slot -> NameOrBlank] /\ labels \in [Slot -> NameOrBlank]
  BY DEF IInv, TypeOK, NameOrBlank
<1>3. slots' \in [Slot -> NameOrBlank] /\ Shows(slots', list)
  BY <1>1, <1>2, SyncShows
<1>4. labels' = [i \in Slot |-> IF i \in Range(sel) THEN labels[i] ELSE slots'[i]]
  BY <1>1 DEF Refresh
<1>5. labels' \in [Slot -> NameOrBlank]
  BY <1>2, <1>3, <1>4
<1>6. \A k \in DOMAIN sel : sel[k] \in Slot /\ sel[k] \in Range(sel)
  BY LenProperties DEF Range
<1> QED
  BY <1>3, <1>4, <1>5, <1>6

LEMMA HubDrawTypes ==
  ASSUME IInv, HubDraw
  PROVE  pool' \in Seq(Names) /\ answer' \in Seq(Names) /\ toCome' = toCome
<1>1. pool \in Seq(Names) /\ answer \in Seq(Names)
  BY DEF IInv, TypeOK
<1>2. CASE pool = <<>>
  BY <1>1, <1>2 DEF HubDraw, hub
<1>3. CASE pool # <<>>
  <2>1. PICK W \in SUBSET DOMAIN pool :
          /\ pool' = Only(pool, DOMAIN pool \ W)
          /\ \E order \in SetToSeqs(W) : answer' = [k \in DOMAIN order |-> pool[order[k]]]
          /\ toCome' = toCome
    BY <1>3 DEF HubDraw
  <2>2. PICK order \in SetToSeqs(W) : answer' = [k \in DOMAIN order |-> pool[order[k]]]
    BY <2>1
  <2>3. pool' \in Seq(Names)
    <3>1. DOMAIN pool \ W \in SUBSET DOMAIN pool
      OBVIOUS
    <3> QED
      BY <1>1, <2>1, <3>1, OnlyType
  <2>4. Cardinality(W) \in Nat /\ \A k \in W : pool[k] \in Names
    BY <1>1, ListFinite
  <2>5. order \in [1 .. Cardinality(W) -> W]
    BY DEF SetToSeqs
  <2>6. answer' \in Seq(Names)
    BY <2>2, <2>4, <2>5
  <2> QED
    BY <2>1, <2>3, <2>6
<1> QED
  BY <1>2, <1>3

\* highlightWinners: the card that a winner was given shows the winner.
LEMMA DrawArriveShows ==
  ASSUME IInv, DrawArrive
  PROVE  /\ luckys' \in Seq(Names) /\ selected' \in Seq(Slot) /\ Range(selected') \in SUBSET Slot
         /\ labels' \in [Slot -> NameOrBlank]
         /\ WinnersShown'
<1>1. answer \in Seq(Names) /\ labels \in [Slot -> NameOrBlank]
  BY DEF IInv, TypeOK, NameOrBlank
<1>2. luckys' = answer /\ selected' = CardsFor(answer)
  BY DEF DrawArrive
<1> DEFINE given(i) == {k \in DOMAIN answer : selected'[k] = i}
<1>3. labels' = [i \in Slot |-> IF i \in Range(selected') THEN answer[Max(given(i))] ELSE labels[i]]
  BY DEF DrawArrive
<1>4. /\ selected' \in Seq(Slot) /\ Len(selected') = Len(answer)
      /\ Len(answer) <= Cards => IsInjective(selected')
  BY <1>1, <1>2, CardsChosen DEF CardsOk
<1> DEFINE n == Len(answer)
<1>5. /\ n \in Nat /\ DOMAIN answer = 1 .. n /\ DOMAIN selected' = 1 .. n
      /\ \A k \in 1 .. n : answer[k] \in Names /\ selected'[k] \in Slot
  BY <1>1, <1>4, LenProperties
<1> HIDE DEF n
<1>6. ASSUME NEW i \in Range(selected') PROVE Max(given(i)) \in given(i) /\ Max(given(i)) \in 1 .. n
  <2>1. given(i) \in SUBSET (1 .. n) /\ given(i) # {}
    BY <1>5 DEF Range
  <2> HIDE DEF given
  <2> QED
    BY <1>5, <2>1, GreatestOf
<1>7. Range(selected') \in SUBSET Slot
  BY <1>5 DEF Range
<1>8. labels' \in [Slot -> NameOrBlank]
  BY <1>1, <1>3, <1>5, <1>6 DEF NameOrBlank
<1>9. ASSUME IsInjective(selected'), NEW k \in 1 .. n PROVE labels'[selected'[k]] = answer[k]
  <2>1. selected'[k] \in Range(selected') /\ selected'[k] \in Slot
    BY <1>5 DEF Range
  <2>2. Max(given(selected'[k])) \in given(selected'[k])
    BY <1>6, <2>1
  <2>3. \A j \in given(selected'[k]) : j = k
    BY <1>5, <1>9 DEF IsInjective
  <2>4. Max(given(selected'[k])) = k
    BY <2>2, <2>3
  <2> HIDE DEF given
  <2> QED
    BY <1>3, <2>1, <2>4
<1>10. WinnersShown'
  BY <1>2, <1>4, <1>5, <1>9 DEF WinnersShown, n
<1> QED
  BY <1>1, <1>2, <1>4, <1>7, <1>8, <1>10

LEMMA InitShown == Init => IInv
<1> SUFFICES ASSUME Init PROVE IInv
  OBVIOUS
<1>1. \A T : <<>> \in Seq(T)
  OBVIOUS
<1>2. Blanks \in [Slot -> Names \cup {Blank}]
  BY DEF Blanks
<1>3. NoPoll \in [at : {"none", "answered"}, names : Seq(Names)]
  BY DEF NoPoll
<1>4. WinnersShown
  BY DEF Init, WinnersShown, IsInjective
<1>5. 0 \in 0 .. MaxTweens /\ 0 \in 0 .. MaxFaults /\ toCome \in [Names -> Nat]
  BY SphereAssumption DEF SphereAssumption, Init
<1>6. polls \in [Pulls -> [at : {"none", "answered"}, names : Seq(Names)]]
  BY <1>3 DEF Init
<1>7. TypeOK
  BY <1>1, <1>2, <1>5, <1>6 DEF Init, TypeOK
<1> QED
  BY <1>4, <1>7 DEF IInv

LEMMA StepShown == IInv /\ [Next]_vars => IInv'
<1> SUFFICES ASSUME IInv, [Next]_vars PROVE IInv'
  OBVIOUS
<1>t. /\ polls \in [Pulls -> [at : {"none", "answered"}, names : Seq(Names)]]
      /\ pool \in Seq(Names) /\ names \in Seq(Names) /\ selected \in Seq(Slot)
      /\ luckys \in Seq(Names) /\ toCome \in [Names -> Nat] /\ prize \in SUBSET Slot
      /\ tweens \in 0 .. MaxTweens /\ faults \in 0 .. MaxFaults
      /\ MaxTweens \in Nat /\ MaxFaults \in Nat
  BY SphereAssumption DEF IInv, TypeOK, SphereAssumption
<1>e. (\A T : <<>> \in Seq(T)) /\ NoPoll \in [at : {"none", "answered"}, names : Seq(Names)]
  BY DEF NoPoll
<1>f. Fault => faults' \in 0 .. MaxFaults
  BY <1>t DEF Fault
<1>b. UNCHANGED ball => WinnersShown'
  BY ShownStays DEF ball
<1>1. ASSUME NEW n \in Names, Join(n) PROVE IInv'
  <2>1. toCome' \in [Names -> Nat] /\ pool' \in Seq(Names)
    BY <1>1, <1>t DEF Join
  <2> QED
    BY <1>1, <1>b, <2>1 DEF Join, IInv, TypeOK, ball
<1>2. ASSUME NEW q \in Pulls, PollAnswer(q) \/ PollLost(q) PROVE IInv'
  <2>1. [at |-> "answered", names |-> pool] \in [at : {"none", "answered"}, names : Seq(Names)]
    BY <1>t
  <2>2. polls' \in [Pulls -> [at : {"none", "answered"}, names : Seq(Names)]]
    BY <1>2, <1>t, <1>e, <2>1 DEF PollAnswer, PollLost
  <2> QED
    BY <1>2, <1>b, <1>f, <2>2 DEF PollAnswer, PollLost, IInv, TypeOK, ball, hub
<1>3. ASSUME NEW q \in Pulls, PollArrive(q) PROVE IInv'
  <2>1. polls[q].names \in Seq(Names)
    BY <1>t
  <2>2. polls' \in [Pulls -> [at : {"none", "answered"}, names : Seq(Names)]]
    BY <1>3, <1>t, <1>e DEF PollArrive
  <2>3. /\ slots' \in [Slot -> NameOrBlank] /\ labels' \in [Slot -> NameOrBlank]
        /\ \A k \in DOMAIN selected : labels'[selected[k]] = labels[selected[k]]
    <3>1. CASE isLotting
      BY <1>3, <3>1 DEF PollArrive, IInv, TypeOK, NameOrBlank
    <3>2. CASE ~isLotting
      BY <1>3, <3>2, <1>t, <2>1, ShowTypes DEF PollArrive
    <3> QED
      BY <3>1, <3>2
  <2>4. WinnersShown'
    BY <1>3, <2>3, ShownStays DEF PollArrive
  <2> QED
    BY <1>3, <2>1, <2>2, <2>3, <2>4 DEF PollArrive, IInv, TypeOK, hub, NameOrBlank
<1>4. CASE HubDraw
  <2>1. pool' \in Seq(Names) /\ answer' \in Seq(Names) /\ toCome' = toCome
    BY <1>4, HubDrawTypes
  <2>2. request = "sent" /\ request' \in {"answered", "refused"}
    BY <1>4 DEF HubDraw
  <2>3. UNCHANGED <<polls, ball, isLotting, rotating, phase, tweens, faults>>
    BY <1>4 DEF HubDraw
  <2> QED
    BY <1>b, <2>1, <2>2, <2>3 DEF IInv, TypeOK, ball
<1>5. CASE EnterSphere \/ StopRotate
  BY <1>5, <1>b DEF EnterSphere, StopRotate, IInv, TypeOK, ball, hub
<1>6. CASE StartRotate
  <2>0. request = "none"
    BY <1>6 DEF StartRotate, IInv, TypeOK
  <2>1. CASE isLotting
    BY <1>6, <1>b, <2>0, <2>1 DEF StartRotate, IInv, TypeOK, ball, hub
  <2>2. CASE ~isLotting
    <3>1. /\ Show(names, <<>>) /\ prize' \in SUBSET Slot /\ selected' = <<>> /\ luckys' = <<>>
          /\ isLotting' = TRUE /\ rotating' = TRUE /\ names' = names /\ phase' = "spinning"
          /\ UNCHANGED <<hub, polls, request, answer, tweens, faults>>
      BY <1>6, <1>t, <2>2 DEF StartRotate
    <3>2. slots' \in [Slot -> NameOrBlank] /\ labels' \in [Slot -> NameOrBlank]
      BY <1>t, <1>e, <3>1, ShowTypes
    <3>3. WinnersShown'
      BY <3>1 DEF WinnersShown, IsInjective
    <3> QED
      BY <1>e, <2>0, <3>1, <3>2, <3>3 DEF IInv, TypeOK, hub, NameOrBlank
  <2> QED
    BY <2>1, <2>2
<1>7. CASE DrawArrive
  <2>1. /\ luckys' \in Seq(Names) /\ selected' \in Seq(Slot) /\ Range(selected') \in SUBSET Slot
        /\ labels' \in [Slot -> NameOrBlank]
        /\ WinnersShown'
    BY <1>7, DrawArriveShows
  <2>2. prize' = prize \cup Range(selected') /\ tweens < MaxTweens /\ tweens' = tweens + 1
        /\ phase' = "result" /\ request' = "none" /\ answer' = <<>>
        /\ UNCHANGED <<hub, polls, names, slots, isLotting, rotating, faults>>
    BY <1>7 DEF DrawArrive
  <2>3. tweens' \in 0 .. MaxTweens /\ prize' \in SUBSET Slot
    BY <1>t, <2>1, <2>2
  <2> QED
    BY <1>e, <2>1, <2>2, <2>3 DEF IInv, TypeOK, hub, NameOrBlank
<1>8. CASE DrawRefused \/ DrawLost
  <2>1. BackToSphere /\ faults' \in 0 .. MaxFaults
    BY <1>8, <1>f, <1>t DEF DrawRefused, DrawLost
  <2> QED
    BY <1>b, <1>e, <2>1 DEF BackToSphere, IInv, TypeOK, ball, hub
<1>9. CASE TweenEnds
  <2>1. tweens' \in 0 .. MaxTweens
    BY <1>9, <1>t DEF TweenEnds
  <2> QED
    BY <1>9, <1>b, <2>1 DEF TweenEnds, IInv, TypeOK, ball, hub
<1>10. CASE ReloadPage
  <2>1. Blanks \in [Slot -> Names \cup {Blank}]
    BY DEF Blanks
  <2>2. polls' \in [Pulls -> [at : {"none", "answered"}, names : Seq(Names)]]
    BY <1>10, <1>e DEF ReloadPage
  <2>3. WinnersShown'
    BY <1>10 DEF ReloadPage, WinnersShown, IsInjective
  <2>4. faults' \in 0 .. MaxFaults /\ 0 \in 0 .. MaxTweens
    BY <1>10, <1>f, <1>t DEF ReloadPage
  <2> QED
    BY <1>10, <1>e, <2>1, <2>2, <2>3, <2>4 DEF ReloadPage, IInv, TypeOK, hub
<1>11. CASE UNCHANGED vars
  BY <1>11, <1>b DEF vars, hub, ball, IInv, TypeOK
<1> QED
  BY <1>1, <1>2, <1>3, <1>4, <1>5, <1>6, <1>7, <1>8, <1>9, <1>10, <1>11 DEF Next

LEMMA ShownHolds == Spec => []IInv
BY InitShown, StepShown, PTL DEF Spec

\* The hub's list, the ball and the page stay well-formed.
THEOREM SphereTypes == Spec => []TypeOK
<1>1. IInv => TypeOK
  BY DEF IInv
<1> QED
  BY <1>1, ShownHolds, PTL

\* For any number of winners, cards and polls, late or out of order: each winner
\* has a card of their own with their name, until the next rotation.
THEOREM WinnersAreShown == Spec => []WinnersShown
<1>1. IInv => WinnersShown
  BY DEF IInv
<1> QED
  BY <1>1, ShownHolds, PTL

-----------------------------------------------------------------------------
(* What a step does to the ball.                                           *)

\* The slots after a step that changes them: those of the list that the page then
\* has, or of a page loaded again, which has none.
NewSlots ==
  /\ names' \in Seq(Names)
  /\ \/ slots' = SyncSlots(slots, names')
     \/ slots' = Blanks /\ names' = <<>>

LEMMA WhoRedraws ==
  ASSUME IInv, [Next]_vars, slots' # slots
  PROVE  NewSlots
<1>t. /\ names \in Seq(Names)
      /\ polls \in [Pulls -> [at : {"none", "answered"}, names : Seq(Names)]]
  BY DEF IInv, TypeOK
<1>1. ASSUME NEW n \in Names, Join(n) PROVE FALSE
  BY <1>1 DEF Join, ball
<1>2. ASSUME NEW q \in Pulls, PollAnswer(q) \/ PollLost(q) PROVE FALSE
  BY <1>2 DEF PollAnswer, PollLost, ball
<1>3. ASSUME NEW q \in Pulls, PollArrive(q)
      PROVE  NewSlots
  BY <1>t, <1>3 DEF PollArrive, Show, NewSlots
<1>4. CASE HubDraw
  BY <1>4 DEF HubDraw, ball
<1>5. CASE EnterSphere \/ StopRotate
  BY <1>5 DEF EnterSphere, StopRotate, ball
<1>6. CASE StartRotate
  <2>1. CASE isLotting
    BY <1>6, <2>1 DEF StartRotate, ball
  <2>2. CASE ~isLotting
    BY <1>t, <1>6, <2>2 DEF StartRotate, Show, NewSlots
  <2> QED
    BY <2>1, <2>2
<1>7. CASE DrawArrive
  BY <1>7 DEF DrawArrive
<1>8. CASE DrawRefused \/ DrawLost
  BY <1>8 DEF DrawRefused, DrawLost, BackToSphere, ball
<1>9. CASE TweenEnds
  BY <1>9 DEF TweenEnds, ball
<1>10. CASE ReloadPage
  <2>1. <<>> \in Seq(Names)
    OBVIOUS
  <2> QED
    BY <1>10, <2>1 DEF ReloadPage, NewSlots
<1>11. CASE UNCHANGED vars
  BY <1>11 DEF vars, ball
<1> QED
  BY <1>1, <1>2, <1>3, <1>4, <1>5, <1>6, <1>7, <1>8, <1>9, <1>10, <1>11 DEF Next

\* Who does not keep a slot is beyond what the list has of the name.
LEMMA LostAreTooMany ==
  ASSUME NEW old \in [Slot -> NameOrBlank], NEW want \in Seq(Names), NEW i \in Slot,
         old[i] # Blank, SyncSlots(old, want)[i] # old[i]
  PROVE  Count(want, old[i]) < Count(old, old[i])
<1> DEFINE P == {j \in 1 .. i : old[j] = old[i]}
           W == {k \in DOMAIN old : old[k] = old[i]}
           U == {k \in DOMAIN want : want[k] = old[i]}
<1>1. ~Kept(old, want, i)
  <2>1. Filled(old, want, SyncSlots(old, want))
    BY SyncFills
  <2>2. i \notin Slot \ Free(old, want)
    BY <2>1 DEF Filled
  <2> QED
    BY <2>2 DEF Free
<1>2. ~(Cardinality(P) <= Cardinality(U))
  BY <1>1 DEF Kept, Count
<1>3. P \in SUBSET W /\ W \in SUBSET Slot /\ U \in SUBSET DOMAIN want
  <2>1. Cards \in Nat /\ DOMAIN old = Slot /\ Slot = 1 .. Cards
    BY SlotsFinite DEF Slot
  <2>2. \A j \in 1 .. i : j \in Slot
    BY <2>1
  <2> QED
    BY <2>1, <2>2
<1>4. Count(want, old[i]) = Cardinality(U) /\ Count(old, old[i]) = Cardinality(W)
  BY DEF Count
<1> HIDE DEF P, W, U
<1>5. /\ IsFiniteSet(W) /\ Cardinality(W) \in Nat /\ Cardinality(U) \in Nat
      /\ Cardinality(P) \in Nat /\ Cardinality(P) <= Cardinality(W)
  <2>1. IsFiniteSet(W) /\ Cardinality(W) \in Nat /\ Cardinality(U) \in Nat
    BY <1>3, SlotsFinite, ListFinite
  <2> QED
    BY <1>3, <2>1, FS_Subset, FS_CardinalityType
<1> QED
  BY <1>2, <1>4, <1>5

\* A name on the ball moves only when the list has fewer of it than the ball.
THEOREM BallStaysPut == Spec => StaysPut
<1> DEFINE Put == \A i \in Slot :
                     slots[i] # Blank /\ slots'[i] # slots[i] /\ slots' # Blanks
                        => Count(names', slots[i]) < Count(slots, slots[i])
<1>1. IInv /\ [Next]_vars => Put
  <2> SUFFICES ASSUME IInv, [Next]_vars, NEW i \in Slot,
                      slots[i] # Blank, slots'[i] # slots[i], slots' # Blanks
               PROVE  Count(names', slots[i]) < Count(slots, slots[i])
    OBVIOUS
  <2>1. names' \in Seq(Names) /\ slots' = SyncSlots(slots, names')
    BY WhoRedraws DEF NewSlots
  <2>2. slots \in [Slot -> NameOrBlank]
    BY DEF IInv, TypeOK, NameOrBlank
  <2> QED
    BY <2>1, <2>2, LostAreTooMany
<1>2. IInv /\ [Next]_vars => [Put]_vars
  BY <1>1
<1> QED
  BY <1>2, ShownHolds, PTL DEF Spec, StaysPut

\* Whatever the ball showed, after a step that changes it it shows the list the
\* page has: every name as often as the list, or a full ball of names of the list.
Redrawn == [][slots' # slots => Shows(slots', names')]_vars

THEOREM BallShowsTheList == Spec => Redrawn
<1>1. IInv /\ [Next]_vars => (slots' # slots => Shows(slots', names'))
  <2> SUFFICES ASSUME IInv, [Next]_vars, slots' # slots PROVE Shows(slots', names')
    OBVIOUS
  <2>1. NewSlots
    BY WhoRedraws
  <2>2. CASE slots' = SyncSlots(slots, names')
    <3>1. slots \in [Slot -> NameOrBlank]
      BY DEF IInv, TypeOK, NameOrBlank
    <3> QED
      BY <2>1, <2>2, <3>1, SyncShows DEF NewSlots
  <2>3. CASE slots' = Blanks /\ names' = <<>>
    <3>1. ASSUME NEW n \in Names PROVE Count(Blanks, n) = Count(<<>>, n)
      <4>1. n # Blank
        BY SphereAssumption DEF SphereAssumption
      <4>2. {k \in DOMAIN Blanks : Blanks[k] = n} = {} /\ {k \in DOMAIN <<>> : <<>>[k] = n} = {}
        BY <4>1 DEF Blanks
      <4> QED
        BY <4>2 DEF Count
    <3>2. Len(<<>>) <= Cards
      BY SlotsFinite
    <3> QED
      BY <2>3, <3>1, <3>2 DEF Shows
  <2> QED
    BY <2>1, <2>2, <2>3 DEF NewSlots
<1>2. IInv /\ [Next]_vars => [slots' # slots => Shows(slots', names')]_vars
  BY <1>1
<1> QED
  BY <1>2, ShownHolds, PTL DEF Spec, Redrawn

\* One poll is enough: a fresh list that arrives while the ball is not locked makes
\* it show the pool, whatever it had missed.
OnePollCatchesUp ==
  [][\A q \in Pulls : PollArrive(q) /\ ~isLotting /\ polls[q].names = pool => ShowsPool']_vars

THEOREM PollsCatchUp == Spec => OnePollCatchesUp
<1>1. IInv => \A q \in Pulls : PollArrive(q) /\ ~isLotting /\ polls[q].names = pool => ShowsPool'
  <2> SUFFICES ASSUME IInv, NEW q \in Pulls, PollArrive(q), ~isLotting, polls[q].names = pool
               PROVE  ShowsPool'
    OBVIOUS
  <2>1. Show(pool, selected) /\ pool' = pool
    BY DEF PollArrive, hub
  <2>2. pool \in Seq(Names) /\ selected \in Seq(Slot)
    BY DEF IInv, TypeOK
  <2>3. Shows(slots', pool')
    BY <2>1, <2>2, ShowTypes
  <2> QED
    BY <2>3 DEF Shows, ShowsPool, Count
<1>2. IInv => [\A q \in Pulls : PollArrive(q) /\ ~isLotting /\ polls[q].names = pool => ShowsPool']_vars
  BY <1>1
<1> QED
  BY <1>2, ShownHolds, PTL DEF OnePollCatchesUp
=============================================================================
