-------------------------- MODULE ParallelSortProofs --------------------------
(****************************************************************************)
(* Facts about SortedRank and StableSort, for sequences of every length.    *)
(* The rank numbers the positions of the keys from 1 without gap or repeat, *)
(* so the CHOOSE of StableSort always finds its position: what comes out is *)
(* a permutation of what went in, and the same one for every sequence that  *)
(* is sorted by the same keys.                                              *)
(****************************************************************************)
EXTENDS ParallelSort, Functions, FiniteSetTheorems, SequenceTheorems, TLAPS

(* Position i comes before position j in the stable order of the keys. *)
Before(keys, i, j) == keys[i] < keys[j] \/ (keys[i] = keys[j] /\ i <= j)

Preceding(keys, i) == {j \in DOMAIN keys : Before(keys, j, i)}

(* The position of the element that the sort moves to n. *)
SortedFrom(keys) ==
  [n \in DOMAIN keys |-> CHOOSE i \in DOMAIN keys : SortedRank(keys, i) = n]

------------------------------------------------------------------------------
(* A numbering of a finite set by 1 .. its cardinality that repeats no      *)
(* number leaves no number out (behind both SortedRank and Rank).           *)
LEMMA NumberingIsOnto ==
  ASSUME NEW K, IsFiniteSet(K), NEW f \in [K -> 1 .. Cardinality(K)],
         \A i, j \in K : f[i] = f[j] => i = j
  PROVE  \A n \in 1 .. Cardinality(K) : \E i \in K : f[i] = n
<1> DEFINE T == 1 .. Cardinality(K)
<1>1. Cardinality(K) \in Nat
  BY FS_CardinalityType
<1>2. IsFiniteSet(T) /\ Cardinality(T) = Cardinality(K)
  <2>1. IsFiniteSet(T) /\ Cardinality(T) = IF 1 > Cardinality(K) THEN 0 ELSE Cardinality(K) - 1 + 1
    BY <1>1, FS_Interval
  <2> QED  BY <1>1, <2>1
<1>3. f \in Injection(K, T)
  BY DEF Injection, IsInjective
<1>4. f \in Surjection(K, T)
  BY <1>2, <1>3, FS_Injection
<1> QED  BY <1>4 DEF Surjection

(* A proper subset of a finite set has fewer elements. *)
LEMMA SmallerSubset ==
  ASSUME NEW S, IsFiniteSet(S), NEW T \in SUBSET S, T # S
  PROVE  Cardinality(T) < Cardinality(S)
<1>1. /\ IsFiniteSet(T)
      /\ Cardinality(T) <= Cardinality(S)
      /\ Cardinality(S) = Cardinality(T) => S = T
  BY FS_Subset
<1>2. Cardinality(T) \in Nat /\ Cardinality(S) \in Nat
  BY <1>1, FS_CardinalityType
<1> QED  BY <1>1, <1>2

UpTo(K, i) == {j \in K : j <= i}

(* The numbers of a finite set up to a smaller one and up to a larger one.  *)
LEMMA UpToGrows ==
  ASSUME NEW K \in SUBSET Nat, IsFiniteSet(K), NEW i \in K
  PROVE  /\ IsFiniteSet(UpTo(K, i)) /\ Cardinality(UpTo(K, i)) \in 1 .. Cardinality(K)
         /\ \A j \in K : i < j => Cardinality(UpTo(K, i)) < Cardinality(UpTo(K, j))
<1>1. i \in Int /\ \A k \in K : k \in Int
  OBVIOUS
<1>2. \A k \in K : UpTo(K, k) \in SUBSET K /\ IsFiniteSet(UpTo(K, k))
  <2>1. \A k \in K : UpTo(K, k) \in SUBSET K
    BY DEF UpTo
  <2> QED  BY <2>1, FS_Subset
<1>3. Cardinality(UpTo(K, i)) \in 1 .. Cardinality(K)
  <2>1. i \in UpTo(K, i)
    BY <1>1 DEF UpTo
  <2>2. /\ Cardinality(UpTo(K, i)) \in Nat /\ Cardinality(UpTo(K, i)) # 0
        /\ Cardinality(K) \in Nat
    BY <1>2, <2>1, FS_CardinalityType, FS_EmptySet
  <2> QED  BY <1>2, <2>2, FS_Subset
<1>4. ASSUME NEW j \in K, i < j
      PROVE  Cardinality(UpTo(K, i)) < Cardinality(UpTo(K, j))
  <2>1. j \in UpTo(K, j) /\ j \notin UpTo(K, i)
    BY <1>1, <1>4 DEF UpTo
  <2>2. ASSUME NEW k \in UpTo(K, i) PROVE k \in UpTo(K, j)
    <3>1. k \in K /\ k <= i /\ k \in Int /\ j \in Int
      BY <1>1 DEF UpTo
    <3> QED  BY <1>1, <1>4, <3>1 DEF UpTo
  <2> QED  BY <1>2, <2>1, <2>2, SmallerSubset
<1> QED  BY <1>2, <1>3, <1>4

(* Counting up to each of its numbers numbers a finite set. *)
LEMMA UpToIsOnto ==
  ASSUME NEW K \in SUBSET Nat, IsFiniteSet(K)
  PROVE  \A n \in 1 .. Cardinality(K) : \E i \in K : Cardinality(UpTo(K, i)) = n
<1> DEFINE f == [i \in K |-> Cardinality(UpTo(K, i))]
<1>1. f \in [K -> 1 .. Cardinality(K)]
  BY UpToGrows
<1>2. \A i, j \in K : f[i] = f[j] => i = j
  <2> SUFFICES ASSUME NEW i \in K, NEW j \in K,
                      Cardinality(UpTo(K, i)) = Cardinality(UpTo(K, j))
               PROVE  i = j
    OBVIOUS
  <2>1. i \in Int /\ j \in Int /\ Cardinality(UpTo(K, i)) \in Int
    BY UpToGrows
  <2> QED  BY <2>1, UpToGrows
<1> HIDE DEF f
<1>3. \A n \in 1 .. Cardinality(K) : \E i \in K : f[i] = n
  BY <1>1, <1>2, NumberingIsOnto
<1> QED  BY <1>3 DEF f

(* A finite set of numbers that is not empty has a smallest one. *)
LEMMA SmallestExists ==
  ASSUME NEW K \in SUBSET Nat, IsFiniteSet(K), K # {}
  PROVE  \E i \in K : \A j \in K : i <= j
<1>1. Cardinality(K) \in Nat /\ Cardinality(K) # 0
  BY FS_CardinalityType, FS_EmptySet
<1>2. PICK i \in K : Cardinality(UpTo(K, i)) = 1
  BY <1>1, UpToIsOnto
<1>3. ASSUME NEW j \in K PROVE i <= j
  <2>1. i \in Int /\ j \in Int /\ Cardinality(UpTo(K, j)) \in 1 .. Cardinality(K)
    BY UpToGrows
  <2>2. j < i => Cardinality(UpTo(K, j)) < Cardinality(UpTo(K, i))
    BY UpToGrows
  <2> QED  BY <1>1, <1>2, <2>1, <2>2
<1> QED  BY <1>3

(* The positions up to one are finitely many, so its rank is a place in the sequence. *)
LEMMA PrecedingFinite ==
  ASSUME NEW keys \in Seq(Int), NEW i \in DOMAIN keys
  PROVE  /\ IsFiniteSet(DOMAIN keys) /\ Cardinality(DOMAIN keys) = Len(keys)
         /\ IsFiniteSet(Preceding(keys, i))
         /\ SortedRank(keys, i) = Cardinality(Preceding(keys, i))
         /\ SortedRank(keys, i) \in 1 .. Len(keys)
<1>1. Len(keys) \in Nat /\ DOMAIN keys = 1 .. Len(keys)
  BY LenProperties
<1>2. IsFiniteSet(DOMAIN keys) /\ Cardinality(DOMAIN keys) = Len(keys)
  <2>1. /\ IsFiniteSet(1 .. Len(keys))
        /\ Cardinality(1 .. Len(keys)) = IF 1 > Len(keys) THEN 0 ELSE Len(keys) - 1 + 1
    BY <1>1, FS_Interval
  <2> QED  BY <1>1, <2>1
<1>3. Preceding(keys, i) \in SUBSET DOMAIN keys
  BY DEF Preceding
<1>4. IsFiniteSet(Preceding(keys, i)) /\ Cardinality(Preceding(keys, i)) <= Len(keys)
  BY <1>2, <1>3, FS_Subset
<1>5. SortedRank(keys, i) = Cardinality(Preceding(keys, i))
  BY DEF SortedRank, Preceding, Before
<1>6. Cardinality(Preceding(keys, i)) \in Nat /\ Cardinality(Preceding(keys, i)) # 0
  <2>1. i \in Preceding(keys, i)
    BY <1>1 DEF Preceding, Before
  <2> QED  BY <2>1, <1>4, FS_CardinalityType, FS_EmptySet
<1> QED  BY <1>1, <1>2, <1>4, <1>5, <1>6

(* The rank orders the positions by their key, and equal keys by position.  *)
LEMMA RankFollowsOrder ==
  ASSUME NEW keys \in Seq(Int), NEW i \in DOMAIN keys, NEW j \in DOMAIN keys,
         i # j, Before(keys, i, j)
  PROVE  SortedRank(keys, i) < SortedRank(keys, j)
<1>1. DOMAIN keys \subseteq Int /\ \A k \in DOMAIN keys : keys[k] \in Int
  BY LenProperties, ElementOfSeq
<1>2. Preceding(keys, i) \in SUBSET Preceding(keys, j)
  BY <1>1 DEF Preceding, Before
<1>3. j \in Preceding(keys, j) /\ j \notin Preceding(keys, i)
  BY <1>1 DEF Preceding, Before
<1> QED  BY <1>2, <1>3, PrecedingFinite, SmallerSubset

(* No two positions have the same rank. *)
LEMMA RankDistinct ==
  ASSUME NEW keys \in Seq(Int), NEW i \in DOMAIN keys, NEW j \in DOMAIN keys,
         SortedRank(keys, i) = SortedRank(keys, j)
  PROVE  i = j
<1>1. DOMAIN keys \subseteq Int /\ \A k \in DOMAIN keys : keys[k] \in Int
  BY LenProperties, ElementOfSeq
<1>2. Before(keys, i, j) \/ Before(keys, j, i)
  BY <1>1 DEF Before
<1>3. SortedRank(keys, i) \in Int
  BY PrecedingFinite
<1> QED  BY <1>2, <1>3, RankFollowsOrder

(* SortedFrom finds every position exactly once. *)
LEMMA SortedFromProperties ==
  ASSUME NEW keys \in Seq(Int)
  PROVE  /\ SortedFrom(keys) \in [DOMAIN keys -> DOMAIN keys]
         /\ \A n \in DOMAIN keys : SortedRank(keys, SortedFrom(keys)[n]) = n
         /\ \A i \in DOMAIN keys : \E n \in DOMAIN keys : SortedFrom(keys)[n] = i
<1> DEFINE f == [i \in DOMAIN keys |-> SortedRank(keys, i)]
<1>1. DOMAIN keys = 1 .. Len(keys) /\ Len(keys) \in Nat
  BY LenProperties
<1>2. CASE DOMAIN keys = {}
  BY <1>2 DEF SortedFrom
<1>3. CASE DOMAIN keys # {}
  <2>1. IsFiniteSet(DOMAIN keys) /\ Cardinality(DOMAIN keys) = Len(keys)
    BY <1>3, PrecedingFinite
  <2>2. f \in [DOMAIN keys -> 1 .. Cardinality(DOMAIN keys)]
    BY <2>1, PrecedingFinite
  <2>3. \A i, j \in DOMAIN keys : f[i] = f[j] => i = j
    BY RankDistinct
  <2> HIDE DEF f
  <2>4. \A n \in 1 .. Cardinality(DOMAIN keys) : \E i \in DOMAIN keys : f[i] = n
    BY <2>1, <2>2, <2>3, NumberingIsOnto
  <2> USE DEF f
  <2>5. \A n \in DOMAIN keys : \E i \in DOMAIN keys : SortedRank(keys, i) = n
    BY <2>1, <2>4, <1>1
  <2>6. \A n \in DOMAIN keys : /\ SortedFrom(keys)[n] \in DOMAIN keys
                               /\ SortedRank(keys, SortedFrom(keys)[n]) = n
    BY <2>5 DEF SortedFrom
  <2>7. ASSUME NEW i \in DOMAIN keys
        PROVE  \E n \in DOMAIN keys : SortedFrom(keys)[n] = i
    <3>1. SortedRank(keys, i) \in DOMAIN keys
      BY <1>1, PrecedingFinite
    <3> QED  BY <3>1, <2>6, RankDistinct
  <2>8. SortedFrom(keys) \in [DOMAIN keys -> DOMAIN keys]
    BY <2>6 DEF SortedFrom
  <2> QED  BY <2>6, <2>7, <2>8
<1> QED  BY <1>2, <1>3

(* insertion_sort_wants and add_segment: every sequence sorted by the keys  *)
(* keeps its length and its elements, moved as the keys are.                *)
THEOREM StableSortPermutes ==
  ASSUME NEW S, NEW keys \in Seq(Int), NEW s \in Seq(S), Len(s) = Len(keys)
  PROVE  /\ StableSort(keys, s) \in Seq(S)
         /\ Len(StableSort(keys, s)) = Len(s)
         /\ DOMAIN StableSort(keys, s) = DOMAIN s
         /\ \A n \in DOMAIN s : StableSort(keys, s)[n] = s[SortedFrom(keys)[n]]
         /\ Range(StableSort(keys, s)) = Range(s)
<1>1. /\ Len(keys) \in Nat
      /\ DOMAIN s = 1 .. Len(keys) /\ DOMAIN keys = 1 .. Len(keys)
      /\ \A i \in DOMAIN s : s[i] \in S
  BY LenProperties, ElementOfSeq
<1>2. StableSort(keys, s) = [n \in 1 .. Len(keys) |-> s[SortedFrom(keys)[n]]]
  BY <1>1 DEF StableSort, SortedFrom
<1>3. StableSort(keys, s) \in [1 .. Len(keys) -> S]
  BY <1>1, <1>2, SortedFromProperties
<1>4. StableSort(keys, s) \in Seq(S)
  BY <1>1, <1>3, SeqDef
<1>5. Len(StableSort(keys, s)) = Len(s)
  BY <1>1, <1>3, <1>4, LenProperties
<1>6. /\ DOMAIN StableSort(keys, s) = DOMAIN s
      /\ \A n \in DOMAIN s : StableSort(keys, s)[n] = s[SortedFrom(keys)[n]]
  BY <1>1, <1>2
<1>7. Range(StableSort(keys, s)) = Range(s)
  <2> DEFINE from == SortedFrom(keys)
  <2>0. /\ from \in [DOMAIN keys -> DOMAIN keys]
        /\ \A i \in DOMAIN keys : \E n \in DOMAIN keys : from[n] = i
    BY SortedFromProperties
  <2> HIDE DEF from
  <2>1. /\ \A n \in DOMAIN s : from[n] \in DOMAIN s
        /\ \A i \in DOMAIN s : \E n \in DOMAIN s : from[n] = i
    BY <2>0, <1>1
  <2>2. Range(StableSort(keys, s)) = {s[from[n]] : n \in DOMAIN s}
    BY <1>6 DEF Range, from
  <2> QED  BY <2>1, <2>2 DEF Range
<1> QED  BY <1>4, <1>5, <1>6, <1>7

(* What the sort of the keys themselves leaves behind is in order, and      *)
(* elements of equal key keep their order.                                  *)
THEOREM StableSortSorts ==
  ASSUME NEW keys \in Seq(Int), NEW m \in DOMAIN keys, NEW n \in DOMAIN keys, m < n
  PROVE  /\ StableSort(keys, keys)[m] <= StableSort(keys, keys)[n]
         /\ keys[SortedFrom(keys)[m]] = keys[SortedFrom(keys)[n]]
              => SortedFrom(keys)[m] < SortedFrom(keys)[n]
<1> DEFINE i == SortedFrom(keys)[m]
           j == SortedFrom(keys)[n]
<1>1. DOMAIN keys \subseteq Int /\ \A k \in DOMAIN keys : keys[k] \in Int
  BY LenProperties, ElementOfSeq
<1>2. /\ i \in DOMAIN keys /\ j \in DOMAIN keys
      /\ SortedRank(keys, i) = m /\ SortedRank(keys, j) = n
  BY SortedFromProperties
<1> HIDE DEF i, j
<1>3. i # j
  BY <1>1, <1>2
<1>4. ~Before(keys, j, i)
  <2>1. SUFFICES ASSUME Before(keys, j, i) PROVE FALSE
    OBVIOUS
  <2>2. SortedRank(keys, j) < SortedRank(keys, i)
    BY <1>2, <1>3, <2>1, RankFollowsOrder
  <2> QED  BY <1>1, <1>2, <2>2
<1>5. keys[i] <= keys[j] /\ (keys[i] = keys[j] => i < j)
  BY <1>1, <1>2, <1>4 DEF Before
<1>6. StableSort(keys, keys)[m] = keys[i] /\ StableSort(keys, keys)[n] = keys[j]
  BY StableSortPermutes DEF i, j
<1> QED  BY <1>5, <1>6 DEF i, j
===============================================================================
