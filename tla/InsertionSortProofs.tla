------------------------- MODULE InsertionSortProofs -------------------------
(****************************************************************************)
(* Theorems about the loop of insertion_sort_wants and add_segment, for     *)
(* inputs of any length.  The loop invariant says what is in order; that it *)
(* is kept for equal keys needs to know that the pair on its way down comes *)
(* from behind all it passes, which is FromBehind.  When the loop is done   *)
(* the order is total, and a total order has one rank for every pair: the   *)
(* one StableSort chooses it by.                                            *)
(****************************************************************************)
EXTENDS InsertionSort, ParallelSortProofs

FromBehind ==
  /\ pc # "inner" => \A m \in DOMAIN input : /\ m < i => payload[m] < i
                                             /\ m >= i => payload[m] = m
  /\ pc = "inner" => /\ i <= Len(input) /\ j <= i /\ payload[j] = i
                     /\ \A m \in DOMAIN input : /\ m <= i /\ m # j => payload[m] < i
                                                /\ m > i => payload[m] = m

IInv ==
  /\ TypeOK
  /\ LoopInvariant
  /\ FromBehind
  /\ pc = "done" => i > Len(input)

------------------------------------------------------------------------------
(* An interval from 1 tells its end. *)
LEMMA SameLength == \A a, b \in Nat : 1 .. a = 1 .. b => a = b
<1>1. ASSUME NEW a \in Nat, NEW b \in Nat, 1 .. a = 1 .. b PROVE a <= b
  <2>1. CASE a = 0
    BY <2>1
  <2>2. CASE a # 0
    <3>1. a \in 1 .. a
      BY <2>2
    <3>2. a \in 1 .. b
      BY <1>1, <3>1
    <3> QED  BY <3>2
  <2> QED  BY <2>1, <2>2
<1>2. ASSUME NEW a \in Nat, NEW b \in Nat, 1 .. a = 1 .. b PROVE a = b
  <2>1. a <= b /\ b <= a
    BY <1>1, <1>2
  <2> QED  BY <2>1
<1> QED  BY <1>2

(* The vectors are as long as the input, which is a sequence. *)
LEMMA Shape ==
  ASSUME TypeOK
  PROVE  /\ Len(input) \in 0 .. MaxLen /\ Len(keys) = Len(input)
         /\ DOMAIN input = 1 .. Len(input)
         /\ DOMAIN keys = 1 .. Len(input) /\ DOMAIN payload = 1 .. Len(input)
         /\ input \in Seq(1 .. MaxKey)
<1>1. PICK n \in 0 .. MaxLen : input \in [1 .. n -> 1 .. MaxKey]
  BY DEF TypeOK, Inputs
<1>2. n \in Nat
  BY <1>1, SortAssumption
<1>3. input \in Seq(1 .. MaxKey)
  BY <1>1, <1>2, SeqDef
<1>4. Len(input) = n
  <2>1. DOMAIN input = 1 .. Len(input) /\ Len(input) \in Nat /\ DOMAIN input = 1 .. n
    BY <1>1, <1>3, LenProperties
  <2> QED  BY <1>2, <2>1, SameLength
<1> QED  BY <1>1, <1>2, <1>3, <1>4 DEF TypeOK

(* The keys as they come are in order up to the first. *)
LEMMA InitIInv == Init => IInv
<1> SUFFICES ASSUME Init PROVE IInv
  OBVIOUS
<1>1. PICK n \in 0 .. MaxLen : input \in [1 .. n -> 1 .. MaxKey]
  BY DEF Init, Inputs
<1>2. DOMAIN input = 1 .. n /\ n \in Nat
  BY <1>1, SortAssumption
<1>3. TypeOK
  <2>1. i \in 2 .. MaxLen + 2 /\ j \in 1 .. MaxLen + 1
    BY SortAssumption DEF Init
  <2> QED  BY <1>1, <2>1 DEF Init, TypeOK
<1>4. FromBehind
  BY <1>2 DEF Init, FromBehind
<1>5. LoopInvariant
  BY <1>1, <1>2 DEF Init, LoopInvariant, PairsKept
<1> QED  BY <1>3, <1>4, <1>5 DEF IInv, Init

(* The outer loop takes the next pair, which is in order with none yet. *)
LEMMA OuterKeeps == ASSUME IInv, Outer PROVE IInv'
<1>1. /\ Len(input) \in 0 .. MaxLen /\ Len(keys) = Len(input)
      /\ DOMAIN input = 1 .. Len(input) /\ DOMAIN keys = 1 .. Len(input)
  BY Shape DEF IInv
<1>2. i \in Int /\ 2 <= i /\ i <= Len(input)
  BY <1>1 DEF IInv, TypeOK, Outer
<1>3. TypeOK'
  BY <1>1, <1>2, SortAssumption DEF IInv, TypeOK, Outer
<1>4. FromBehind'
  BY <1>1, <1>2 DEF IInv, FromBehind, Outer
<1>5. LoopInvariant'
  BY <1>1, <1>2 DEF IInv, LoopInvariant, PairsKept, InOrder, Outer
<1> QED  BY <1>3, <1>4, <1>5 DEF IInv, Outer

(* The outer loop ends behind the last position. *)
LEMMA ReturnKeeps == ASSUME IInv, Return PROVE IInv'
<1>1. Len(keys) = Len(input)
  BY Shape DEF IInv
<1>2. TypeOK' /\ FromBehind'
  BY DEF IInv, TypeOK, FromBehind, Return
<1>3. LoopInvariant'
  BY DEF IInv, LoopInvariant, PairsKept, InOrder, Return
<1> QED  BY <1>1, <1>2, <1>3 DEF IInv, Return

(* A swap moves the pair at j one down past a pair with a larger key. *)
LEMMA InnerKeeps == ASSUME IInv, Inner PROVE IInv'
<1> DEFINE L == Len(input)
<1>1. /\ L \in 0 .. MaxLen /\ Len(keys) = L
      /\ DOMAIN input = 1 .. L /\ DOMAIN keys = 1 .. L /\ DOMAIN payload = 1 .. L
      /\ MaxLen \in Nat /\ MaxKey \in Nat
  BY Shape, SortAssumption DEF IInv
<1>2. /\ i \in Int /\ j \in Int /\ 1 < j /\ j <= i /\ i <= L
      /\ keys \in [1 .. L -> 1 .. MaxKey] /\ payload \in [1 .. L -> 1 .. L]
      /\ keys[j - 1] > keys[j]
      /\ payload[j] = i
      /\ pc = "inner" /\ pc' = "inner" /\ i' = i /\ j' = j - 1 /\ input' = input
  BY <1>1 DEF IInv, TypeOK, FromBehind, Inner, OutOfOrder
<1> HIDE DEF L
<1>3. /\ j \in 1 .. L /\ j - 1 \in 1 .. L
      /\ \A m \in 1 .. L : keys'[m] = IF m = j - 1 THEN keys[j]
                                      ELSE IF m = j THEN keys[j - 1] ELSE keys[m]
      /\ \A m \in 1 .. L : payload'[m] = IF m = j - 1 THEN payload[j]
                                         ELSE IF m = j THEN payload[j - 1] ELSE payload[m]
      /\ keys' \in [1 .. L -> 1 .. MaxKey] /\ payload' \in [1 .. L -> 1 .. L]
  <2>1. j \in 1 .. L /\ j - 1 \in 1 .. L /\ j # j - 1
    BY <1>1, <1>2
  <2>2. /\ keys[j] \in 1 .. MaxKey /\ keys[j - 1] \in 1 .. MaxKey
        /\ payload[j] \in 1 .. L /\ payload[j - 1] \in 1 .. L
    BY <1>2, <2>1
  <2>3. /\ keys' = [keys EXCEPT ![j] = keys[j - 1], ![j - 1] = keys[j]]
        /\ payload' = [payload EXCEPT ![j] = payload[j - 1], ![j - 1] = payload[j]]
    BY DEF Inner, SwapBack
  <2> DEFINE k == j - 1
  <2> HIDE DEF k
  <2>4. /\ keys' = [keys EXCEPT ![j] = keys[k], ![k] = keys[j]]
        /\ payload' = [payload EXCEPT ![j] = payload[k], ![k] = payload[j]]
        /\ k \in 1 .. L /\ j # k
        /\ keys[k] \in 1 .. MaxKey /\ payload[k] \in 1 .. L
    BY <2>1, <2>2, <2>3 DEF k
  <2>5. /\ keys' \in [1 .. L -> 1 .. MaxKey] /\ payload' \in [1 .. L -> 1 .. L]
        /\ \A m \in 1 .. L : keys'[m] = IF m = k THEN keys[j]
                                        ELSE IF m = j THEN keys[k] ELSE keys[m]
        /\ \A m \in 1 .. L : payload'[m] = IF m = k THEN payload[j]
                                           ELSE IF m = j THEN payload[k] ELSE payload[m]
    BY <1>2, <2>1, <2>2, <2>4, Zenon
  <2> QED  BY <2>1, <2>5 DEF k
<1>4. TypeOK'
  <2>1. keys' \in Seq(1 .. MaxKey) /\ Len(keys') = L
    BY <1>1, <1>3, SeqDef, LenProperties
  <2> QED  BY <1>1, <1>2, <1>3, <2>1 DEF IInv, TypeOK, L
<1>5. FromBehind'
  <2>1. \A m \in 1 .. L : /\ m <= i /\ m # j => payload[m] < i
                          /\ m > i => payload[m] = m
    BY <1>1, <1>2 DEF IInv, FromBehind, L
  <2>2. payload'[j - 1] = i
    BY <1>2, <1>3
  <2>3. \A m \in 1 .. L : /\ m <= i /\ m # j - 1 => payload'[m] < i
                          /\ m > i => payload'[m] = m
    <3> TAKE m \in 1 .. L
    <3>1. m \in Int /\ (m > i => m # j /\ m # j - 1)
      BY <1>1, <1>2
    <3>2. CASE m = j - 1
      BY <1>2, <1>3, <3>1, <3>2
    <3>3. CASE m = j
      <4>1. payload'[m] = payload[j - 1] /\ j - 1 \in 1 .. L /\ j - 1 <= i /\ j - 1 # j
        BY <1>2, <1>3, <3>3
      <4> QED  BY <2>1, <3>1, <3>3, <4>1
    <3>4. CASE m # j - 1 /\ m # j
      <4>1. payload'[m] = payload[m]
        BY <1>3, <3>4
      <4> QED  BY <2>1, <3>4, <4>1
    <3> QED  BY <3>2, <3>3, <3>4
  <2> QED  BY <1>1, <1>2, <2>2, <2>3 DEF FromBehind, L
<1>6. PairsKept'
  <2>1. /\ \A n \in 1 .. L : keys[n] = input[payload[n]]
        /\ \A m, n \in 1 .. L : payload[m] = payload[n] => m = n
    BY <1>1 DEF IInv, LoopInvariant, PairsKept, L
  <2>2. \A n \in 1 .. L : keys'[n] = input[payload'[n]]
    BY <1>2, <1>3, <2>1
  <2>3. \A m, n \in 1 .. L : payload'[m] = payload'[n] => m = n
    BY <1>2, <1>3, <2>1
  <2> QED  BY <1>1, <1>2, <2>2, <2>3 DEF PairsKept, L
<1>7. ASSUME NEW m \in 1 .. L, NEW n \in 1 .. L, m < n, n <= i, n # j - 1
      PROVE  \/ keys'[m] < keys'[n]
             \/ keys'[m] = keys'[n] /\ payload'[m] < payload'[n]
  <2>1. \A a, b \in 1 .. L : a < b /\ b <= i /\ b # j
          => \/ keys[a] < keys[b]
             \/ keys[a] = keys[b] /\ payload[a] < payload[b]
    BY <1>1, <1>2 DEF IInv, LoopInvariant, InOrder
  <2>2. CASE n = j
    <3>1. CASE m = j - 1
      BY <1>2, <1>3, <2>2, <3>1
    <3>2. CASE m # j - 1
      BY <1>2, <1>3, <1>7, <2>1, <2>2, <3>2
    <3> QED  BY <3>1, <3>2
  <2>3. CASE n # j
    <3>1. CASE m = j - 1
      BY <1>2, <1>3, <1>7, <2>1, <2>3, <3>1
    <3>2. CASE m = j
      BY <1>2, <1>3, <1>7, <2>1, <2>3, <3>2
    <3>3. CASE m # j - 1 /\ m # j
      BY <1>2, <1>3, <1>7, <2>1, <2>3, <3>3
    <3> QED  BY <3>1, <3>2, <3>3
  <2> QED  BY <2>2, <2>3
<1>8. LoopInvariant'
  BY <1>2, <1>3, <1>6, <1>7 DEF LoopInvariant, InOrder
<1> QED  BY <1>2, <1>4, <1>5, <1>8 DEF IInv

(* The pair at j stays: nothing before it has a larger key, and those of    *)
(* equal key come from before it.                                           *)
LEMMA PlacedKeeps == ASSUME IInv, Placed PROVE IInv'
<1> DEFINE L == Len(input)
<1>1. /\ L \in 0 .. MaxLen /\ Len(keys) = L
      /\ DOMAIN input = 1 .. L /\ DOMAIN keys = 1 .. L /\ DOMAIN payload = 1 .. L
      /\ MaxLen \in Nat /\ MaxKey \in Nat
  BY Shape, SortAssumption DEF IInv
<1>2. /\ i \in Int /\ j \in Int /\ 1 <= j /\ 2 <= i /\ j <= i /\ i <= L
      /\ keys \in [1 .. L -> 1 .. MaxKey] /\ payload \in [1 .. L -> 1 .. L]
      /\ payload[j] = i
      /\ j = 1 \/ keys[j - 1] <= keys[j]
      /\ pc = "inner" /\ pc' = "outer" /\ i' = i + 1 /\ j' = j
      /\ input' = input /\ keys' = keys /\ payload' = payload
  <2>1. /\ i \in Int /\ j \in Int /\ 1 <= j /\ 2 <= i /\ j <= i /\ i <= L
        /\ keys \in [1 .. L -> 1 .. MaxKey] /\ payload \in [1 .. L -> 1 .. L]
        /\ payload[j] = i
        /\ pc = "inner" /\ pc' = "outer" /\ i' = i + 1 /\ j' = j
        /\ input' = input /\ keys' = keys /\ payload' = payload
    BY <1>1 DEF IInv, TypeOK, FromBehind, Placed
  <2>2. j = 1 \/ ~(keys[j - 1] > keys[j])
    BY <2>1 DEF Placed, OutOfOrder
  <2>3. j # 1 => keys[j - 1] \in Int /\ keys[j] \in Int
    <3>1. \A k \in 1 .. L : keys[k] \in Int
      BY <1>1, <2>1
    <3>2. j \in 1 .. L /\ (j # 1 => j - 1 \in 1 .. L)
      BY <1>1, <2>1
    <3> QED  BY <3>1, <3>2
  <2>4. j = 1 \/ keys[j - 1] <= keys[j]
    BY <2>2, <2>3
  <2> QED  BY <2>1, <2>4
<1> HIDE DEF L
<1>3. TypeOK'
  BY <1>1, <1>2 DEF IInv, TypeOK, L
<1>4. \A m \in 1 .. L : /\ m <= i /\ m # j => payload[m] < i
                        /\ m > i => payload[m] = m
  BY <1>1, <1>2 DEF IInv, FromBehind, L
<1>5. FromBehind'
  BY <1>1, <1>2, <1>4 DEF FromBehind, L
<1>6. PairsKept'
  BY <1>2 DEF IInv, LoopInvariant, PairsKept
<1>7. \A a, b \in 1 .. L : a < b /\ b <= i /\ b # j
        => \/ keys[a] < keys[b]
           \/ keys[a] = keys[b] /\ payload[a] < payload[b]
  BY <1>1, <1>2 DEF IInv, LoopInvariant, InOrder
<1>8. ASSUME NEW m \in 1 .. L, m < j
      PROVE  \/ keys[m] < keys[j]
             \/ keys[m] = keys[j] /\ payload[m] < payload[j]
  <2>1. j - 1 \in 1 .. L /\ payload[m] < i /\ keys[j - 1] <= keys[j]
    BY <1>1, <1>2, <1>4, <1>8
  <2>0. keys[m] \in Int /\ keys[j] \in Int /\ keys[j - 1] \in Int
    <3>1. j \in 1 .. L /\ 1 .. MaxKey \subseteq Int
      BY <1>1, <1>2
    <3> QED  BY <1>2, <2>1, <3>1
  <2>2. keys[m] <= keys[j - 1]
    <3>1. CASE m = j - 1
      BY <1>2, <2>1, <3>1
    <3>2. CASE m # j - 1
      <4>1. m < j - 1 /\ j - 1 <= i /\ j - 1 # j
        BY <1>1, <1>2, <1>8, <3>2
      <4>2. keys[m] < keys[j - 1] \/ keys[m] = keys[j - 1]
        BY <1>7, <2>1, <4>1
      <4> QED  BY <2>0, <4>2
    <3> QED  BY <3>1, <3>2
  <2> QED  BY <1>2, <2>0, <2>1, <2>2
<1>9. \A m, n \in 1 .. L : m < n /\ n < i + 1
        => \/ keys[m] < keys[n]
           \/ keys[m] = keys[n] /\ payload[m] < payload[n]
  <2> SUFFICES ASSUME NEW m \in 1 .. L, NEW n \in 1 .. L, m < n, n < i + 1
               PROVE  \/ keys[m] < keys[n]
                      \/ keys[m] = keys[n] /\ payload[m] < payload[n]
    OBVIOUS
  <2>1. CASE n = j
    BY <1>8, <2>1
  <2>2. CASE n # j
    <3>1. n <= i
      BY <1>1, <1>2
    <3> QED  BY <1>7, <2>2, <3>1
  <2> QED  BY <2>1, <2>2
<1>10. LoopInvariant'
  BY <1>1, <1>2, <1>6, <1>9 DEF LoopInvariant, InOrder
<1> QED  BY <1>2, <1>3, <1>5, <1>10 DEF IInv

(* Every test of the two loops keeps the invariant. *)
LEMMA NextIInv == IInv /\ [Next]_vars => IInv'
<1> SUFFICES ASSUME IInv, [Next]_vars PROVE IInv'
  OBVIOUS
<1>1. CASE UNCHANGED vars
  BY <1>1 DEF vars, IInv, TypeOK, LoopInvariant, PairsKept, InOrder, FromBehind
<1> QED  BY <1>1, OuterKeeps, ReturnKeeps, InnerKeeps, PlacedKeeps DEF Next

------------------------------------------------------------------------------
(* Pairs that are all in order stand at the rank of their input position.   *)
LEMMA OrderIsRank ==
  ASSUME NEW in \in Seq(Int), NEW p \in [DOMAIN in -> DOMAIN in],
         \A m, n \in DOMAIN in : p[m] = p[n] => m = n,
         \A m, n \in DOMAIN in : m < n => in[p[m]] < in[p[n]]
                                          \/ (in[p[m]] = in[p[n]] /\ p[m] < p[n]),
         NEW n \in DOMAIN in
  PROVE  SortedRank(in, p[n]) = n
<1>1. Len(in) \in Nat /\ DOMAIN in = 1 .. Len(in) /\ \A m \in DOMAIN in : in[m] \in Int
  BY LenProperties, ElementOfSeq
<1>2. \A q \in DOMAIN in : \E m \in DOMAIN in : p[m] = q
  <2>1. IsFiniteSet(DOMAIN in) /\ Cardinality(DOMAIN in) = Len(in)
    BY PrecedingFinite
  <2>2. p \in [DOMAIN in -> 1 .. Cardinality(DOMAIN in)]
    BY <1>1, <2>1
  <2>3. \A k \in 1 .. Cardinality(DOMAIN in) : \E m \in DOMAIN in : p[m] = k
    BY <2>1, <2>2, NumberingIsOnto
  <2> QED  BY <1>1, <2>1, <2>3
<1>3. Preceding(in, p[n]) = {p[m] : m \in 1 .. n}
  <2>1. ASSUME NEW m \in 1 .. n PROVE p[m] \in Preceding(in, p[n])
    <3>1. m \in DOMAIN in /\ n \in Int /\ (m < n \/ m = n)
      BY <1>1
    <3>2. p[m] \in DOMAIN in /\ p[n] \in DOMAIN in
      BY <3>1
    <3>3. p[m] \in Int /\ p[n] \in Int
      BY <1>1, <3>2
    <3>4. Before(in, p[m], p[n])
      BY <3>1, <3>3 DEF Before
    <3> QED  BY <3>2, <3>4 DEF Preceding
  <2>2. ASSUME NEW q \in Preceding(in, p[n]) PROVE \E m \in 1 .. n : q = p[m]
    <3>1. q \in DOMAIN in /\ Before(in, q, p[n])
      BY DEF Preceding
    <3>2. PICK m \in DOMAIN in : p[m] = q
      BY <1>2, <3>1
    <3>3. p[m] \in DOMAIN in /\ p[n] \in DOMAIN in
      OBVIOUS
    <3>4. m \in Int /\ n \in Int /\ p[m] \in Int /\ p[n] \in Int /\ in[p[m]] \in Int /\ in[p[n]] \in Int
      BY <1>1, <3>3
    <3>5. ~(n < m)
      <4>1. n < m => in[p[n]] < in[p[m]] \/ (in[p[n]] = in[p[m]] /\ p[n] < p[m])
        OBVIOUS
      <4>2. in[p[m]] < in[p[n]] \/ (in[p[m]] = in[p[n]] /\ p[m] <= p[n])
        BY <3>1, <3>2 DEF Before
      <4> QED  BY <3>4, <4>1, <4>2
    <3> QED  BY <1>1, <3>2, <3>4, <3>5
  <2> QED  BY <2>1, <2>2
<1>4. Cardinality({p[m] : m \in 1 .. n}) = n
  <2> DEFINE f == [m \in 1 .. n |-> p[m]]
             T == {p[m] : m \in 1 .. n}
  <2>1. 1 .. n \subseteq DOMAIN in /\ n \in Nat
    BY <1>1
  <2>2. f \in Bijection(1 .. n, T)
    <3>1. f \in [1 .. n -> T]
      OBVIOUS
    <3>2. \A a, b \in 1 .. n : f[a] = f[b] => a = b
      BY <2>1
    <3>3. \A t \in T : \E a \in 1 .. n : f[a] = t
      OBVIOUS
    <3> QED  BY <3>1, <3>2, <3>3 DEF Bijection, Injection, Surjection, IsInjective
  <2>3. IsFiniteSet(1 .. n) /\ Cardinality(1 .. n) = n
    <3>0. n \in Int /\ n >= 1
      BY <1>1
    <3>1. IsFiniteSet(1 .. n) /\ Cardinality(1 .. n) = IF 1 > n THEN 0 ELSE n - 1 + 1
      BY <3>0, FS_Interval
    <3> QED  BY <3>0, <3>1
  <2>4. Cardinality(T) = Cardinality(1 .. n)
    <3>1. ExistsBijection(1 .. n, T)
      BY <2>2 DEF ExistsBijection
    <3> QED  BY <2>3, <3>1, FS_Bijection
  <2> QED  BY <2>3, <2>4
<1>5. SortedRank(in, p[n]) = Cardinality(Preceding(in, p[n]))
  <2>1. p[n] \in DOMAIN in
    OBVIOUS
  <2> QED  BY <2>1, PrecedingFinite
<1> QED  BY <1>3, <1>4, <1>5

(* The loop invariant, for inputs of any length (insertion_sort_wants,      *)
(* add_segment).                                                            *)
THEOREM LoopInvariantHolds == Spec => []LoopInvariant
<1>1. IInv => LoopInvariant
  BY DEF IInv
<1> QED  BY <1>1, InitIInv, NextIInv, PTL DEF Spec

(* The loops end with the stable sort of both vectors, which is what the    *)
(* models of the exchange and of the player take for them.                  *)
THEOREM LoopSortsStably == Spec => []SortsStably
<1>1. IInv => SortsStably
  <2> SUFFICES ASSUME IInv, pc = "done"
               PROVE  /\ keys = StableSort(input, input)
                      /\ payload = StableSort(input, [n \in DOMAIN input |-> n])
    BY DEF SortsStably
  <2> DEFINE D == DOMAIN input
  <2>1. /\ Len(input) \in 0 .. MaxLen
        /\ D = 1 .. Len(input) /\ DOMAIN keys = D /\ DOMAIN payload = D
        /\ input \in Seq(1 .. MaxKey)
    BY Shape DEF IInv
  <2>2. input \in Seq(Int)
    <3>1. 1 .. MaxKey \subseteq Int
      OBVIOUS
    <3> QED  BY <2>1, <3>1, SeqMonotonic
  <2>3. /\ payload \in [D -> D] /\ keys \in [D -> 1 .. MaxKey]
        /\ i \in Int /\ i > Len(input)
    BY <2>1 DEF IInv, TypeOK
  <2>4. /\ \A n \in D : keys[n] = input[payload[n]]
        /\ \A m, n \in D : payload[m] = payload[n] => m = n
    BY DEF IInv, LoopInvariant, PairsKept
  <2>5. \A m, n \in D : m < n => \/ keys[m] < keys[n]
                                 \/ keys[m] = keys[n] /\ payload[m] < payload[n]
    BY <2>1, <2>3 DEF IInv, LoopInvariant, InOrder
  <2>6. \A m, n \in D : m < n => \/ input[payload[m]] < input[payload[n]]
                                 \/ (input[payload[m]] = input[payload[n]] /\ payload[m] < payload[n])
    BY <2>4, <2>5
  <2>7. \A n \in D : SortedRank(input, payload[n]) = n
    BY <2>2, <2>3, <2>4, <2>6, OrderIsRank
  <2>8. \A n \in D : SortedFrom(input)[n] = payload[n]
    <3>1. \A n \in D : /\ SortedFrom(input)[n] \in D /\ payload[n] \in D
                       /\ SortedRank(input, SortedFrom(input)[n]) = n
      BY <2>2, <2>3, SortedFromProperties
    <3> QED  BY <2>2, <2>7, <3>1, RankDistinct
  <2>9. keys = StableSort(input, input)
    <3>1. /\ DOMAIN StableSort(input, input) = D
          /\ \A n \in D : StableSort(input, input)[n] = input[SortedFrom(input)[n]]
      BY <2>2, StableSortPermutes
    <3>2. StableSort(input, input) = [n \in D |-> StableSort(input, input)[n]]
      BY <3>1 DEF StableSort
    <3>3. \A n \in D : keys[n] = StableSort(input, input)[n]
      BY <2>4, <2>8, <3>1
    <3>4. keys = [n \in D |-> keys[n]]
      BY <2>3
    <3> HIDE DEF D
    <3> QED  BY <3>2, <3>3, <3>4, Zenon
  <2>10. payload = StableSort(input, [n \in D |-> n])
    <3> DEFINE id == [n \in D |-> n]
    <3>1. id \in Seq(D) /\ Len(id) = Len(input)
      <4>1. id \in Seq(D)
        BY <2>1, SeqDef
      <4>2. Len(id) \in Nat /\ DOMAIN id = 1 .. Len(id) /\ DOMAIN id = D
        BY <4>1, LenProperties
      <4> QED  BY <2>1, <4>2, SameLength
    <3> HIDE DEF id
    <3>2. /\ DOMAIN StableSort(input, id) = D
          /\ \A n \in D : StableSort(input, id)[n] = id[SortedFrom(input)[n]]
      <4>1. DOMAIN id = D
        BY DEF id
      <4>2. id \in Seq(Int)
        BY <2>1, <3>1, SeqMonotonic
      <4>3. /\ DOMAIN StableSort(input, id) = DOMAIN id
            /\ \A n \in DOMAIN id : StableSort(input, id)[n] = id[SortedFrom(input)[n]]
        <5> SUFFICES ASSUME NEW s, s = id
                     PROVE  /\ DOMAIN StableSort(input, s) = DOMAIN s
                            /\ \A n \in DOMAIN s : StableSort(input, s)[n] = s[SortedFrom(input)[n]]
          OBVIOUS
        <5>1. s \in Seq(Int) /\ Len(s) = Len(input)
          BY <3>1, <4>2
        <5> QED  BY <2>2, <5>1, StableSortPermutes
      <4> QED  BY <4>1, <4>3
    <3>3. \A n \in D : StableSort(input, id)[n] = payload[n]
      <4>1. \A n \in D : payload[n] \in D
        BY <2>3
      <4> QED  BY <2>8, <3>2, <4>1 DEF id
    <3>4. StableSort(input, id) = [n \in D |-> StableSort(input, id)[n]]
      BY <3>2 DEF StableSort
    <3> QED  BY <2>3, <3>2, <3>3, <3>4 DEF id
  <2> QED  BY <2>9, <2>10
<1> QED  BY <1>1, InitIInv, NextIInv, PTL DEF Spec
------------------------------------------------------------------------------
(* Every vector is read and swapped at positions it has: no test of the     *)
(* loops panics.                                                            *)
IndicesInBounds ==
  pc = "inner" =>
    /\ j \in DOMAIN keys /\ j \in DOMAIN payload
    /\ j > 1 => j - 1 \in DOMAIN keys /\ j - 1 \in DOMAIN payload

(* The loops of insertion_sort_wants and add_segment stay inside their      *)
(* vectors, for inputs of any length.                                       *)
THEOREM SortStaysInBounds == Spec => []IndicesInBounds
<1>1. IInv => IndicesInBounds
  <2> SUFFICES ASSUME IInv, pc = "inner"
               PROVE  /\ j \in 1 .. Len(input)
                      /\ j > 1 => j - 1 \in 1 .. Len(input)
    BY Shape DEF IInv, IndicesInBounds
  <2>1. /\ Len(input) \in Nat /\ i \in Int /\ j \in Int
        /\ 1 <= j /\ j <= i /\ i <= Len(input)
    BY Shape, SortAssumption DEF IInv, TypeOK, FromBehind
  <2> QED  BY <2>1
<1> QED  BY <1>1, InitIInv, NextIInv, PTL DEF Spec

(* What is left to do: a round of the outer loop costs more than any of the *)
(* inner loop can, and a step of the inner loop one.                        *)
Round == MaxLen + 3

Rounds == Round * (MaxLen + 2 - i)

InRound ==
  IF pc = "outer" THEN MaxLen + 2 ELSE IF pc = "inner" THEN j ELSE 0

StepsLeft == Rounds + InRound

GetsShorter == StepsLeft \in Nat /\ StepsLeft' < StepsLeft

(* Every step of the loops leaves less to do, and what is left is a natural *)
(* number, so the loops end: a swap takes j down, and i goes up although    *)
(* the next round takes j back up to it.                                    *)
THEOREM LoopsGetShorter == Spec => [][GetsShorter]_vars
<1>1. ASSUME IInv, Next PROVE GetsShorter
  <2>1. /\ MaxLen \in Nat /\ Round \in Nat /\ Round = MaxLen + 3
        /\ i \in Int /\ 2 <= i /\ i <= MaxLen + 2
        /\ j \in Int /\ 1 <= j /\ j <= MaxLen + 1
        /\ pc \in {"outer", "inner", "done"}
    BY <1>1, SortAssumption DEF IInv, TypeOK, Round
  <2>2. /\ Len(keys) \in Nat /\ Len(keys) <= MaxLen
        /\ pc = "inner" => j <= i /\ i <= MaxLen
    BY <1>1, <2>1, Shape DEF IInv, FromBehind
  <2>3. \A r, n \in Nat : r * n \in Nat
    OBVIOUS
  <2>4. Rounds \in Nat
    <3>1. MaxLen + 2 - i \in Nat
      BY <2>1
    <3> QED  BY <2>1, <2>3, <3>1 DEF Rounds
  <2>5. StepsLeft \in Nat
    <3>1. InRound \in Nat
      BY <2>1 DEF InRound
    <3> QED  BY <2>4, <3>1 DEF StepsLeft
  <2>6. ASSUME Rounds' = Rounds,
                InRound' < InRound /\ InRound' \in Int /\ InRound \in Int
         PROVE  GetsShorter
    <3>1. \A r \in Nat, a \in Int, b \in Int : b < a => r + b < r + a
      OBVIOUS
    <3>2. StepsLeft' = Rounds + InRound'
      BY <2>6 DEF StepsLeft
    <3>3. Rounds + InRound' < Rounds + InRound
      BY <2>4, <2>6, <3>1
    <3>4. StepsLeft' < StepsLeft
      BY <3>2, <3>3 DEF StepsLeft
    <3> QED  BY <2>5, <3>4 DEF GetsShorter
  <2>7. CASE Outer
    <3>1. Rounds' = Rounds
      BY <2>7 DEF Outer, Rounds, Round
    <3>2. InRound' < InRound /\ InRound' \in Int /\ InRound \in Int
      BY <2>1, <2>2, <2>7 DEF Outer, InRound
    <3> QED  BY <2>6, <3>1, <3>2
  <2>8. CASE Return
    <3>1. Rounds' = Rounds
      BY <2>8 DEF Return, Rounds, Round
    <3>2. InRound' < InRound /\ InRound' \in Int /\ InRound \in Int
      BY <2>1, <2>8 DEF Return, InRound
    <3> QED  BY <2>6, <3>1, <3>2
  <2>9. CASE Inner
    <3>1. Rounds' = Rounds
      BY <2>9 DEF Inner, Rounds, Round
    <3>2. InRound' < InRound /\ InRound' \in Int /\ InRound \in Int
      BY <2>1, <2>9 DEF Inner, InRound
    <3> QED  BY <2>6, <3>1, <3>2
  <2>10. CASE Placed
    <3>1. Rounds' = Rounds - Round
      <4>1. \A r, n \in Int : r * (n - 1) = r * n - r
        OBVIOUS
      <4>2. /\ Rounds' = Round * (MaxLen + 2 - (i + 1))
            /\ MaxLen + 2 - (i + 1) = (MaxLen + 2 - i) - 1 /\ MaxLen + 2 - i \in Int
        BY <2>1, <2>10 DEF Placed, Rounds, Round
      <4> QED  BY <2>1, <4>1, <4>2 DEF Rounds
    <3>2. InRound' = MaxLen + 2 /\ InRound \in Int /\ InRound >= 1
      BY <2>1, <2>10 DEF Placed, InRound
    <3> QED  BY <2>1, <2>4, <2>5, <3>1, <3>2 DEF StepsLeft, GetsShorter
  <2> QED  BY <1>1, <2>7, <2>8, <2>9, <2>10 DEF Next
<1>2. IInv /\ [Next]_vars => [GetsShorter]_vars
  BY <1>1
<1> QED  BY <1>2, InitIInv, NextIInv, PTL DEF Spec
===============================================================================
