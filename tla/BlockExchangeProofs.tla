-------------------------- MODULE BlockExchangeProofs --------------------------
(****************************************************************************)
(* Every method of BlockExchange (ipfs/block_exchange.rs) leaves a struct   *)
(* that is well formed, from any struct that is, for tables, want lists and *)
(* sets of peers and cids of any size.  What depends on the order of the    *)
(* calls, the alignment of cids and datums, is not part of it: see          *)
(* ExchangeCalls.                                                           *)
(****************************************************************************)
EXTENDS BlockExchange, ParallelSortProofs

WellFormed(ex) ==
  /\ ex \in Exchange
  /\ InBounds(ex)
  /\ IsInjective(ex.peers)
  /\ IsInjective(ex.cids)

------------------------------------------------------------------------------
(* Helpers.                                                                 *)

(* position() finds an entry that is there. *)
LEMMA PositionFinds ==
  ASSUME NEW s, NEW x \in Range(s)
  PROVE  Position(s, x) \in DOMAIN s /\ s[Position(s, x)] = x
<1>1. \E i \in DOMAIN s : s[i] = x
  BY DEF Range
<1> QED  BY <1>1 DEF Position

(* Pushing an entry that is not there yet keeps a table without repeats,    *)
(* and every index into it valid (add_want).                                *)
LEMMA PushNewProperties ==
  ASSUME NEW S, NEW s \in Seq(S), NEW x \in S, IsInjective(s)
  PROVE  /\ PushNew(s, x) \in Seq(S)
         /\ IsInjective(PushNew(s, x))
         /\ Len(s) <= Len(PushNew(s, x))
         /\ DOMAIN s \subseteq DOMAIN PushNew(s, x)
         /\ \A i \in DOMAIN s : PushNew(s, x)[i] = s[i]
         /\ x \in Range(PushNew(s, x))
<1>1. Len(s) \in Nat /\ DOMAIN s = 1 .. Len(s)
  BY LenProperties
<1>2. CASE x \in Range(s)
  BY <1>1, <1>2 DEF PushNew
<1>3. CASE x \notin Range(s)
  <2>1. PushNew(s, x) = Append(s, x)
    BY <1>3 DEF PushNew
  <2>2. /\ Append(s, x) \in Seq(S) /\ Len(Append(s, x)) = Len(s) + 1
        /\ DOMAIN Append(s, x) = 1 .. Len(s) + 1
        /\ \A i \in 1 .. Len(s) : Append(s, x)[i] = s[i]
        /\ Append(s, x)[Len(s) + 1] = x
    BY AppendProperties, LenProperties
  <2>3. \A i \in 1 .. Len(s) : s[i] # x
    BY <1>1, <1>3 DEF Range
  <2>4. IsInjective(Append(s, x))
    <3> SUFFICES ASSUME NEW i \in 1 .. Len(s) + 1, NEW j \in 1 .. Len(s) + 1,
                        Append(s, x)[i] = Append(s, x)[j]
                 PROVE  i = j
      BY <2>2 DEF IsInjective
    <3>1. CASE i \in 1 .. Len(s) /\ j \in 1 .. Len(s)
      BY <1>1, <2>2, <3>1 DEF IsInjective
    <3>2. CASE ~(i \in 1 .. Len(s) /\ j \in 1 .. Len(s))
      BY <1>1, <2>2, <2>3, <3>2
    <3> QED  BY <3>1, <3>2
  <2>5. x \in Range(Append(s, x))
    <3>1. Len(s) + 1 \in DOMAIN Append(s, x)
      BY <1>1, <2>2
    <3> QED  BY <2>2, <3>1 DEF Range
  <2> QED  BY <1>1, <2>1, <2>2, <2>4, <2>5
<1> QED  BY <1>2, <1>3

(* Swapping two entries of a table keeps its length and its entries.        *)
LEMMA SwapProperties ==
  ASSUME NEW S, NEW s \in Seq(S), NEW i \in DOMAIN s, NEW j \in DOMAIN s, IsInjective(s)
  PROVE  /\ Swap(s, i, j) \in Seq(S)
         /\ Len(Swap(s, i, j)) = Len(s)
         /\ IsInjective(Swap(s, i, j))
<1>1. /\ Len(s) \in Nat /\ DOMAIN s = 1 .. Len(s) /\ s \in [1 .. Len(s) -> S]
      /\ s[i] \in S /\ s[j] \in S
  BY LenProperties, ElementOfSeq
<1>2. Swap(s, i, j) \in [1 .. Len(s) -> S]
  BY <1>1 DEF Swap
<1>3. \A k \in DOMAIN s : Swap(s, i, j)[k] = IF k = j THEN s[i] ELSE IF k = i THEN s[j] ELSE s[k]
  BY <1>1 DEF Swap
<1>4. Swap(s, i, j) \in Seq(S) /\ Len(Swap(s, i, j)) = Len(s)
  <2>1. Swap(s, i, j) \in Seq(S)
    BY <1>1, <1>2, SeqDef
  <2> QED  BY <1>1, <1>2, <2>1, LenProperties
<1>5. IsInjective(Swap(s, i, j))
  BY <1>1, <1>2, <1>3 DEF IsInjective
<1> QED  BY <1>4, <1>5

(* The kept positions are numbered without gap or repeat ...                *)
LEMMA RankIsOnto ==
  ASSUME NEW K \in SUBSET Nat, IsFiniteSet(K)
  PROVE  \A n \in 1 .. Cardinality(K) : \E i \in K : Rank(K, i) = n
BY UpToIsOnto DEF Rank, UpTo

(* The position that the n-th kept entry had. *)
KeptFrom(K) == [n \in 1 .. Cardinality(K) |-> CHOOSE i \in K : Rank(K, i) = n]

(* ... so what the removals leave is a sequence of entries that were there, *)
(* as long as there are positions kept, the same positions in both vectors. *)
LEMMA PickProperties ==
  ASSUME NEW S, NEW s \in Seq(S), NEW K \in SUBSET DOMAIN s
  PROVE  /\ Pick(s, K) \in Seq(S)
         /\ Len(Pick(s, K)) = Cardinality(K)
         /\ DOMAIN Pick(s, K) = 1 .. Cardinality(K)
         /\ \A n \in DOMAIN Pick(s, K) : /\ KeptFrom(K)[n] \in K
                                         /\ Pick(s, K)[n] = s[KeptFrom(K)[n]]
<1>1. Len(s) \in Nat /\ DOMAIN s = 1 .. Len(s) /\ \A i \in DOMAIN s : s[i] \in S
  BY LenProperties, ElementOfSeq
<1>2. IsFiniteSet(K) /\ Cardinality(K) \in Nat
  <2>1. IsFiniteSet(1 .. Len(s))
    BY <1>1, FS_Interval
  <2> QED  BY <1>1, <2>1, FS_Subset, FS_CardinalityType
<1>3. \A n \in 1 .. Cardinality(K) : \E i \in K : Rank(K, i) = n
  BY <1>1, <1>2, RankIsOnto
<1>4. DOMAIN Pick(s, K) = 1 .. Cardinality(K)
  BY DEF Pick
<1>5. \A n \in 1 .. Cardinality(K) : /\ KeptFrom(K)[n] \in K
                                     /\ Pick(s, K)[n] = s[KeptFrom(K)[n]]
  BY <1>3 DEF Pick, KeptFrom
<1>6. Pick(s, K) \in [1 .. Cardinality(K) -> S]
  BY <1>1, <1>5 DEF Pick
<1>7. Pick(s, K) \in Seq(S)
  BY <1>2, <1>6, SeqDef
<1>8. Len(Pick(s, K)) = Cardinality(K)
  BY <1>2, <1>4, <1>7, LenProperties
<1> QED  BY <1>4, <1>5, <1>7, <1>8

(* Every kept position is the n-th for some n, the number of those up to it.*)
LEMMA KeptFromCovers ==
  ASSUME NEW K \in SUBSET Nat, IsFiniteSet(K), NEW i \in K
  PROVE  Rank(K, i) \in 1 .. Cardinality(K) /\ KeptFrom(K)[Rank(K, i)] = i
<1> DEFINE n == Rank(K, i)
           j == KeptFrom(K)[n]
<1>1. n \in 1 .. Cardinality(K)
  BY UpToGrows DEF Rank, UpTo
<1>2. j \in K /\ Rank(K, j) = n
  BY <1>1, RankIsOnto DEF KeptFrom
<1>3. /\ i < j => Rank(K, i) < Rank(K, j)
      /\ j < i => Rank(K, j) < Rank(K, i)
  BY <1>2, UpToGrows DEF Rank, UpTo
<1>4. Cardinality(K) \in Nat
  BY FS_CardinalityType
<1> HIDE DEF n, j
<1>5. i \in Nat /\ j \in Nat
  BY <1>2
<1>6. n \in Nat
  BY <1>1, <1>4
<1>7. i = j
  BY <1>2, <1>3, <1>5, <1>6 DEF n
<1> QED  BY <1>1, <1>7 DEF n, j

------------------------------------------------------------------------------
(* The methods.                                                             *)

(* The parts of a well-formed struct, as the proofs below use them. *)
LEMMA WellFormedParts ==
  ASSUME NEW ex, WellFormed(ex)
  PROVE  /\ ex.peers \in Seq(Peers) /\ ex.cids \in Seq(Cids) /\ ex.datums \in Seq(Cids)
         /\ ex.peer_indices \in Seq(Nat) /\ ex.cid_indices \in Seq(Nat)
         /\ Len(ex.peer_indices) = Len(ex.cid_indices)
         /\ DOMAIN ex.peer_indices = DOMAIN ex.cid_indices
         /\ \A i \in DOMAIN ex.peer_indices : ex.peer_indices[i] \in DOMAIN ex.peers
         /\ \A i \in DOMAIN ex.cid_indices : ex.cid_indices[i] \in DOMAIN ex.cids
         /\ Len(ex.datums) <= Len(ex.cids)
         /\ IsInjective(ex.peers) /\ IsInjective(ex.cids)
<1>1. /\ ex.peer_indices \in Seq(Nat) /\ ex.cid_indices \in Seq(Nat)
      /\ Len(ex.peer_indices) = Len(ex.cid_indices)
  BY DEF WellFormed, Exchange, InBounds
<1>2. DOMAIN ex.peer_indices = DOMAIN ex.cid_indices
  BY <1>1, LenProperties
<1> QED  BY <1>1, <1>2 DEF WellFormed, Exchange, InBounds

(* Default::default(): every table is empty. *)
LEMMA DefaultWellFormed == WellFormed(DefaultExchange)
<1>1. DefaultExchange \in Exchange
  BY EmptySeq DEF DefaultExchange, Exchange
<1> QED  BY <1>1 DEF WellFormed, InBounds, DefaultExchange, IsInjective

(* An index into a table that grew is valid in it, and so is the new one.   *)
LEMMA AppendIndex ==
  ASSUME NEW s \in Seq(Nat), NEW k \in Nat, NEW D, k \in D,
         \A i \in DOMAIN s : s[i] \in D
  PROVE  /\ Append(s, k) \in Seq(Nat)
         /\ Len(Append(s, k)) = Len(s) + 1
         /\ \A i \in DOMAIN Append(s, k) : Append(s, k)[i] \in D
<1>1. /\ Append(s, k) \in Seq(Nat) /\ Len(Append(s, k)) = Len(s) + 1
      /\ \A i \in 1 .. Len(s) : Append(s, k)[i] = s[i]
      /\ Append(s, k)[Len(s) + 1] = k
  BY AppendProperties
<1>2. /\ Len(s) \in Nat /\ DOMAIN s = 1 .. Len(s)
      /\ DOMAIN Append(s, k) = 1 .. Len(s) + 1
  BY <1>1, LenProperties
<1>3. \A i \in 1 .. Len(s) + 1 : i \in 1 .. Len(s) \/ i = Len(s) + 1
  BY <1>2
<1> QED  BY <1>1, <1>2, <1>3

(* add_want: both tables get the entry they lack, the want its indices. *)
LEMMA AddWantWellFormed ==
  ASSUME NEW ex, WellFormed(ex), NEW p \in Peers, NEW c \in Cids
  PROVE  WellFormed(AddWant(ex, p, c))
<1> DEFINE new   == AddWant(ex, p, c)
           peers == PushNew(ex.peers, p)
           cids  == PushNew(ex.cids, c)
<1>0. ex \in Exchange
  BY DEF WellFormed
<1>1. /\ new.peers = peers /\ new.cids = cids /\ new.datums = ex.datums
      /\ new.peer_indices = Append(ex.peer_indices, Position(peers, p))
      /\ new.cid_indices = Append(ex.cid_indices, Position(cids, c))
  BY <1>0 DEF Exchange, AddWant
<1>2. /\ peers \in Seq(Peers) /\ IsInjective(peers) /\ p \in Range(peers)
      /\ DOMAIN ex.peers \subseteq DOMAIN peers
      /\ cids \in Seq(Cids) /\ IsInjective(cids) /\ c \in Range(cids)
      /\ DOMAIN ex.cids \subseteq DOMAIN cids /\ Len(ex.cids) <= Len(cids)
  BY WellFormedParts, PushNewProperties
<1> HIDE DEF new, peers, cids
<1>3. /\ Position(peers, p) \in DOMAIN peers /\ Position(peers, p) \in Nat
      /\ Position(cids, c) \in DOMAIN cids /\ Position(cids, c) \in Nat
  BY <1>2, PositionFinds, LenProperties
<1>4. /\ new.peer_indices \in Seq(Nat)
      /\ Len(new.peer_indices) = Len(ex.peer_indices) + 1
      /\ \A i \in DOMAIN new.peer_indices : new.peer_indices[i] \in DOMAIN new.peers
  <2>1. /\ ex.peer_indices \in Seq(Nat)
        /\ \A i \in DOMAIN ex.peer_indices : ex.peer_indices[i] \in DOMAIN peers
    BY <1>2, WellFormedParts
  <2>2. LET s == Append(ex.peer_indices, Position(peers, p))
        IN  /\ s \in Seq(Nat) /\ Len(s) = Len(ex.peer_indices) + 1
            /\ \A i \in DOMAIN s : s[i] \in DOMAIN peers
    BY <1>3, <2>1, AppendIndex
  <2> QED  BY <1>1, <2>2
<1>5. /\ new.cid_indices \in Seq(Nat)
      /\ Len(new.cid_indices) = Len(ex.cid_indices) + 1
      /\ \A i \in DOMAIN new.cid_indices : new.cid_indices[i] \in DOMAIN new.cids
  <2>1. /\ ex.cid_indices \in Seq(Nat)
        /\ \A i \in DOMAIN ex.cid_indices : ex.cid_indices[i] \in DOMAIN cids
    BY <1>2, WellFormedParts
  <2>2. LET s == Append(ex.cid_indices, Position(cids, c))
        IN  /\ s \in Seq(Nat) /\ Len(s) = Len(ex.cid_indices) + 1
            /\ \A i \in DOMAIN s : s[i] \in DOMAIN cids
    BY <1>3, <2>1, AppendIndex
  <2> QED  BY <1>1, <2>2
<1>6. Len(new.datums) <= Len(new.cids) /\ new.datums \in Seq(Cids)
  <2>1. Len(ex.datums) \in Nat /\ Len(ex.cids) \in Nat /\ Len(cids) \in Nat
    BY <1>2, WellFormedParts, LenProperties
  <2> QED  BY <1>1, <1>2, <2>1, WellFormedParts
<1>7. new \in Exchange
  <2>1. /\ new.peers \in Seq(Peers) /\ new.cids \in Seq(Cids)
        /\ new.peer_indices \in Seq(Nat) /\ new.cid_indices \in Seq(Nat)
    BY <1>1, <1>2, <1>4, <1>5
  <2> QED  BY <1>0, <2>1 DEF Exchange, AddWant, new
<1>8. InBounds(new)
  BY <1>4, <1>5, <1>6, WellFormedParts DEF InBounds
<1> QED  BY <1>1, <1>2, <1>7, <1>8 DEF WellFormed, new

(* A want list that is made of entries of the old one, two vectors of one   *)
(* length, is as valid as the old one (the removals and the sort).          *)
LEMMA WantsReplaced ==
  ASSUME NEW ex, WellFormed(ex),
         NEW ps \in Seq(Nat), NEW cs \in Seq(Nat), Len(ps) = Len(cs),
         \A n \in DOMAIN ps : ps[n] \in Range(ex.peer_indices),
         \A n \in DOMAIN cs : cs[n] \in Range(ex.cid_indices)
  PROVE  WellFormed([ex EXCEPT !.peer_indices = ps, !.cid_indices = cs])
<1> DEFINE new == [ex EXCEPT !.peer_indices = ps, !.cid_indices = cs]
<1>0. ex \in Exchange
  BY DEF WellFormed
<1>1. /\ new.peers = ex.peers /\ new.cids = ex.cids /\ new.datums = ex.datums
      /\ new.peer_indices = ps /\ new.cid_indices = cs
      /\ new \in Exchange
  BY <1>0 DEF Exchange
<1> HIDE DEF new
<1>2. /\ \A n \in DOMAIN ps : ps[n] \in DOMAIN ex.peers
      /\ \A n \in DOMAIN cs : cs[n] \in DOMAIN ex.cids
  BY WellFormedParts DEF Range
<1>3. InBounds(new)
  BY <1>1, <1>2, WellFormedParts DEF InBounds
<1>4. WellFormed(new)
  BY <1>1, <1>3, WellFormedParts DEF WellFormed
<1> QED  BY <1>4 DEF new

(* The removals take the same positions out of both want vectors. *)
LEMMA KeepWantsWellFormed ==
  ASSUME NEW ex, WellFormed(ex), NEW K \in SUBSET DOMAIN ex.cid_indices
  PROVE  WellFormed(KeepWants(ex, K))
<1> DEFINE ps == Pick(ex.peer_indices, K)
           cs == Pick(ex.cid_indices, K)
<1>1. /\ ex.peer_indices \in Seq(Nat) /\ ex.cid_indices \in Seq(Nat)
      /\ K \in SUBSET DOMAIN ex.peer_indices
  BY WellFormedParts
<1>2. /\ ps \in Seq(Nat) /\ Len(ps) = Cardinality(K)
      /\ \A n \in DOMAIN ps : KeptFrom(K)[n] \in K /\ ps[n] = ex.peer_indices[KeptFrom(K)[n]]
  BY <1>1, PickProperties
<1>3. /\ cs \in Seq(Nat) /\ Len(cs) = Cardinality(K)
      /\ \A n \in DOMAIN cs : KeptFrom(K)[n] \in K /\ cs[n] = ex.cid_indices[KeptFrom(K)[n]]
  BY <1>1, PickProperties
<1> HIDE DEF ps, cs
<1>4. /\ \A n \in DOMAIN ps : ps[n] \in Range(ex.peer_indices)
      /\ \A n \in DOMAIN cs : cs[n] \in Range(ex.cid_indices)
  BY <1>1, <1>2, <1>3 DEF Range
<1>5. WellFormed([ex EXCEPT !.peer_indices = ps, !.cid_indices = cs])
  BY <1>2, <1>3, <1>4, WantsReplaced
<1> QED  BY <1>5 DEF KeepWants, ps, cs

(* remove_wants. *)
LEMMA RemoveWantsWellFormed ==
  ASSUME NEW ex, WellFormed(ex), NEW c
  PROVE  WellFormed(RemoveWants(ex, c))
<1> DEFINE K == {i \in DOMAIN ex.cid_indices : ex.cid_indices[i] # Position(ex.cids, c)}
<1>1. RemoveWants(ex, c) = IF c \notin Range(ex.cids) THEN ex ELSE KeepWants(ex, K)
  BY DEF RemoveWants
<1>2. WellFormed(KeepWants(ex, K))
  BY KeepWantsWellFormed
<1> QED  BY <1>1, <1>2

(* remove_want. *)
LEMMA RemoveWantWellFormed ==
  ASSUME NEW ex, WellFormed(ex), NEW p, NEW c
  PROVE  WellFormed(RemoveWant(ex, p, c))
<1> DEFINE K == {i \in DOMAIN ex.peer_indices :
                   ~ /\ ex.peer_indices[i] = Position(ex.peers, p)
                     /\ ex.cids[ex.cid_indices[i]] = c}
<1>1. RemoveWant(ex, p, c) = IF p \notin Range(ex.peers) THEN ex ELSE KeepWants(ex, K)
  BY DEF RemoveWant
<1>2. K \in SUBSET DOMAIN ex.cid_indices
  BY WellFormedParts
<1>3. WellFormed(KeepWants(ex, K))
  BY <1>2, KeepWantsWellFormed
<1> QED  BY <1>1, <1>3

(* insertion_sort_wants: the two want vectors move together. *)
LEMMA InsertionSortWantsWellFormed ==
  ASSUME NEW ex, WellFormed(ex)
  PROVE  WellFormed(InsertionSortWants(ex))
<1> DEFINE ps == StableSort(ex.peer_indices, ex.peer_indices)
           cs == StableSort(ex.peer_indices, ex.cid_indices)
<1>1. /\ ex.peer_indices \in Seq(Nat) /\ ex.cid_indices \in Seq(Nat)
      /\ ex.peer_indices \in Seq(Int)
      /\ Len(ex.cid_indices) = Len(ex.peer_indices)
  <2>1. ex.peer_indices \in Seq(Int)
    <3>1. ex.peer_indices \in Seq(Nat) /\ Nat \subseteq Int
      BY WellFormedParts
    <3> QED  BY <3>1, SeqMonotonic
  <2> QED  BY <2>1, WellFormedParts
<1>sort. ASSUME NEW keys \in Seq(Int), NEW s \in Seq(Nat), Len(s) = Len(keys)
      PROVE  /\ StableSort(keys, s) \in Seq(Nat)
             /\ Len(StableSort(keys, s)) = Len(s)
             /\ Range(StableSort(keys, s)) = Range(s)
  BY <1>sort, StableSortPermutes
<1>2. ps \in Seq(Nat) /\ Len(ps) = Len(ex.peer_indices) /\ Range(ps) = Range(ex.peer_indices)
  BY <1>1, <1>sort
<1>3. cs \in Seq(Nat) /\ Len(cs) = Len(ex.peer_indices) /\ Range(cs) = Range(ex.cid_indices)
  BY <1>1, <1>sort
<1> HIDE DEF ps, cs
<1>4. /\ \A n \in DOMAIN ps : ps[n] \in Range(ps)
      /\ \A n \in DOMAIN cs : cs[n] \in Range(cs)
  BY DEF Range
<1>5. WellFormed([ex EXCEPT !.peer_indices = ps, !.cid_indices = cs])
  BY <1>2, <1>3, <1>4, WantsReplaced
<1> QED  BY <1>5 DEF InsertionSortWants, ps, cs

(* add_block on a cid that waits for its data: the swap keeps the table, the *)
(* index fix-up stays inside it, and the datum finds a cid without data.     *)
LEMMA AddMissingDataWellFormed ==
  ASSUME NEW ex, WellFormed(ex), NEW block \in Blocks,
         block.cid \in Range(ex.cids),
         ~ \E i \in Stored(ex) : ex.cids[i] = block.cid
  PROVE  WellFormed(AddMissingData(ex, block))
<1> DEFINE new  == AddMissingData(ex, block)
           i    == Position(ex.cids, block.cid)
           last == Len(ex.cids)
           cs   == [k \in DOMAIN ex.cid_indices |-> Remap(ex.cid_indices[k], i, last)]
<1>0. ex \in Exchange /\ block.data \in Cids
  BY DEF WellFormed, Blocks
<1>1. /\ new.peers = ex.peers /\ new.peer_indices = ex.peer_indices
      /\ new.cids = Swap(ex.cids, last, i) /\ new.cid_indices = cs
      /\ new.datums = Append(ex.datums, block.data)
  BY <1>0 DEF Exchange, AddMissingData, PushData
<1>2. /\ Len(ex.cids) \in Nat /\ DOMAIN ex.cids = 1 .. Len(ex.cids)
      /\ Len(ex.datums) \in Nat /\ DOMAIN ex.datums = 1 .. Len(ex.datums)
      /\ Len(ex.cid_indices) \in Nat /\ DOMAIN ex.cid_indices = 1 .. Len(ex.cid_indices)
  BY WellFormedParts, LenProperties
<1>3. i \in DOMAIN ex.cids /\ ex.cids[i] = block.cid
  BY PositionFinds
<1> HIDE DEF i
<1>4. last \in DOMAIN ex.cids
  BY <1>2, <1>3
<1>5. Len(ex.datums) < Len(ex.cids)
  <2>1. i \notin DOMAIN ex.datums
    BY <1>3 DEF Stored
  <2> QED  BY <1>2, <1>3, <2>1
<1>6. /\ Swap(ex.cids, last, i) \in Seq(Cids) /\ Len(Swap(ex.cids, last, i)) = Len(ex.cids)
      /\ IsInjective(Swap(ex.cids, last, i))
  BY <1>3, <1>4, WellFormedParts, SwapProperties
<1>7. DOMAIN Swap(ex.cids, last, i) = DOMAIN ex.cids
  BY <1>2, <1>6, LenProperties
<1>8. /\ Append(ex.datums, block.data) \in Seq(Cids)
      /\ Len(Append(ex.datums, block.data)) = Len(ex.datums) + 1
  BY <1>0, WellFormedParts, AppendProperties
<1>9. /\ cs \in Seq(Nat) /\ Len(cs) = Len(ex.cid_indices)
      /\ \A k \in DOMAIN cs : cs[k] \in DOMAIN ex.cids
  <2>1. \A k \in DOMAIN ex.cid_indices : cs[k] \in DOMAIN ex.cids
    BY <1>3, <1>4, WellFormedParts DEF Remap
  <2>2. DOMAIN cs = 1 .. Len(ex.cid_indices) /\ cs = [k \in DOMAIN cs |-> cs[k]]
    BY <1>2
  <2> HIDE DEF cs
  <2>3. cs \in [1 .. Len(ex.cid_indices) -> Nat]
    BY <1>2, <2>1, <2>2
  <2>4. cs \in Seq(Nat)
    BY <1>2, <2>3, SeqDef
  <2>5. Len(cs) = Len(ex.cid_indices)
    BY <1>2, <2>2, <2>4, LenProperties
  <2> QED  BY <1>2, <2>1, <2>2, <2>4, <2>5
<1> HIDE DEF cs, last
<1>10. new \in Exchange
  <2>1. /\ new.peers \in Seq(Peers) /\ new.peer_indices \in Seq(Nat)
        /\ new.cids \in Seq(Cids) /\ new.cid_indices \in Seq(Nat)
        /\ new.datums \in Seq(Cids)
    BY <1>1, <1>6, <1>8, <1>9, WellFormedParts
  <2> QED  BY <1>0, <2>1 DEF Exchange, AddMissingData
<1> HIDE DEF new
<1>11. InBounds(new)
  <2>1. Len(new.datums) <= Len(new.cids)
    BY <1>1, <1>2, <1>5, <1>6, <1>8
  <2> QED  BY <1>1, <1>7, <1>9, <2>1, WellFormedParts DEF InBounds
<1>12. WellFormed(new)
  BY <1>1, <1>6, <1>10, <1>11, WellFormedParts DEF WellFormed
<1> QED  BY <1>12 DEF new

(* add_block on a cid the table does not have: it grows with the datums. *)
LEMMA PushBlockWellFormed ==
  ASSUME NEW ex, WellFormed(ex), NEW block \in Blocks, block.cid \notin Range(ex.cids)
  PROVE  WellFormed(AddNewBlock(ex, block))
<1> DEFINE new == AddNewBlock(ex, block)
<1>0. ex \in Exchange /\ block.cid \in Cids /\ block.data \in Cids
  BY DEF WellFormed, Blocks
<1>1. /\ new.peers = ex.peers /\ new.peer_indices = ex.peer_indices
      /\ new.cids = PushNew(ex.cids, block.cid) /\ new.cid_indices = ex.cid_indices
      /\ new.datums = Append(ex.datums, block.data)
  BY <1>0 DEF Exchange, PushNew, PushData, AddNewBlock
<1>2. /\ new.cids \in Seq(Cids) /\ IsInjective(new.cids)
      /\ DOMAIN ex.cids \subseteq DOMAIN new.cids
  <2>1. ex.cids \in Seq(Cids) /\ IsInjective(ex.cids)
    BY WellFormedParts
  <2>2. /\ PushNew(ex.cids, block.cid) \in Seq(Cids)
        /\ IsInjective(PushNew(ex.cids, block.cid))
        /\ DOMAIN ex.cids \subseteq DOMAIN PushNew(ex.cids, block.cid)
    BY <1>0, <2>1, PushNewProperties
  <2> QED  BY <1>1, <2>2
<1>3. new.cids = Append(ex.cids, block.cid)
  BY <1>1 DEF PushNew
<1>4. /\ new.datums \in Seq(Cids) /\ Len(new.datums) = Len(ex.datums) + 1
      /\ Len(new.cids) = Len(ex.cids) + 1
  <2>1. ex.cids \in Seq(Cids) /\ ex.datums \in Seq(Cids)
    BY WellFormedParts
  <2>2. /\ Append(ex.datums, block.data) \in Seq(Cids)
        /\ Len(Append(ex.datums, block.data)) = Len(ex.datums) + 1
    BY <1>0, <2>1, AppendProperties
  <2>3. Len(Append(ex.cids, block.cid)) = Len(ex.cids) + 1
    BY <1>0, <2>1, AppendProperties
  <2> QED  BY <1>1, <1>3, <2>2, <2>3
<1>5. new \in Exchange
  BY <1>0, <1>2, <1>4, WellFormedParts DEF Exchange, AddNewBlock
<1> HIDE DEF new
<1>6. InBounds(new)
  <2>1. Len(ex.datums) \in Nat /\ Len(ex.cids) \in Nat
    BY WellFormedParts, LenProperties
  <2>2. Len(new.datums) <= Len(new.cids)
    BY <1>4, <2>1, WellFormedParts
  <2> QED  BY <1>1, <1>2, <2>2, WellFormedParts DEF InBounds
<1>7. WellFormed(new)
  BY <1>1, <1>2, <1>5, <1>6, WellFormedParts DEF WellFormed
<1> QED  BY <1>7 DEF new

(* add_block: nothing to do, a wanted cid gets its data, or a new one comes. *)
LEMMA AddBlockWellFormed ==
  ASSUME NEW ex, WellFormed(ex), NEW block \in Blocks
  PROVE  WellFormed(AddBlock(ex, block))
<1>1. CASE \E i \in Stored(ex) : ex.cids[i] = block.cid
  BY <1>1 DEF AddBlock
<1>2. CASE /\ ~ \E i \in Stored(ex) : ex.cids[i] = block.cid
           /\ block.cid \in Range(ex.cids)
  <2>1. AddBlock(ex, block) = AddMissingData(ex, block)
    BY <1>2 DEF AddBlock
  <2> QED  BY <1>2, <2>1, AddMissingDataWellFormed
<1>3. CASE /\ ~ \E i \in Stored(ex) : ex.cids[i] = block.cid
           /\ block.cid \notin Range(ex.cids)
  <2>1. AddBlock(ex, block) = AddNewBlock(ex, block)
    BY <1>3 DEF AddBlock
  <2> QED  BY <1>3, <2>1, PushBlockWellFormed
<1> QED  BY <1>1, <1>2, <1>3

(* iter_wanted_blocks yields a peer and a block of the tables. *)
LEMMA OfferIsBlockForPeer ==
  ASSUME NEW ex, WellFormed(ex), NEW i \in WantedPositions(ex)
  PROVE  Offer(ex, i) \in [peer : Peers, block : Blocks]
<1>1. /\ i \in DOMAIN ex.cid_indices /\ i \in DOMAIN ex.peer_indices
      /\ ex.cid_indices[i] <= Len(ex.datums)
  BY WellFormedParts DEF WantedPositions
<1>2. ex.peer_indices[i] \in DOMAIN ex.peers /\ ex.cid_indices[i] \in DOMAIN ex.cids
  BY <1>1, WellFormedParts
<1>3. ex.cid_indices[i] \in DOMAIN ex.datums
  <2>1. /\ Len(ex.datums) \in Nat /\ DOMAIN ex.datums = 1 .. Len(ex.datums)
        /\ Len(ex.cids) \in Nat /\ DOMAIN ex.cids = 1 .. Len(ex.cids)
    BY WellFormedParts, LenProperties
  <2> QED  BY <1>1, <1>2, <2>1
<1>4. /\ ex.peers[ex.peer_indices[i]] \in Peers
      /\ ex.cids[ex.cid_indices[i]] \in Cids
      /\ ex.datums[ex.cid_indices[i]] \in Cids
  BY <1>2, <1>3, WellFormedParts, LenProperties, ElementOfSeq
<1> QED  BY <1>4 DEF Offer, Blocks

------------------------------------------------------------------------------
(* The alignment of cids and datums.                                        *)

(* The cids without data are those behind the last datum. *)
LEMMA MissingBehindDatums ==
  ASSUME NEW ex, WellFormed(ex)
  PROVE  /\ Len(ex.datums) \in Nat /\ Len(ex.cids) \in Nat
         /\ DOMAIN ex.datums = 1 .. Len(ex.datums) /\ DOMAIN ex.cids = 1 .. Len(ex.cids)
         /\ Stored(ex) = 1 .. Len(ex.datums)
         /\ Missing(ex) = {ex.cids[k] : k \in Len(ex.datums) + 1 .. Len(ex.cids)}
<1>1. /\ Len(ex.datums) \in Nat /\ Len(ex.cids) \in Nat
      /\ DOMAIN ex.datums = 1 .. Len(ex.datums) /\ DOMAIN ex.cids = 1 .. Len(ex.cids)
      /\ Len(ex.datums) <= Len(ex.cids)
  BY WellFormedParts, LenProperties
<1>2. Stored(ex) = 1 .. Len(ex.datums)
  BY <1>1 DEF Stored
<1>3. DOMAIN ex.cids \ DOMAIN ex.datums = Len(ex.datums) + 1 .. Len(ex.cids)
  BY <1>1
<1> QED  BY <1>1, <1>2, <1>3 DEF Missing

(* add_want, the removals and the sort move no cid that has its data.       *)
LEMMA AlignedKept ==
  ASSUME NEW ex, WellFormed(ex), NEW new, WellFormed(new),
         new.datums = ex.datums, Aligned(ex),
         \A i \in DOMAIN ex.cids : new.cids[i] = ex.cids[i]
  PROVE  Aligned(new)
<1>1. Stored(new) = Stored(ex) /\ Stored(ex) \subseteq DOMAIN ex.cids
  BY MissingBehindDatums DEF Stored
<1> QED  BY <1>1 DEF Aligned

(* add_want puts its cid behind the cids that have data. *)
LEMMA AddWantAligned ==
  ASSUME NEW ex, WellFormed(ex), Aligned(ex), NEW p \in Peers, NEW c \in Cids
  PROVE  Aligned(AddWant(ex, p, c))
<1>1. ex \in Exchange
  BY DEF WellFormed
<1>2. /\ AddWant(ex, p, c).datums = ex.datums
      /\ AddWant(ex, p, c).cids = PushNew(ex.cids, c)
  BY <1>1 DEF AddWant, Exchange
<1>3. \A i \in DOMAIN ex.cids : PushNew(ex.cids, c)[i] = ex.cids[i]
  BY WellFormedParts, PushNewProperties
<1> QED  BY <1>2, <1>3, AddWantWellFormed, AlignedKept

(* The removals leave cids and datums alone. *)
LEMMA KeepWantsAligned ==
  ASSUME NEW ex, WellFormed(ex), Aligned(ex), NEW K \in SUBSET DOMAIN ex.cid_indices
  PROVE  Aligned(KeepWants(ex, K))
<1>1. ex \in Exchange
  BY DEF WellFormed
<1>2. KeepWants(ex, K).datums = ex.datums /\ KeepWants(ex, K).cids = ex.cids
  BY <1>1 DEF KeepWants, Exchange
<1> QED  BY <1>2, KeepWantsWellFormed, AlignedKept

(* remove_wants and remove_want are two of the removals. *)
LEMMA RemoveWantsAligned ==
  ASSUME NEW ex, WellFormed(ex), Aligned(ex), NEW c
  PROVE  Aligned(RemoveWants(ex, c))
<1> DEFINE K == {i \in DOMAIN ex.cid_indices : ex.cid_indices[i] # Position(ex.cids, c)}
<1>1. RemoveWants(ex, c) = IF c \notin Range(ex.cids) THEN ex ELSE KeepWants(ex, K)
  BY DEF RemoveWants
<1>2. Aligned(KeepWants(ex, K))
  BY KeepWantsAligned
<1> QED  BY <1>1, <1>2

(* remove_want. *)
LEMMA RemoveWantAligned ==
  ASSUME NEW ex, WellFormed(ex), Aligned(ex), NEW p, NEW c
  PROVE  Aligned(RemoveWant(ex, p, c))
<1> DEFINE K == {i \in DOMAIN ex.peer_indices :
                   ~ /\ ex.peer_indices[i] = Position(ex.peers, p)
                     /\ ex.cids[ex.cid_indices[i]] = c}
<1>1. RemoveWant(ex, p, c) = IF p \notin Range(ex.peers) THEN ex ELSE KeepWants(ex, K)
  BY DEF RemoveWant
<1>2. K \in SUBSET DOMAIN ex.cid_indices
  BY WellFormedParts
<1>3. Aligned(KeepWants(ex, K))
  BY <1>2, KeepWantsAligned
<1> QED  BY <1>1, <1>3

(* So does the sort. *)
LEMMA InsertionSortWantsAligned ==
  ASSUME NEW ex, WellFormed(ex), Aligned(ex)
  PROVE  Aligned(InsertionSortWants(ex))
<1>1. ex \in Exchange
  BY DEF WellFormed
<1>2. /\ InsertionSortWants(ex).datums = ex.datums
      /\ InsertionSortWants(ex).cids = ex.cids
  BY <1>1 DEF InsertionSortWants, Exchange
<1> QED  BY <1>2, InsertionSortWantsWellFormed, AlignedKept

(* add_block puts a genuine block's data under its cid exactly when no      *)
(* other cid of the table lacks its data: first when the cid was wanted ... *)
LEMMA MissingDataAligned ==
  ASSUME NEW ex, WellFormed(ex), Aligned(ex), NEW c \in Cids,
         c \in Range(ex.cids), ~ \E i \in Stored(ex) : ex.cids[i] = c
  PROVE  Aligned(AddMissingData(ex, Genuine(c))) <=> Missing(ex) \subseteq {c}
<1> DEFINE new  == AddMissingData(ex, Genuine(c))
           i    == Position(ex.cids, c)
           last == Len(ex.cids)
           d    == Len(ex.datums)
<1>0. /\ ex \in Exchange /\ Genuine(c) \in Blocks
      /\ Genuine(c).cid = c /\ Genuine(c).data = c
  BY DEF WellFormed, Genuine, Blocks
<1>1. new.cids = Swap(ex.cids, last, i) /\ new.datums = Append(ex.datums, c)
  BY <1>0 DEF Exchange, AddMissingData, PushData
<1>2. /\ last \in Nat /\ d \in Nat /\ DOMAIN ex.cids = 1 .. last
      /\ DOMAIN ex.datums = 1 .. d /\ Stored(ex) = 1 .. d
      /\ Missing(ex) = {ex.cids[k] : k \in d + 1 .. last}
      /\ IsInjective(ex.cids) /\ d <= last
  BY MissingBehindDatums, WellFormedParts
<1>3. i \in 1 .. last /\ ex.cids[i] = c /\ i > d
  <2>1. i \in DOMAIN ex.cids /\ ex.cids[i] = c
    BY PositionFinds
  <2> HIDE DEF i
  <2> QED  BY <1>2, <2>1
<1> HIDE DEF i
<1>4. \A k \in 1 .. last :
        new.cids[k] = IF k = i THEN ex.cids[last] ELSE IF k = last THEN c ELSE ex.cids[k]
  BY <1>1, <1>2, <1>3 DEF Swap
<1>5. /\ WellFormed(new) /\ Len(new.datums) = d + 1
      /\ \A k \in 1 .. d : new.datums[k] = ex.datums[k]
      /\ new.datums[d + 1] = c
  <2>1. WellFormed(new)
    BY <1>0, AddMissingDataWellFormed
  <2>2. ex.datums \in Seq(Cids)
    BY WellFormedParts
  <2> QED  BY <1>1, <2>1, <2>2, AppendProperties
<1> HIDE DEF new, d, last
<1>6. Aligned(new) <=> new.cids[d + 1] = c
  <2>1. Stored(new) = 1 .. d + 1
    BY <1>5, MissingBehindDatums
  <2>2. \A k \in 1 .. d : new.datums[k] = new.cids[k]
    <3>1. \A k \in 1 .. d : ex.datums[k] = ex.cids[k]
      BY <1>2 DEF Aligned
    <3>2. \A k \in 1 .. d : k \in 1 .. last /\ k # i /\ k # last
      BY <1>2, <1>3
    <3> QED  BY <1>4, <1>5, <3>1, <3>2
  <2>3. \A k \in 1 .. d + 1 : k \in 1 .. d \/ k = d + 1
    BY <1>2
  <2>4. d + 1 \in 1 .. d + 1
    BY <1>2
  <2> QED  BY <1>5, <2>1, <2>2, <2>3, <2>4 DEF Aligned
<1>7. new.cids[d + 1] = c <=> last = d + 1
  BY <1>2, <1>3, <1>4 DEF IsInjective
<1>8. Missing(ex) \subseteq {c} <=> last = d + 1
  <2>1. ASSUME last = d + 1 PROVE Missing(ex) \subseteq {c}
    BY <1>2, <1>3, <2>1
  <2>2. ASSUME last # d + 1 PROVE ~(Missing(ex) \subseteq {c})
    <3>1. d + 1 \in d + 1 .. last /\ last \in d + 1 .. last
      BY <1>2, <1>3
    <3>2. ex.cids[d + 1] \in Missing(ex) /\ ex.cids[last] \in Missing(ex)
      BY <1>2, <3>1
    <3>3. ex.cids[d + 1] # ex.cids[last]
      BY <1>2, <1>3, <2>2 DEF IsInjective
    <3> QED  BY <3>2, <3>3
  <2> QED  BY <2>1, <2>2
<1> QED  BY <1>6, <1>7, <1>8 DEF new

(* ... then when the table did not have the cid. *)
LEMMA PushBlockAligned ==
  ASSUME NEW ex, WellFormed(ex), Aligned(ex), NEW c \in Cids, c \notin Range(ex.cids)
  PROVE  Aligned(AddNewBlock(ex, Genuine(c))) <=> Missing(ex) \subseteq {c}
<1> DEFINE new  == AddNewBlock(ex, Genuine(c))
           last == Len(ex.cids)
           d    == Len(ex.datums)
<1>0. /\ ex \in Exchange /\ Genuine(c) \in Blocks
      /\ Genuine(c).cid = c /\ Genuine(c).data = c
  BY DEF WellFormed, Genuine, Blocks
<1>1. new.cids = Append(ex.cids, c) /\ new.datums = Append(ex.datums, c)
  BY <1>0 DEF Exchange, PushData, AddNewBlock
<1>2. /\ last \in Nat /\ d \in Nat /\ DOMAIN ex.cids = 1 .. last
      /\ DOMAIN ex.datums = 1 .. d /\ Stored(ex) = 1 .. d
      /\ Missing(ex) = {ex.cids[k] : k \in d + 1 .. last}
      /\ d <= last /\ ex.cids \in Seq(Cids) /\ ex.datums \in Seq(Cids)
  BY MissingBehindDatums, WellFormedParts
<1>3. \A k \in 1 .. last : ex.cids[k] # c
  BY <1>2 DEF Range
<1>4. WellFormed(new)
  BY <1>0, PushBlockWellFormed
<1> HIDE DEF new, d, last
<1>5. /\ \A k \in 1 .. last : new.cids[k] = ex.cids[k]
      /\ new.cids[last + 1] = c
  BY <1>1, <1>2, AppendProperties DEF last
<1>6. /\ Len(new.datums) = d + 1
      /\ \A k \in 1 .. d : new.datums[k] = ex.datums[k]
      /\ new.datums[d + 1] = c
  BY <1>1, <1>2, AppendProperties DEF d
<1>7. Aligned(new) <=> new.cids[d + 1] = c
  <2>1. Stored(new) = 1 .. d + 1
    BY <1>4, <1>6, MissingBehindDatums
  <2>2. \A k \in 1 .. d : new.datums[k] = new.cids[k]
    <3>1. \A k \in 1 .. d : ex.datums[k] = ex.cids[k]
      BY <1>2 DEF Aligned
    <3>2. \A k \in 1 .. d : k \in 1 .. last
      BY <1>2
    <3> QED  BY <1>5, <1>6, <3>1, <3>2
  <2>3. /\ d + 1 \in 1 .. d + 1
        /\ \A k \in 1 .. d + 1 : k \in 1 .. d \/ k = d + 1
    BY <1>2
  <2> QED  BY <1>6, <2>1, <2>2, <2>3 DEF Aligned
<1>8. CASE d = last
  <2>1. Missing(ex) = {}
    BY <1>2, <1>8
  <2> QED  BY <1>5, <1>7, <1>8, <2>1 DEF new
<1>9. CASE d # last
  <2>1. d + 1 \in 1 .. last /\ d + 1 \in d + 1 .. last
    BY <1>2, <1>9
  <2>2. new.cids[d + 1] # c
    BY <1>3, <1>5, <2>1
  <2>3. ex.cids[d + 1] \in Missing(ex) /\ ex.cids[d + 1] # c
    BY <1>2, <1>3, <2>1
  <2> QED  BY <1>7, <2>2, <2>3 DEF new
<1> QED  BY <1>8, <1>9

(* The alignment is lost exactly by a block that comes while another cid of *)
(* the table is waiting (add_block).                                        *)
LEMMA AddBlockAligned ==
  ASSUME NEW ex, WellFormed(ex), Aligned(ex), NEW c \in Cids
  PROVE  /\ AddBlock(ex, Genuine(c)) # ex
              => (Aligned(AddBlock(ex, Genuine(c))) <=> Missing(ex) \subseteq {c})
         /\ Missing(ex) \subseteq {c} => Aligned(AddBlock(ex, Genuine(c)))
<1>0. Genuine(c).cid = c /\ Genuine(c).data = c
  BY DEF Genuine
<1>1. CASE \E i \in Stored(ex) : ex.cids[i] = c
  <2>1. AddBlock(ex, Genuine(c)) = ex
    BY <1>0, <1>1 DEF AddBlock
  <2> QED  BY <2>1
<1>2. CASE ~(\E i \in Stored(ex) : ex.cids[i] = c) /\ c \in Range(ex.cids)
  <2>1. AddBlock(ex, Genuine(c)) = AddMissingData(ex, Genuine(c))
    BY <1>0, <1>2 DEF AddBlock
  <2> QED  BY <1>2, <2>1, MissingDataAligned
<1>3. CASE ~(\E i \in Stored(ex) : ex.cids[i] = c) /\ c \notin Range(ex.cids)
  <2>1. AddBlock(ex, Genuine(c)) = AddNewBlock(ex, Genuine(c))
    BY <1>0, <1>3 DEF AddBlock
  <2>2. Aligned(AddNewBlock(ex, Genuine(c)))
          <=> Missing(ex) \subseteq {c}
    BY <1>3, PushBlockAligned
  <2>3. Aligned(AddBlock(ex, Genuine(c))) <=> Missing(ex) \subseteq {c}
    BY <2>1, <2>2, Zenon
  <2> QED  BY <2>3
<1> QED  BY <1>1, <1>2, <1>3

------------------------------------------------------------------------------
(* What each method does to the wants of the list.                          *)

(* The list as a sequence of pairs. *)
LEMMA WantListType ==
  ASSUME NEW ex, WellFormed(ex)
  PROVE  /\ WantList(ex) \in Seq(Peers \X Cids)
         /\ Len(WantList(ex)) = Len(ex.cid_indices)
         /\ DOMAIN WantList(ex) = DOMAIN ex.cid_indices
         /\ DOMAIN WantList(ex) = 1 .. Len(WantList(ex)) /\ Len(WantList(ex)) \in Nat
         /\ \A i \in DOMAIN WantList(ex) : WantList(ex)[i] = WantAt(ex, i)
<1>1. /\ Len(ex.cid_indices) \in Nat
      /\ DOMAIN ex.cid_indices = 1 .. Len(ex.cid_indices)
  BY WellFormedParts, LenProperties
<1>2. \A i \in DOMAIN ex.cid_indices : WantAt(ex, i) \in Peers \X Cids
  <2> SUFFICES ASSUME NEW i \in DOMAIN ex.cid_indices PROVE WantAt(ex, i) \in Peers \X Cids
    OBVIOUS
  <2>1. ex.peer_indices[i] \in DOMAIN ex.peers /\ ex.cid_indices[i] \in DOMAIN ex.cids
    BY WellFormedParts
  <2>2. ex.peers[ex.peer_indices[i]] \in Peers
    BY <2>1, WellFormedParts, LenProperties, ElementOfSeq
  <2>3. ex.cids[ex.cid_indices[i]] \in Cids
    BY <2>1, WellFormedParts, LenProperties, ElementOfSeq
  <2> QED  BY <2>2, <2>3 DEF WantAt
<1>3. WantList(ex) \in [1 .. Len(ex.cid_indices) -> Peers \X Cids]
  BY <1>1, <1>2 DEF WantList
<1>4. WantList(ex) \in Seq(Peers \X Cids)
  BY <1>1, <1>3, SeqDef
<1>5. /\ DOMAIN WantList(ex) = DOMAIN ex.cid_indices
      /\ \A i \in DOMAIN WantList(ex) : WantList(ex)[i] = WantAt(ex, i)
  BY DEF WantList
<1>6. Len(WantList(ex)) = Len(ex.cid_indices)
  BY <1>1, <1>3, <1>4, LenProperties
<1> QED  BY <1>1, <1>4, <1>5, <1>6

(* rest is what list has at the positions K, in the same order. *)
IsLeft(rest, list, K) ==
  /\ DOMAIN rest = 1 .. Cardinality(K)
  /\ \A i \in K : rest[Rank(K, i)] = list[i]

(* It has those entries and no others. *)
LEMMA LeftEntries ==
  ASSUME NEW S, NEW list \in Seq(S), NEW K \in SUBSET DOMAIN list, NEW rest,
         IsLeft(rest, list, K)
  PROVE  Range(rest) = {list[i] : i \in K}
<1>1. K \in SUBSET Nat /\ IsFiniteSet(K)
  <2>1. DOMAIN list = 1 .. Len(list) /\ Len(list) \in Nat
    BY LenProperties
  <2>2. IsFiniteSet(1 .. Len(list))
    BY <2>1, FS_Interval
  <2>3. \A i \in DOMAIN list : i \in Nat
    BY <2>1
  <2> QED  BY <2>1, <2>2, <2>3, FS_Subset
<1>2. \A i \in K : Rank(K, i) \in 1 .. Cardinality(K)
  BY <1>1, KeptFromCovers
<1>3. \A n \in 1 .. Cardinality(K) : \E i \in K : Rank(K, i) = n
  BY <1>1, RankIsOnto
<1> QED  BY <1>2, <1>3 DEF IsLeft, Range

(* Kept whole, a list is what it was. *)
LEMMA AllLeft ==
  ASSUME NEW S, NEW list \in Seq(S)
  PROVE  IsLeft(list, list, DOMAIN list)
<1>1. DOMAIN list = 1 .. Len(list) /\ Len(list) \in Nat
  BY LenProperties
<1>2. Cardinality(1 .. Len(list)) = Len(list)
  BY <1>1, FS_Interval
<1>3. ASSUME NEW i \in 1 .. Len(list) PROVE Rank(1 .. Len(list), i) = i
  <2>1. {j \in 1 .. Len(list) : j <= i} = 1 .. i
    BY <1>1, <1>3
  <2>2. Cardinality(1 .. i) = i
    BY <1>1, <1>3, FS_Interval
  <2> QED  BY <2>1, <2>2 DEF Rank
<1> QED  BY <1>1, <1>2, <1>3 DEF IsLeft

(* What is left of the want list are the wants at the positions kept. *)
LEMMA KeepWantsList ==
  ASSUME NEW ex, WellFormed(ex), NEW K \in SUBSET DOMAIN ex.cid_indices
  PROVE  /\ KeepWants(ex, K).cids = ex.cids
         /\ KeepWants(ex, K).datums = ex.datums
         /\ IsLeft(WantList(KeepWants(ex, K)), WantList(ex), K)
<1> DEFINE new == KeepWants(ex, K)
<1>1. /\ ex \in Exchange /\ K \in SUBSET DOMAIN ex.peer_indices
      /\ ex.peer_indices \in Seq(Nat) /\ ex.cid_indices \in Seq(Nat)
  BY WellFormedParts DEF WellFormed
<1>2. /\ new.peers = ex.peers /\ new.cids = ex.cids /\ new.datums = ex.datums
      /\ new.peer_indices = Pick(ex.peer_indices, K)
      /\ new.cid_indices = Pick(ex.cid_indices, K)
  BY <1>1 DEF KeepWants, Exchange
<1> HIDE DEF new
<1>3. /\ DOMAIN new.cid_indices = 1 .. Cardinality(K)
      /\ \A n \in 1 .. Cardinality(K) :
           /\ new.peer_indices[n] = ex.peer_indices[KeptFrom(K)[n]]
           /\ new.cid_indices[n] = ex.cid_indices[KeptFrom(K)[n]]
  <2>1. /\ DOMAIN Pick(ex.peer_indices, K) = 1 .. Cardinality(K)
        /\ \A n \in DOMAIN Pick(ex.peer_indices, K) :
             Pick(ex.peer_indices, K)[n] = ex.peer_indices[KeptFrom(K)[n]]
    BY <1>1, PickProperties
  <2>2. /\ DOMAIN Pick(ex.cid_indices, K) = 1 .. Cardinality(K)
        /\ \A n \in DOMAIN Pick(ex.cid_indices, K) :
             Pick(ex.cid_indices, K)[n] = ex.cid_indices[KeptFrom(K)[n]]
    BY <1>1, PickProperties
  <2> QED  BY <1>2, <2>1, <2>2
<1>4. \A n \in 1 .. Cardinality(K) : WantAt(new, n) = WantAt(ex, KeptFrom(K)[n])
  BY <1>2, <1>3 DEF WantAt
<1>5. \A i \in K : Rank(K, i) \in 1 .. Cardinality(K) /\ KeptFrom(K)[Rank(K, i)] = i
  <2>1. DOMAIN ex.cid_indices = 1 .. Len(ex.cid_indices) /\ Len(ex.cid_indices) \in Int
    BY <1>1, LenProperties
  <2>2. IsFiniteSet(DOMAIN ex.cid_indices)
    <3>1. 1 \in Int
      OBVIOUS
    <3> QED  BY <2>1, <3>1, FS_Interval
  <2>3. K \in SUBSET Nat /\ IsFiniteSet(K)
    BY <2>1, <2>2, FS_Subset
  <2> QED  BY <2>3, KeptFromCovers
<1>6. IsLeft(WantList(new), WantList(ex), K)
  <2>1. DOMAIN WantList(new) = 1 .. Cardinality(K)
    BY <1>3 DEF WantList
  <2>2. ASSUME NEW i \in K PROVE WantList(new)[Rank(K, i)] = WantList(ex)[i]
    <3>1. Rank(K, i) \in 1 .. Cardinality(K) /\ KeptFrom(K)[Rank(K, i)] = i
      BY <1>5
    <3>2. WantAt(new, Rank(K, i)) = WantAt(ex, i)
      BY <1>4, <3>1
    <3> QED  BY <1>3, <3>1, <3>2 DEF WantList
  <2> QED  BY <2>1, <2>2 DEF IsLeft
<1> QED  BY <1>2, <1>6 DEF new

(* Append adds one entry. *)
LEMMA AppendedEntries ==
  ASSUME NEW S, NEW list \in Seq(S), NEW x \in S
  PROVE  Range(Append(list, x)) = Range(list) \cup {x}
<1> DEFINE new == Append(list, x)
<1>1. /\ Len(list) \in Nat /\ DOMAIN list = 1 .. Len(list)
      /\ DOMAIN new = 1 .. Len(list) + 1
      /\ \A i \in 1 .. Len(list) : new[i] = list[i]
      /\ new[Len(list) + 1] = x
  BY LenProperties, AppendProperties
<1> HIDE DEF new
<1>2. DOMAIN new = DOMAIN list \cup {Len(list) + 1}
  BY <1>1
<1>3. Range(new) = Range(list) \cup {x}
  BY <1>1, <1>2 DEF Range
<1> QED  BY <1>3 DEF new

(* add_want. *)
LEMMA AddWantList ==
  ASSUME NEW ex, WellFormed(ex), NEW p \in Peers, NEW c \in Cids
  PROVE  /\ AddWant(ex, p, c).datums = ex.datums
         /\ WantList(AddWant(ex, p, c)) = Append(WantList(ex), <<p, c>>)
<1> DEFINE new == AddWant(ex, p, c)
           peers == PushNew(ex.peers, p)
           cids  == PushNew(ex.cids, c)
           n     == Len(ex.cid_indices) + 1
<1>1. ex \in Exchange
  BY DEF WellFormed
<1>2. /\ new.peers = peers /\ new.cids = cids /\ new.datums = ex.datums
      /\ new.peer_indices = Append(ex.peer_indices, Position(peers, p))
      /\ new.cid_indices = Append(ex.cid_indices, Position(cids, c))
  BY <1>1 DEF AddWant, Exchange
<1>3. /\ \A i \in DOMAIN ex.peers : peers[i] = ex.peers[i]
      /\ \A i \in DOMAIN ex.cids : cids[i] = ex.cids[i]
      /\ peers[Position(peers, p)] = p /\ cids[Position(cids, c)] = c
  <2>1. /\ \A i \in DOMAIN ex.peers : peers[i] = ex.peers[i]
        /\ p \in Range(peers)
    BY WellFormedParts, PushNewProperties
  <2>2. /\ \A i \in DOMAIN ex.cids : cids[i] = ex.cids[i]
        /\ c \in Range(cids)
    BY WellFormedParts, PushNewProperties
  <2> HIDE DEF peers, cids
  <2> QED  BY <2>1, <2>2, PositionFinds
<1>4. /\ ex.peer_indices \in Seq(Nat) /\ ex.cid_indices \in Seq(Nat)
      /\ Len(ex.cid_indices) \in Nat /\ Len(ex.peer_indices) = Len(ex.cid_indices)
      /\ DOMAIN ex.cid_indices = 1 .. Len(ex.cid_indices)
      /\ DOMAIN ex.peer_indices = DOMAIN ex.cid_indices
      /\ \A i \in DOMAIN ex.peer_indices : ex.peer_indices[i] \in DOMAIN ex.peers
      /\ \A i \in DOMAIN ex.cid_indices : ex.cid_indices[i] \in DOMAIN ex.cids
  BY WellFormedParts, LenProperties
<1> HIDE DEF new, peers, cids
<1>5. /\ DOMAIN new.cid_indices = DOMAIN ex.cid_indices \cup {n}
      /\ \A i \in DOMAIN ex.cid_indices : /\ new.peer_indices[i] = ex.peer_indices[i]
                                          /\ new.cid_indices[i] = ex.cid_indices[i]
      /\ new.peer_indices[n] = Position(peers, p)
      /\ new.cid_indices[n] = Position(cids, c)
  BY <1>2, <1>4, SMTT(20)
<1> HIDE DEF n
<1>6. /\ \A i \in DOMAIN ex.cid_indices : WantAt(new, i) = WantAt(ex, i)
      /\ WantAt(new, n) = <<p, c>>
  BY <1>2, <1>3, <1>4, <1>5 DEF WantAt
<1>7. WantList(new) = Append(WantList(ex), <<p, c>>)
  <2>1. /\ WantList(ex) \in Seq(Peers \X Cids) /\ Len(WantList(ex)) = Len(ex.cid_indices)
        /\ \A i \in DOMAIN ex.cid_indices : WantList(ex)[i] = WantAt(ex, i)
    BY WantListType
  <2>2. /\ WantList(new) \in Seq(Peers \X Cids)
        /\ DOMAIN WantList(new) = DOMAIN new.cid_indices
        /\ \A i \in DOMAIN new.cid_indices : WantList(new)[i] = WantAt(new, i)
        /\ DOMAIN WantList(new) = 1 .. Len(WantList(new)) /\ Len(WantList(new)) \in Nat
    BY AddWantWellFormed, WantListType DEF new
  <2>3. Len(WantList(new)) = Len(WantList(ex)) + 1 /\ n = Len(WantList(ex)) + 1
    <3>1. Len(WantList(new)) = Len(new.cid_indices)
      BY AddWantWellFormed, WantListType DEF new
    <3>2. Len(new.cid_indices) = Len(ex.cid_indices) + 1
      <4>1. Position(cids, c) \in Nat
        BY AddWantWellFormed, WellFormedParts, <1>2, <1>5, LenProperties, ElementOfSeq DEF new
      <4> QED  BY <1>2, <1>4, <4>1, AppendProperties
    <3> QED  BY <2>1, <3>1, <3>2 DEF n
  <2>4. <<p, c>> \in Peers \X Cids
    OBVIOUS
  <2>5. /\ Append(WantList(ex), <<p, c>>) \in Seq(Peers \X Cids)
        /\ Len(Append(WantList(ex), <<p, c>>)) = Len(WantList(ex)) + 1
        /\ \A i \in 1 .. Len(WantList(ex)) :
              Append(WantList(ex), <<p, c>>)[i] = WantList(ex)[i]
        /\ Append(WantList(ex), <<p, c>>)[Len(WantList(ex)) + 1] = <<p, c>>
    BY <2>1, <2>4, AppendProperties
  <2>6. \A i \in 1 .. Len(WantList(new)) :
          WantList(new)[i] = Append(WantList(ex), <<p, c>>)[i]
    <3>1. \A i \in 1 .. Len(WantList(new)) : i \in DOMAIN ex.cid_indices \/ i = n
      BY <1>5, <2>2
    <3> QED  BY <1>4, <1>5, <1>6, <2>1, <2>2, <2>3, <2>5, <3>1
  <2> QED  BY <2>2, <2>3, <2>5, <2>6, SeqEqual
<1> QED  BY <1>2, <1>7 DEF new

(* remove_want: the wants of the peer for the cid go, and no others. *)
LEMMA RemoveWantList ==
  ASSUME NEW ex, WellFormed(ex), NEW p, NEW c
  PROVE  /\ RemoveWant(ex, p, c).cids = ex.cids
         /\ RemoveWant(ex, p, c).datums = ex.datums
         /\ IsLeft(WantList(RemoveWant(ex, p, c)), WantList(ex),
                   {i \in DOMAIN WantList(ex) : WantList(ex)[i] # <<p, c>>})
         /\ Range(WantList(RemoveWant(ex, p, c))) = Range(WantList(ex)) \ {<<p, c>>}
<1> DEFINE K == {i \in DOMAIN ex.peer_indices :
                   ~ /\ ex.peer_indices[i] = Position(ex.peers, p)
                     /\ ex.cids[ex.cid_indices[i]] = c}
           L == {i \in DOMAIN WantList(ex) : WantList(ex)[i] # <<p, c>>}
<1>1. /\ DOMAIN ex.peer_indices = DOMAIN ex.cid_indices /\ IsInjective(ex.peers)
      /\ \A i \in DOMAIN ex.peer_indices : ex.peer_indices[i] \in DOMAIN ex.peers
  BY WellFormedParts
<1>2. /\ WantList(ex) \in Seq(Peers \X Cids) /\ DOMAIN WantList(ex) = DOMAIN ex.cid_indices
      /\ \A i \in DOMAIN WantList(ex) : WantList(ex)[i] = WantAt(ex, i)
  BY WantListType
<1>3. /\ RemoveWant(ex, p, c).cids = ex.cids
      /\ RemoveWant(ex, p, c).datums = ex.datums
      /\ IsLeft(WantList(RemoveWant(ex, p, c)), WantList(ex), L)
  <2>1. CASE p \notin Range(ex.peers)
    <3>1. \A i \in DOMAIN ex.cid_indices : ex.peers[ex.peer_indices[i]] # p
      BY <1>1, <2>1 DEF Range
    <3>2. L = DOMAIN WantList(ex)
      BY <1>2, <3>1 DEF WantAt
    <3> HIDE DEF L
    <3>3. IsLeft(WantList(ex), WantList(ex), L)
      BY <1>2, <3>2, AllLeft
    <3> QED  BY <2>1, <3>3 DEF RemoveWant
  <2>2. CASE p \in Range(ex.peers)
    <3>1. RemoveWant(ex, p, c) = KeepWants(ex, K) /\ K \in SUBSET DOMAIN ex.cid_indices
      BY <1>1, <2>2 DEF RemoveWant
    <3>2. Position(ex.peers, p) \in DOMAIN ex.peers /\ ex.peers[Position(ex.peers, p)] = p
      BY <2>2, PositionFinds
    <3>3. \A i \in DOMAIN ex.cid_indices :
            ex.peer_indices[i] = Position(ex.peers, p) <=> ex.peers[ex.peer_indices[i]] = p
      BY <1>1, <3>2 DEF IsInjective
    <3>4. K = {i \in DOMAIN ex.cid_indices : WantAt(ex, i) # <<p, c>>}
      BY <1>1, <3>3 DEF WantAt
    <3> HIDE DEF K
    <3>5. L = K
      BY <1>2, <3>4
    <3> HIDE DEF L
    <3> QED  BY <3>1, <3>5, KeepWantsList
  <2> QED  BY <2>1, <2>2
<1>4. {WantList(ex)[i] : i \in L} = Range(WantList(ex)) \ {<<p, c>>}
  BY DEF Range
<1>5. L \in SUBSET DOMAIN WantList(ex)
  OBVIOUS
<1> HIDE DEF L
<1>6. Range(WantList(RemoveWant(ex, p, c))) = Range(WantList(ex)) \ {<<p, c>>}
  BY <1>2, <1>3, <1>4, <1>5, LeftEntries
<1> QED  BY <1>3, <1>6 DEF L

(* remove_wants: the wants of all peers for the cid go, and no others. *)
LEMMA RemoveWantsList ==
  ASSUME NEW ex, WellFormed(ex), NEW c
  PROVE  /\ RemoveWants(ex, c).datums = ex.datums
         /\ IsLeft(WantList(RemoveWants(ex, c)), WantList(ex),
                   {i \in DOMAIN WantList(ex) : WantList(ex)[i][2] # c})
         /\ Range(WantList(RemoveWants(ex, c))) = {w \in Range(WantList(ex)) : w[2] # c}
<1> DEFINE K == {i \in DOMAIN ex.cid_indices : ex.cid_indices[i] # Position(ex.cids, c)}
           L == {i \in DOMAIN WantList(ex) : WantList(ex)[i][2] # c}
<1>1. /\ IsInjective(ex.cids)
      /\ \A i \in DOMAIN ex.cid_indices : ex.cid_indices[i] \in DOMAIN ex.cids
  BY WellFormedParts
<1>2. /\ WantList(ex) \in Seq(Peers \X Cids) /\ DOMAIN WantList(ex) = DOMAIN ex.cid_indices
      /\ \A i \in DOMAIN WantList(ex) : WantList(ex)[i] = WantAt(ex, i)
  BY WantListType
<1>3. /\ RemoveWants(ex, c).datums = ex.datums
      /\ IsLeft(WantList(RemoveWants(ex, c)), WantList(ex), L)
  <2>1. CASE c \notin Range(ex.cids)
    <3>1. \A i \in DOMAIN ex.cid_indices : ex.cids[ex.cid_indices[i]] # c
      BY <1>1, <2>1 DEF Range
    <3>2. \A i \in DOMAIN ex.cid_indices : WantAt(ex, i)[2] # c
      BY <3>1 DEF WantAt
    <3>3. L = DOMAIN WantList(ex)
      BY <1>2, <3>2
    <3> HIDE DEF L
    <3>4. IsLeft(WantList(ex), WantList(ex), L)
      BY <1>2, <3>3, AllLeft
    <3> QED  BY <2>1, <3>4 DEF RemoveWants
  <2>2. CASE c \in Range(ex.cids)
    <3>1. RemoveWants(ex, c) = KeepWants(ex, K) /\ K \in SUBSET DOMAIN ex.cid_indices
      BY <2>2 DEF RemoveWants
    <3>2. Position(ex.cids, c) \in DOMAIN ex.cids /\ ex.cids[Position(ex.cids, c)] = c
      BY <2>2, PositionFinds
    <3>3. \A i \in DOMAIN ex.cid_indices :
            ex.cid_indices[i] = Position(ex.cids, c) <=> ex.cids[ex.cid_indices[i]] = c
      BY <1>1, <3>2 DEF IsInjective
    <3>4. K = {i \in DOMAIN ex.cid_indices : WantAt(ex, i)[2] # c}
      BY <3>3 DEF WantAt
    <3> HIDE DEF K
    <3>5. L = K
      BY <1>2, <3>4
    <3> HIDE DEF L
    <3> QED  BY <3>1, <3>5, KeepWantsList
  <2> QED  BY <2>1, <2>2
<1>4. {WantList(ex)[i] : i \in L} = {w \in Range(WantList(ex)) : w[2] # c}
  BY DEF Range
<1>5. L \in SUBSET DOMAIN WantList(ex)
  OBVIOUS
<1> HIDE DEF L
<1>6. Range(WantList(RemoveWants(ex, c))) = {w \in Range(WantList(ex)) : w[2] # c}
  <2>1. Range(WantList(RemoveWants(ex, c))) = {WantList(ex)[i] : i \in L}
    BY <1>2, <1>3, <1>5, LeftEntries
  <2> QED  BY <1>4, <2>1
<1> QED  BY <1>3, <1>6 DEF L

(* insertion_sort_wants: the same wants, those of a peer together and in    *)
(* their old order.                                                         *)
LEMMA SortedWantList ==
  ASSUME NEW ex, WellFormed(ex)
  PROVE  LET list == WantList(ex)
             new  == WantList(InsertionSortWants(ex))
             from == SortedFrom(ex.peer_indices)
         IN  /\ InsertionSortWants(ex).datums = ex.datums
             /\ from \in [DOMAIN list -> DOMAIN list]
             /\ \A i \in DOMAIN list : \E n \in DOMAIN list : from[n] = i
             /\ new = [n \in DOMAIN list |-> list[from[n]]]
             /\ \A m, n \in DOMAIN list :
                  m < n /\ new[m][1] = new[n][1] => from[m] < from[n]
             /\ \A k, m, n \in DOMAIN list :
                  k < m /\ m < n /\ new[k][1] = new[n][1] => new[m][1] = new[k][1]
<1> DEFINE sorted == InsertionSortWants(ex)
           from   == SortedFrom(ex.peer_indices)
           D      == DOMAIN ex.cid_indices
           ps     == StableSort(ex.peer_indices, ex.peer_indices)
<1>1. /\ ex \in Exchange
      /\ ex.peer_indices \in Seq(Nat) /\ ex.cid_indices \in Seq(Nat)
      /\ ex.peer_indices \in Seq(Int)
      /\ Len(ex.cid_indices) = Len(ex.peer_indices)
      /\ DOMAIN ex.peer_indices = D
      /\ D \in SUBSET Int
      /\ IsInjective(ex.peers)
      /\ \A i \in D : ex.peer_indices[i] \in DOMAIN ex.peers /\ ex.peer_indices[i] \in Int
  <2>1. ex.peer_indices \in Seq(Int)
    <3>1. ex.peer_indices \in Seq(Nat) /\ Nat \subseteq Int
      BY WellFormedParts
    <3> QED  BY <3>1, SeqMonotonic
  <2>2. D \in SUBSET Int
    <3>1. D = 1 .. Len(ex.cid_indices) /\ Len(ex.cid_indices) \in Nat
      BY WellFormedParts, LenProperties
    <3> QED  BY <3>1
  <2>3. \A i \in DOMAIN ex.peer_indices : ex.peer_indices[i] \in Int
    BY <2>1, LenProperties, ElementOfSeq
  <2> QED  BY <2>1, <2>2, <2>3, WellFormedParts DEF WellFormed
<1>2. /\ sorted.peers = ex.peers /\ sorted.cids = ex.cids /\ sorted.datums = ex.datums
      /\ sorted.peer_indices = ps
      /\ sorted.cid_indices = StableSort(ex.peer_indices, ex.cid_indices)
  BY <1>1 DEF InsertionSortWants, Exchange
<1>3. /\ from \in [D -> D]
      /\ \A i \in D : \E n \in D : from[n] = i
  BY <1>1, SortedFromProperties
<1>sort. ASSUME NEW keys \in Seq(Int), NEW s \in Seq(Nat), Len(s) = Len(keys)
      PROVE  /\ DOMAIN StableSort(keys, s) = DOMAIN s
             /\ \A n \in DOMAIN s : StableSort(keys, s)[n] = s[SortedFrom(keys)[n]]
  BY <1>sort, StableSortPermutes
<1>4. \A n \in D : ps[n] = ex.peer_indices[from[n]]
  BY <1>1, <1>sort
<1>5. /\ DOMAIN StableSort(ex.peer_indices, ex.cid_indices) = D
      /\ \A n \in D : StableSort(ex.peer_indices, ex.cid_indices)[n]
                        = ex.cid_indices[from[n]]
  BY <1>1, <1>sort
<1>6. \A m, n \in D : m < n =>
        /\ ps[m] <= ps[n]
        /\ ex.peer_indices[from[m]] = ex.peer_indices[from[n]] => from[m] < from[n]
  BY <1>1, StableSortSorts
<1> HIDE DEF sorted, from, ps
<1>7. DOMAIN WantList(ex) = D /\ \A i \in D : WantList(ex)[i] = WantAt(ex, i)
  BY WantListType
<1> DEFINE list == WantList(ex)
           new  == WantList(sorted)
<1>8. new = [n \in D |-> list[from[n]]]
  <2>1. DOMAIN sorted.cid_indices = D
    BY <1>2, <1>5
  <2>2. \A n \in D : WantAt(sorted, n) = WantAt(ex, from[n])
    BY <1>2, <1>4, <1>5 DEF WantAt
  <2>3. \A n \in D : WantAt(ex, from[n]) = list[from[n]]
    BY <1>3, <1>7
  <2> QED  BY <2>1, <2>2, <2>3 DEF WantList
<1>9. \A n \in D : new[n][1] = ex.peers[ps[n]]
  <2>1. \A n \in D : new[n] = WantAt(ex, from[n])
    BY <1>3, <1>7, <1>8
  <2> QED  BY <1>4, <2>1 DEF WantAt
<1>10. \A n \in D : ps[n] \in DOMAIN ex.peers /\ ps[n] \in Int
  BY <1>1, <1>3, <1>4
<1> HIDE DEF list, new, D
<1>11. \A m, n \in D : new[m][1] = new[n][1] => ps[m] = ps[n]
  BY <1>1, <1>9, <1>10 DEF IsInjective
<1>12. \A m, n \in D : m < n /\ new[m][1] = new[n][1] => from[m] < from[n]
  BY <1>4, <1>6, <1>11
<1>13. \A k, m, n \in D : k < m /\ m < n /\ new[k][1] = new[n][1] => new[m][1] = new[k][1]
  <2> SUFFICES ASSUME NEW k \in D, NEW m \in D, NEW n \in D, k < m, m < n,
                      new[k][1] = new[n][1]
               PROVE  new[m][1] = new[k][1]
    OBVIOUS
  <2>1. ps[k] = ps[n] /\ ps[k] <= ps[m] /\ ps[m] <= ps[n]
    BY <1>6, <1>11
  <2>2. ps[m] = ps[k]
    BY <1>10, <2>1
  <2> QED  BY <1>9, <2>2
<1> QED  BY <1>2, <1>3, <1>7, <1>8, <1>12, <1>13 DEF list, new, sorted, from, D

(* As a set the list is what it was. *)
LEMMA SortKeepsWants ==
  ASSUME NEW ex, WellFormed(ex)
  PROVE  Range(WantList(InsertionSortWants(ex))) = Range(WantList(ex))
BY SortedWantList DEF Range

(* add_block, when no other cid waits: the cid is the last of its table, so *)
(* the swap and the renumbering change nothing.                             *)
LEMMA AddBlockWantList ==
  ASSUME NEW ex, WellFormed(ex), NEW c \in Cids, Missing(ex) \subseteq {c}
  PROVE  WantList(AddBlock(ex, Genuine(c))) = WantList(ex)
<1> DEFINE new == AddBlock(ex, Genuine(c))
           i   == Position(ex.cids, c)
<1>0. Genuine(c).cid = c /\ Genuine(c).data = c
  BY DEF Genuine
<1>1. /\ ex \in Exchange /\ IsInjective(ex.cids) /\ ex.cids \in Seq(Cids)
      /\ ex.cid_indices \in Seq(Nat)
      /\ \A k \in DOMAIN ex.cid_indices : ex.cid_indices[k] \in DOMAIN ex.cids
  BY WellFormedParts DEF WellFormed
<1>2. CASE \E k \in Stored(ex) : ex.cids[k] = c
  BY <1>0, <1>2 DEF AddBlock
<1>3. CASE ~(\E k \in Stored(ex) : ex.cids[k] = c) /\ c \in Range(ex.cids)
  <2>1. new = AddMissingData(ex, Genuine(c))
    BY <1>0, <1>3 DEF AddBlock
  <2>2. i \in DOMAIN ex.cids /\ ex.cids[i] = c
    BY <1>3, PositionFinds
  <2>3. /\ new.peers = ex.peers /\ new.peer_indices = ex.peer_indices
        /\ new.cids = Swap(ex.cids, Len(ex.cids), i)
        /\ new.cid_indices = [k \in DOMAIN ex.cid_indices |->
                                Remap(ex.cid_indices[k], i, Len(ex.cids))]
    BY <1>0, <1>1, <2>1 DEF AddMissingData, Exchange
  <2> HIDE DEF i, new
  <2>4. i = Len(ex.cids)
    <3>1. /\ Len(ex.datums) \in Nat /\ Len(ex.cids) \in Nat
          /\ i \in 1 .. Len(ex.cids) /\ i \notin 1 .. Len(ex.datums)
          /\ Len(ex.cids) \in DOMAIN ex.cids
          /\ Missing(ex) = {ex.cids[k] : k \in Len(ex.datums) + 1 .. Len(ex.cids)}
      BY <1>3, <2>2, MissingBehindDatums
    <3>2. Len(ex.cids) \in Len(ex.datums) + 1 .. Len(ex.cids)
      BY <3>1
    <3>3. ex.cids[Len(ex.cids)] = c
      BY <3>1, <3>2
    <3> QED  BY <1>1, <2>2, <3>1, <3>3 DEF IsInjective
  <2>5. Swap(ex.cids, Len(ex.cids), i) = ex.cids
    BY <1>1, <2>4 DEF Swap
  <2>6. \A k : Remap(k, i, Len(ex.cids)) = k
    BY <2>4 DEF Remap
  <2>7. new.cid_indices = ex.cid_indices
    BY <1>1, <2>3, <2>6
  <2>8. new.cids = ex.cids
    BY <2>3, <2>5
  <2>9. WantList(new) = WantList(ex)
    BY <2>3, <2>7, <2>8 DEF WantList, WantAt
  <2> QED  BY <2>9 DEF new
<1>4. CASE ~(\E k \in Stored(ex) : ex.cids[k] = c) /\ c \notin Range(ex.cids)
  <2>1. /\ new.peers = ex.peers /\ new.peer_indices = ex.peer_indices
        /\ new.cids = Append(ex.cids, c)
        /\ new.cid_indices = ex.cid_indices
    BY <1>0, <1>1, <1>4 DEF AddBlock, AddNewBlock, Exchange
  <2> HIDE DEF new
  <2>2. \A k \in DOMAIN ex.cids : new.cids[k] = ex.cids[k]
    BY <1>1, <2>1
  <2>3. WantList(new) = WantList(ex)
    BY <1>1, <2>1, <2>2 DEF WantList, WantAt
  <2> QED  BY <2>3 DEF new
<1> QED  BY <1>2, <1>3, <1>4

(* In order, get_block has the genuine block of every datum, and no other.  *)
LEMMA GetBlockOfDatums ==
  ASSUME NEW ex, WellFormed(ex), Aligned(ex), NEW c \in Cids
  PROVE  GetBlock(ex, c) = IF c \in Range(ex.datums) THEN {Genuine(c)} ELSE {}
<1>1. Stored(ex) = DOMAIN ex.datums
  BY MissingBehindDatums
<1>2. \A i \in DOMAIN ex.datums : ex.cids[i] = ex.datums[i]
  BY <1>1 DEF Aligned
<1>3. GetBlock(ex, c) =
        {[cid |-> c, data |-> ex.datums[i]] : i \in {j \in DOMAIN ex.datums : ex.datums[j] = c}}
  BY <1>1, <1>2 DEF GetBlock
<1>4. CASE c \in Range(ex.datums)
  <2>1. PICK i \in DOMAIN ex.datums : ex.datums[i] = c
    BY <1>4 DEF Range
  <2> QED  BY <1>3, <1>4, <2>1 DEF Genuine
<1>5. CASE c \notin Range(ex.datums)
  BY <1>3, <1>5 DEF Range
<1> QED  BY <1>4, <1>5

(* add_block adds the datum, once. *)
LEMMA AddBlockDatums ==
  ASSUME NEW ex, WellFormed(ex), Aligned(ex), NEW c \in Cids
  PROVE  Range(AddBlock(ex, Genuine(c)).datums) = Range(ex.datums) \cup {c}
<1>0. Genuine(c).cid = c /\ Genuine(c).data = c
  BY DEF Genuine
<1>1. ex \in Exchange /\ ex.datums \in Seq(Cids)
  BY WellFormedParts DEF WellFormed
<1>2. CASE \E i \in Stored(ex) : ex.cids[i] = c
  <2>1. c \in Range(ex.datums)
    BY <1>2 DEF Aligned, Stored, Range
  <2>2. AddBlock(ex, Genuine(c)) = ex
    BY <1>0, <1>2 DEF AddBlock
  <2> QED  BY <2>1, <2>2
<1>3. CASE ~ \E i \in Stored(ex) : ex.cids[i] = c
  <2>1. AddBlock(ex, Genuine(c)).datums = Append(ex.datums, c)
    BY <1>0, <1>1, <1>3 DEF AddBlock, AddMissingData, AddNewBlock, PushData, Exchange
  <2> QED  BY <1>1, <2>1, AppendedEntries
<1> QED  BY <1>2, <1>3
================================================================================
