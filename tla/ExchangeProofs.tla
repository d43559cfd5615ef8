----------------------------- MODULE ExchangeProofs -----------------------------
(****************************************************************************)
(* Theorems about ExchangeCalls: whatever the calls to a BlockExchange and  *)
(* their order, and however many peers, cids and wants there are, no index  *)
(* leaves its vector and no table repeats an entry; and data stays with its *)
(* cid for callers that add their blocks in order, and is lost by no other  *)
(* step.  The inductive invariant is WellFormed; each method's part is a    *)
(* lemma of BlockExchangeProofs.                                            *)
(****************************************************************************)
EXTENDS ExchangeCalls, BlockExchangeProofs

IInv ==
  /\ WellFormed(exchange)
  /\ asked \subseteq Peers \X Cids

(* The struct a caller starts from is well formed. *)
LEMMA InitIInv == Init => IInv
BY DefaultWellFormed DEF Init, IInv

(* The calls other than add_block, each with what it leaves. *)
LEMMA OtherCallsKeep ==
  ASSUME IInv, OtherCalls
  PROVE  IInv' /\ (Aligned(exchange) => Aligned(exchange'))
<1> USE DEF IInv
<1>1. ASSUME NEW p \in Peers, NEW c \in Cids, CallAddWant(p, c)
      PROVE  IInv' /\ (Aligned(exchange) => Aligned(exchange'))
  BY <1>1, AddWantWellFormed, AddWantAligned DEF CallAddWant
<1>2. ASSUME NEW p \in Peers, NEW c \in Cids, CallRemoveWant(p, c)
      PROVE  IInv' /\ (Aligned(exchange) => Aligned(exchange'))
  <2>1. WellFormed(exchange)' /\ (asked \subseteq Peers \X Cids)'
    BY <1>2, RemoveWantWellFormed DEF CallRemoveWant
  <2>2. Aligned(exchange) => Aligned(exchange')
    BY <1>2, RemoveWantAligned DEF CallRemoveWant
  <2> QED  BY <2>1, <2>2
<1>3. ASSUME NEW c \in Cids, CallRemoveWants(c)
      PROVE  IInv' /\ (Aligned(exchange) => Aligned(exchange'))
  <2>1. WellFormed(exchange)' /\ (asked \subseteq Peers \X Cids)'
    BY <1>3, RemoveWantsWellFormed DEF CallRemoveWants
  <2>2. Aligned(exchange) => Aligned(exchange')
    BY <1>3, RemoveWantsAligned DEF CallRemoveWants
  <2> QED  BY <2>1, <2>2
<1>4. CASE CallInsertionSortWants
  BY <1>4, InsertionSortWantsWellFormed, InsertionSortWantsAligned DEF CallInsertionSortWants
<1> QED  BY <1>1, <1>2, <1>3, <1>4 DEF OtherCalls

(* add_block keeps the struct well formed, whatever is missing. *)
LEMMA CallAddBlockKeeps ==
  ASSUME IInv, NEW c \in Cids, CallAddBlock(c)
  PROVE  IInv'
<1>1. Genuine(c) \in Blocks
  BY DEF Genuine, Blocks
<1> QED  BY <1>1, AddBlockWellFormed DEF IInv, CallAddBlock

(* Every call, and every step that is none, keeps the invariant. *)
LEMMA NextIInv == IInv /\ [Next]_vars => IInv'
<1> SUFFICES ASSUME IInv, [Next]_vars PROVE IInv'
  OBVIOUS
<1>1. CASE OtherCalls
  BY <1>1, OtherCallsKeep
<1>2. ASSUME NEW c \in Cids, CallAddBlock(c) PROVE IInv'
  BY <1>2, CallAddBlockKeeps
<1>3. CASE UNCHANGED vars
  BY <1>3 DEF IInv, vars
<1> QED  BY <1>1, <1>2, <1>3 DEF Next

(* The strengthened invariant holds of every behaviour. *)
THEOREM IInvHolds == Spec => []IInv
BY InitIInv, NextIInv, PTL DEF Spec

(* The struct keeps its type. *)
THEOREM TypeCorrect == Spec => []TypeOK
<1>1. IInv => TypeOK
  BY DEF IInv, TypeOK, WellFormed
<1> QED  BY <1>1, IInvHolds, PTL

(* No later call of swap, remove or an index look-up can go out of bounds.  *)
THEOREM IndicesInBounds == Spec => []IndexSafe
<1>1. IInv => IndexSafe
  BY DEF IInv, IndexSafe, WellFormed
<1> QED  BY <1>1, IInvHolds, PTL

(* position() stands for the entry: no table repeats one. *)
THEOREM TablesStayDistinct == Spec => []TablesDistinct
<1>1. IInv => TablesDistinct
  BY DEF IInv, TablesDistinct, WellFormed
<1> QED  BY <1>1, IInvHolds, PTL

(* The alignment of cids and datums is lost by a block that comes while     *)
(* another cid waits for its data, and by nothing else (add_block).         *)
THEOREM AlignmentLostByBlocksOutOfOrder == Spec => AlignmentLostOnlyOutOfOrder
<1> DEFINE Step == \A c \in Cids :
       CallAddBlock(c) /\ exchange' # exchange /\ Aligned(exchange)
         => (Aligned(exchange') <=> Missing(exchange) \subseteq {c})
<1>1. IInv => Step
  <2> SUFFICES ASSUME IInv, NEW c \in Cids, CallAddBlock(c),
                      exchange' # exchange, Aligned(exchange)
               PROVE  Aligned(exchange') <=> Missing(exchange) \subseteq {c}
    OBVIOUS
  <2>1. WellFormed(exchange) /\ exchange' = AddBlock(exchange, Genuine(c))
    BY DEF IInv, CallAddBlock
  <2> QED  BY <2>1, AddBlockAligned
<1>2. IInv => [Step]_vars
  BY <1>1
<1> QED  BY <1>2, IInvHolds, PTL DEF AlignmentLostOnlyOutOfOrder

(* A caller that adds a block only while no other cid waits for its data    *)
(* finds the layout the comment on BlockExchange.cids describes.            *)
THEOREM InOrderKeepsLayout == InOrderSpec => []LayoutComment
<1> DEFINE Inv == IInv /\ LayoutComment
<1>1. Init => Inv
  BY InitIInv DEF Init, LayoutComment, Aligned, Stored, DefaultExchange
<1>2. Inv /\ [InOrderNext]_vars => Inv'
  <2> SUFFICES ASSUME IInv, Aligned(exchange), [InOrderNext]_vars
               PROVE  IInv' /\ Aligned(exchange')
    BY DEF LayoutComment
  <2>1. CASE OtherCalls
    BY <2>1, OtherCallsKeep
  <2>2. ASSUME NEW c \in Cids, Missing(exchange) \subseteq {c}, CallAddBlock(c)
        PROVE  IInv' /\ Aligned(exchange')
    <3>1. WellFormed(exchange) /\ exchange' = AddBlock(exchange, Genuine(c))
      BY <2>2 DEF IInv, CallAddBlock
    <3>2. Aligned(exchange')
      BY <2>2, <3>1, AddBlockAligned
    <3> QED  BY <2>2, <3>2, CallAddBlockKeeps
  <2>3. CASE UNCHANGED vars
    BY <2>3 DEF IInv, vars
  <2> QED  BY <2>1, <2>2, <2>3 DEF InOrderNext
<1>3. Inv => LayoutComment
  OBVIOUS
<1> QED  BY <1>1, <1>2, <1>3, PTL DEF InOrderSpec

------------------------------------------------------------------------------
(* A caller in order finds on the list the wants it added and did not       *)
(* remove: each call does to the list what it does to them.                 *)
AInv == IInv /\ LayoutComment /\ Range(WantList(exchange)) = asked

(* The calls other than add_block change the want list as asked. *)
LEMMA OtherCallsKeepAsked ==
  ASSUME AInv, OtherCalls
  PROVE  Range(WantList(exchange')) = asked'
<1>1. WellFormed(exchange) /\ asked \subseteq Peers \X Cids
  BY DEF AInv, IInv
<1>2. ASSUME NEW p \in Peers, NEW c \in Cids, CallAddWant(p, c)
      PROVE  Range(WantList(exchange')) = asked'
  <2>1. WantList(exchange') = Append(WantList(exchange), <<p, c>>)
    BY <1>1, <1>2, AddWantList DEF CallAddWant
  <2>2. Range(WantList(exchange')) = Range(WantList(exchange)) \cup {<<p, c>>}
    BY <1>1, <2>1, WantListType, AppendedEntries
  <2> QED  BY <1>2, <2>2 DEF CallAddWant, AInv
<1>3. ASSUME NEW p \in Peers, NEW c \in Cids, CallRemoveWant(p, c)
      PROVE  Range(WantList(exchange')) = asked'
  BY <1>1, <1>3, RemoveWantList DEF CallRemoveWant, AInv
<1>4. ASSUME NEW c \in Cids, CallRemoveWants(c)
      PROVE  Range(WantList(exchange')) = asked'
  <2>1. Range(WantList(exchange')) = {w \in asked : w[2] # c}
    BY <1>1, <1>4, RemoveWantsList DEF CallRemoveWants, AInv
  <2>2. \A w \in asked : w \in Peers \X {c} <=> w[2] = c
    BY <1>1
  <2>3. asked' = asked \ (Peers \X {c})
    BY <1>4 DEF CallRemoveWants
  <2> QED  BY <2>1, <2>2, <2>3
<1>5. CASE CallInsertionSortWants
  BY <1>1, <1>5, SortKeepsWants DEF CallInsertionSortWants, AInv
<1> QED  BY <1>2, <1>3, <1>4, <1>5 DEF OtherCalls

(* So does add_block, for a caller that adds its blocks in order. *)
LEMMA InOrderKeepsAsked == AInv /\ [InOrderNext]_vars => AInv'
<1> SUFFICES ASSUME AInv, [InOrderNext]_vars PROVE AInv'
  OBVIOUS
<1>0. IInv /\ Aligned(exchange) /\ WellFormed(exchange)
  BY DEF AInv, IInv, LayoutComment
<1>1. CASE OtherCalls
  BY <1>0, <1>1, OtherCallsKeep, OtherCallsKeepAsked DEF AInv, LayoutComment
<1>2. ASSUME NEW c \in Cids, Missing(exchange) \subseteq {c}, CallAddBlock(c)
      PROVE  AInv'
  <2>1. exchange' = AddBlock(exchange, Genuine(c)) /\ asked' = asked
    BY <1>2 DEF CallAddBlock
  <2>2. IInv'
    BY <1>0, <1>2, CallAddBlockKeeps
  <2>3. Aligned(exchange')
    BY <1>0, <1>2, <2>1, AddBlockAligned
  <2>4. WantList(exchange') = WantList(exchange)
    BY <1>0, <1>2, <2>1, AddBlockWantList
  <2> QED  BY <2>1, <2>2, <2>3, <2>4 DEF AInv, LayoutComment
<1>3. CASE UNCHANGED vars
  BY <1>3 DEF AInv, IInv, LayoutComment, vars
<1> QED  BY <1>1, <1>2, <1>3 DEF InOrderNext

(* At the start nobody asked. *)
LEMMA AInvAtStart == Init => AInv
<1> SUFFICES ASSUME Init PROVE AInv
  OBVIOUS
<1>1. Range(WantList(exchange)) = asked
  BY DEF Init, DefaultExchange, WantList, Range
<1> QED  BY <1>1, InitIInv DEF Init, AInv, LayoutComment, Aligned, Stored, DefaultExchange

(* iter_who_want_block yields, for a caller in order, the peers that asked  *)
(* for the cid and did not take it back, as the unit test want_exchange has *)
(* it.                                                                      *)
THEOREM InOrderKnowsWhoAsked == InOrderSpec => []WhoWantsIsWhoAsked
<1>2. AInv => WhoWantsIsWhoAsked
  <2> SUFFICES ASSUME AInv, NEW c \in Cids
               PROVE  IterWhoWantBlock(exchange, c) = {p \in Peers : <<p, c>> \in asked}
    BY DEF WhoWantsIsWhoAsked
  <2>1. asked \subseteq Peers \X Cids /\ Range(WantList(exchange)) = asked
    BY DEF AInv, IInv
  <2>2. \A p : p \in IterWhoWantBlock(exchange, c) <=> <<p, c>> \in Range(WantList(exchange))
    BY DEF IterWhoWantBlock, WantList, WantAt, Range
  <2> QED  BY <2>1, <2>2
<1> QED  BY <1>2, AInvAtStart, InOrderKeepsAsked, PTL DEF InOrderSpec

------------------------------------------------------------------------------
(* A caller in order sees the abstract exchange.  The calls map one to one: *)
(* to the action of their name, and sort to the sort of the wants.          *)
LedgerStore == {c \in Cids : GetBlock(exchange, c) = {Genuine(c)}}

(* What the ledger can hand out are the datums. *)
LEMMA LedgerHoldsDatums ==
  ASSUME NEW ex, WellFormed(ex), Aligned(ex)
  PROVE  {c \in Cids : GetBlock(ex, c) = {Genuine(c)}} = Range(ex.datums)
<1>1. \A c \in Cids : GetBlock(ex, c) = IF c \in Range(ex.datums) THEN {Genuine(c)} ELSE {}
  BY GetBlockOfDatums
<1>2. Range(ex.datums) \subseteq Cids
  <2>1. ex.datums \in Seq(Cids)
    BY WellFormedParts
  <2> QED  BY <2>1, LenProperties, ElementOfSeq DEF Range
<1> QED  BY <1>1, <1>2

(* The instance counts as its user does. *)
LEMMA SameCount == \A S : Ledger!Cardinality(S) = Cardinality(S)
BY DEF Ledger!Cardinality, Cardinality

(* The calls other than add_block are the steps of the ledger of that name. *)
LEMMA CallsAreLedgerSteps ==
  ASSUME AInv, AInv', OtherCalls
  PROVE  Ledger!Next
<1>1. /\ WellFormed(exchange) /\ WellFormed(exchange')
      /\ Aligned(exchange) /\ Aligned(exchange')
  BY DEF AInv, IInv, LayoutComment
<1>2. ASSUME exchange'.datums = exchange.datums PROVE UNCHANGED LedgerStore
  BY <1>1, <1>2, LedgerHoldsDatums DEF LedgerStore
<1>3. ASSUME NEW p \in Peers, NEW c \in Cids, CallAddWant(p, c) PROVE Ledger!AddWant(p, c)
  BY <1>1, <1>2, <1>3, AddWantList DEF CallAddWant, Ledger!AddWant, LedgerStore
<1>4. ASSUME NEW p \in Peers, NEW c \in Cids, CallRemoveWant(p, c)
      PROVE  Ledger!RemoveWant(p, c)
  <2>1. exchange' = RemoveWant(exchange, p, c)
    BY <1>4 DEF CallRemoveWant
  <2>2. IsLeft(WantList(exchange'), WantList(exchange),
               {i \in DOMAIN WantList(exchange) : WantList(exchange)[i] # <<p, c>>})
    BY <1>1, <2>1, RemoveWantList
  <2>3. UNCHANGED LedgerStore
    BY <1>1, <1>2, <2>1, RemoveWantList
  <2>4. Ledger!IsRest(WantList(exchange'), WantList(exchange),
          {i \in DOMAIN WantList(exchange) : WantList(exchange)[i] # <<p, c>>})
    BY <2>2, SameCount DEF Ledger!IsRest, IsLeft, Rank
  <2> QED  BY <2>3, <2>4 DEF Ledger!RemoveWant, LedgerStore
<1>5. ASSUME NEW c \in Cids, CallRemoveWants(c) PROVE Ledger!RemoveWants(c)
  <2>1. exchange' = RemoveWants(exchange, c)
    BY <1>5 DEF CallRemoveWants
  <2>2. IsLeft(WantList(exchange'), WantList(exchange),
               {i \in DOMAIN WantList(exchange) : WantList(exchange)[i][2] # c})
    BY <1>1, <2>1, RemoveWantsList
  <2>3. UNCHANGED LedgerStore
    BY <1>1, <1>2, <2>1, RemoveWantsList
  <2>4. Ledger!IsRest(WantList(exchange'), WantList(exchange),
          {i \in DOMAIN WantList(exchange) : WantList(exchange)[i][2] # c})
    BY <2>2, SameCount DEF Ledger!IsRest, IsLeft, Rank
  <2> QED  BY <2>3, <2>4 DEF Ledger!RemoveWants, LedgerStore
<1>6. CASE CallInsertionSortWants
  <2> DEFINE list == WantList(exchange)
             new  == WantList(InsertionSortWants(exchange))
             from == SortedFrom(exchange.peer_indices)
  <2>1. exchange' = InsertionSortWants(exchange)
    BY <1>6 DEF CallInsertionSortWants
  <2>2. /\ InsertionSortWants(exchange).datums = exchange.datums
        /\ from \in [DOMAIN list -> DOMAIN list]
        /\ \A i \in DOMAIN list : \E n \in DOMAIN list : from[n] = i
        /\ new = [n \in DOMAIN list |-> list[from[n]]]
        /\ \A m, n \in DOMAIN list :
             m < n /\ new[m][1] = new[n][1] => from[m] < from[n]
        /\ \A k, m, n \in DOMAIN list :
             k < m /\ m < n /\ new[k][1] = new[n][1] => new[m][1] = new[k][1]
    BY <1>1, SortedWantList
  <2>3. UNCHANGED LedgerStore /\ WantList(exchange') = new
    BY <1>2, <2>1, <2>2
  <2> HIDE DEF list, new, from
  <2>4. DOMAIN new = DOMAIN list
    BY <2>2
  <2>5. \E f \in [DOMAIN list -> DOMAIN list] :
          /\ new = [n \in DOMAIN list |-> list[f[n]]]
          /\ \A n \in DOMAIN list : \E m \in DOMAIN list : f[m] = n
          /\ \A m, n \in DOMAIN list : m < n /\ new[m][1] = new[n][1] => f[m] < f[n]
    BY <2>2
  <2>6. \A k, m, n \in DOMAIN new :
          k < m /\ m < n /\ new[k][1] = new[n][1] => new[m][1] = new[k][1]
    BY <2>2, <2>4
  <2>7. Ledger!Sort
    <3>1. list = WantList(exchange) /\ new = WantList(exchange)'
      BY <2>3 DEF list
    <3>2. UNCHANGED {c \in Cids : GetBlock(exchange, c) = {Genuine(c)}}
      BY <2>3 DEF LedgerStore
    <3>3. \E f \in [DOMAIN WantList(exchange) -> DOMAIN WantList(exchange)] :
            /\ WantList(exchange)' = [n \in DOMAIN WantList(exchange) |-> WantList(exchange)[f[n]]]
            /\ \A n \in DOMAIN WantList(exchange) : \E m \in DOMAIN WantList(exchange) : f[m] = n
            /\ \A m, n \in DOMAIN WantList(exchange) :
                 m < n /\ (WantList(exchange)')[m][1] = (WantList(exchange)')[n][1] => f[m] < f[n]
      BY <2>5, <3>1
    <3>4. \A k, m, n \in DOMAIN (WantList(exchange)') :
            k < m /\ m < n /\ (WantList(exchange)')[k][1] = (WantList(exchange)')[n][1]
              => (WantList(exchange)')[m][1] = (WantList(exchange)')[k][1]
      BY <2>6, <3>1
    <3> QED  BY <3>2, <3>3, <3>4, Zenon DEF Ledger!Sort
  <2> QED  BY <2>7 DEF Ledger!Next
<1> QED  BY <1>3, <1>4, <1>5, <1>6 DEF OtherCalls, Ledger!Next

(* add_block in order is a block added to the ledger. *)
LEMMA BlockIsLedgerStep ==
  ASSUME AInv, AInv', NEW c \in Cids, Missing(exchange) \subseteq {c}, CallAddBlock(c)
  PROVE  Ledger!AddBlock(c)
<1>1. /\ WellFormed(exchange) /\ WellFormed(exchange')
      /\ Aligned(exchange) /\ Aligned(exchange')
      /\ exchange' = AddBlock(exchange, Genuine(c))
  BY DEF AInv, IInv, LayoutComment, CallAddBlock
<1>2. WantList(exchange') = WantList(exchange)
  BY <1>1, AddBlockWantList
<1>3. Range(exchange'.datums) = Range(exchange.datums) \cup {c}
  BY <1>1, AddBlockDatums
<1>4. LedgerStore' = LedgerStore \cup {c}
  BY <1>1, <1>3, LedgerHoldsDatums DEF LedgerStore
<1> QED  BY <1>2, <1>4 DEF Ledger!AddBlock, LedgerStore

(* BlockExchange implements WantLedger for a caller that adds its blocks in *)
(* order: an ordered want list no other call disturbs, and every added      *)
(* block back.                                                              *)
THEOREM InOrderImplementsLedger == InOrderSpec => ImplementsWantLedger
<1>1. Init => Ledger!Init
  <2> SUFFICES ASSUME Init PROVE Ledger!Init
    OBVIOUS
  <2>1. WantList(exchange) = <<>>
    BY DEF Init, DefaultExchange, WantList
  <2>2. \A c \in Cids : GetBlock(exchange, c) = {}
    BY DEF Init, DefaultExchange, GetBlock, Stored
  <2> QED  BY <2>1, <2>2 DEF Ledger!Init
<1>2. AInv /\ AInv' /\ [InOrderNext]_vars => [Ledger!Next]_(Ledger!vars)
  <2> SUFFICES ASSUME AInv, AInv', [InOrderNext]_vars
               PROVE  [Ledger!Next]_(Ledger!vars)
    OBVIOUS
  <2>1. CASE OtherCalls
    BY <2>1, CallsAreLedgerSteps
  <2>2. ASSUME NEW c \in Cids, Missing(exchange) \subseteq {c}, CallAddBlock(c)
        PROVE  Ledger!Next
    BY <2>2, BlockIsLedgerStep DEF Ledger!Next
  <2>3. CASE UNCHANGED vars
    BY <2>3 DEF vars, Ledger!vars
  <2> QED  BY <2>1, <2>2, <2>3 DEF InOrderNext
<1>3. InOrderSpec => []AInv
  BY AInvAtStart, InOrderKeepsAsked, PTL DEF InOrderSpec
<1> QED  BY <1>1, <1>2, <1>3, PTL DEF InOrderSpec, ImplementsWantLedger, Ledger!Spec
------------------------------------------------------------------------------
(* What a block does that comes out of order, exactly.  It is the last of   *)
(* the cids after add_block, one place too far for get_block unless no      *)
(* other cid was missing;                                                   *)
AddedBlock(ex, c) == AddBlock(ex, Genuine(c))

(* add_block on a cid that waits: the swap, the renumbering and the push.   *)
LEMMA WaitedFor ==
  ASSUME NEW ex, WellFormed(ex), NEW c \in Missing(ex)
  PROVE  \E i \in Len(ex.datums) + 1 .. Len(ex.cids) :
           /\ ex.cids[i] = c
           /\ AddedBlock(ex, c).peers = ex.peers
           /\ AddedBlock(ex, c).peer_indices = ex.peer_indices
           /\ AddedBlock(ex, c).cids = Swap(ex.cids, Len(ex.cids), i)
           /\ AddedBlock(ex, c).cid_indices
                = [k \in DOMAIN ex.cid_indices |-> Remap(ex.cid_indices[k], i, Len(ex.cids))]
           /\ AddedBlock(ex, c).datums = Append(ex.datums, c)
<1> DEFINE i == Position(ex.cids, c)
<1>0. ex \in Exchange /\ Genuine(c).cid = c /\ Genuine(c).data = c
  BY DEF WellFormed, Genuine
<1>1. /\ Len(ex.datums) \in Nat /\ Len(ex.cids) \in Nat
      /\ DOMAIN ex.cids = 1 .. Len(ex.cids) /\ Stored(ex) = 1 .. Len(ex.datums)
      /\ Missing(ex) = {ex.cids[k] : k \in Len(ex.datums) + 1 .. Len(ex.cids)}
      /\ IsInjective(ex.cids)
  BY MissingBehindDatums, WellFormedParts
<1>2. PICK k \in Len(ex.datums) + 1 .. Len(ex.cids) : ex.cids[k] = c
  BY <1>1
<1>3. k \in DOMAIN ex.cids /\ c \in Range(ex.cids)
  BY <1>1, <1>2 DEF Range
<1>4. i \in DOMAIN ex.cids /\ ex.cids[i] = c
  BY <1>3, PositionFinds
<1> HIDE DEF i
<1>5. i = k
  BY <1>1, <1>2, <1>3, <1>4 DEF IsInjective
<1>6. ~ \E n \in Stored(ex) : ex.cids[n] = c
  <2> SUFFICES ASSUME NEW n \in Stored(ex), ex.cids[n] = c PROVE FALSE
    OBVIOUS
  <2>1. n \in DOMAIN ex.cids /\ n # k
    BY <1>1, <1>2, WellFormedParts
  <2> QED  BY <1>1, <1>2, <1>3, <2>1 DEF IsInjective
<1>7. AddedBlock(ex, c) = AddMissingData(ex, Genuine(c))
  BY <1>0, <1>3, <1>6 DEF AddBlock, AddedBlock
<1> QED  BY <1>0, <1>2, <1>4, <1>5, <1>7 DEF AddMissingData, PushData, Exchange, i

(* add_block on a cid the table does not have pushes it behind all others.  *)
LEMMA NotInTable ==
  ASSUME NEW ex, WellFormed(ex), NEW c \in Cids, c \notin Range(ex.cids)
  PROVE  /\ AddedBlock(ex, c).peers = ex.peers
         /\ AddedBlock(ex, c).peer_indices = ex.peer_indices
         /\ AddedBlock(ex, c).cids = Append(ex.cids, c)
         /\ AddedBlock(ex, c).cid_indices = ex.cid_indices
         /\ AddedBlock(ex, c).datums = Append(ex.datums, c)
<1>1. ex \in Exchange /\ Genuine(c).cid = c /\ Genuine(c).data = c
  BY DEF WellFormed, Genuine
<1>2. ~ \E i \in Stored(ex) : ex.cids[i] = c
  BY DEF Stored, Range
<1> QED  BY <1>1, <1>2 DEF AddedBlock, AddBlock, AddNewBlock, PushData, Exchange

(* A cid is stored, waits, or is not in the table. *)
LEMMA WhereCidIs ==
  ASSUME NEW ex, WellFormed(ex), NEW c \in Cids
  PROVE  \/ \E i \in Stored(ex) : ex.cids[i] = c
         \/ c \in Missing(ex)
         \/ c \notin Range(ex.cids)
<1>1. DOMAIN ex.cids \subseteq Stored(ex) \cup (DOMAIN ex.cids \ DOMAIN ex.datums)
  BY DEF Stored
<1> QED  BY <1>1 DEF Missing, Range

(* Where the added cid is, and where its data. *)
LEMMA AddedIsLast ==
  ASSUME NEW ex, WellFormed(ex), NEW c \in Cids, AddedBlock(ex, c) # ex
  PROVE  LET new == AddedBlock(ex, c)
         IN  /\ new.datums = Append(ex.datums, c)
             /\ \A k \in 1 .. Len(new.cids) : new.cids[k] = c <=> k = Len(new.cids)
             /\ Missing(ex) \subseteq {c} <=> Len(new.cids) = Len(ex.datums) + 1
             /\ Len(new.cids) \in Nat /\ Len(new.cids) > Len(ex.datums)
<1> DEFINE new  == AddedBlock(ex, c)
           last == Len(ex.cids)
           d    == Len(ex.datums)
<1>1. /\ last \in Nat /\ d \in Nat /\ d <= last /\ DOMAIN ex.cids = 1 .. last
      /\ Missing(ex) = {ex.cids[k] : k \in d + 1 .. last}
      /\ IsInjective(ex.cids) /\ ex.cids \in Seq(Cids)
  BY MissingBehindDatums, WellFormedParts
<1>2. c \in Missing(ex) \/ c \notin Range(ex.cids)
  <2>1. ASSUME \E i \in Stored(ex) : ex.cids[i] = c PROVE FALSE
    BY <2>1 DEF AddedBlock, AddBlock, Genuine
  <2> QED  BY <2>1, WhereCidIs
<1>3. CASE c \in Missing(ex)
  <2>1. \E i \in Len(ex.datums) + 1 .. Len(ex.cids) :
          /\ ex.cids[i] = c
          /\ AddedBlock(ex, c).peers = ex.peers
          /\ AddedBlock(ex, c).peer_indices = ex.peer_indices
          /\ AddedBlock(ex, c).cids = Swap(ex.cids, Len(ex.cids), i)
          /\ AddedBlock(ex, c).cid_indices
               = [k \in DOMAIN ex.cid_indices |-> Remap(ex.cid_indices[k], i, Len(ex.cids))]
          /\ AddedBlock(ex, c).datums = Append(ex.datums, c)
    <3> HIDE DEF new, last, d
    <3> QED  BY <1>3, WaitedFor, Zenon
  <2>2. PICK i \in d + 1 .. last :
          /\ ex.cids[i] = c
          /\ new.cids = Swap(ex.cids, last, i)
          /\ new.datums = Append(ex.datums, c)
    BY <2>1
  <2> HIDE DEF new, last, d
  <2>3. i \in 1 .. last /\ last \in 1 .. last /\ last >= d + 1
    BY <1>1, <2>1
  <2>4. Len(new.cids) = last
    <3>1. last \in DOMAIN ex.cids /\ i \in DOMAIN ex.cids
      BY <1>1, <2>3
    <3>2. Len(Swap(ex.cids, last, i)) = Len(ex.cids)
      BY <1>1, <3>1, SwapProperties
    <3> QED  BY <2>2, <3>2 DEF last
  <2>5. \A k \in 1 .. last :
          new.cids[k] = IF k = i THEN ex.cids[last] ELSE IF k = last THEN c ELSE ex.cids[k]
    BY <1>1, <2>2, <2>3 DEF Swap
  <2>6. \A k \in 1 .. last : new.cids[k] = c <=> k = last
    BY <1>1, <2>2, <2>3, <2>5 DEF IsInjective
  <2>7. Missing(ex) \subseteq {c} <=> last = d + 1
    <3>1. ASSUME last = d + 1 PROVE Missing(ex) \subseteq {c}
      BY <1>1, <2>2, <3>1
    <3>2. ASSUME last # d + 1 PROVE ~(Missing(ex) \subseteq {c})
      <4>1. d + 1 \in d + 1 .. last /\ last \in d + 1 .. last /\ d + 1 \in 1 .. last
        BY <1>1, <2>3
      <4>2. ex.cids[d + 1] \in Missing(ex) /\ ex.cids[last] \in Missing(ex)
        BY <1>1, <4>1
      <4>3. ex.cids[d + 1] # ex.cids[last]
        BY <1>1, <2>3, <3>2, <4>1 DEF IsInjective
      <4> QED  BY <4>2, <4>3
    <3> QED  BY <3>1, <3>2
  <2> DEFINE e == Len(new.cids)
  <2> HIDE DEF e
  <2>8. e = last
    BY <2>4 DEF e
  <2>9. \A k \in 1 .. e : new.cids[k] = c <=> k = e
    BY <2>6, <2>8
  <2>10. e \in Nat /\ e > d
    BY <1>1, <2>3, <2>8
  <2>11. Missing(ex) \subseteq {c} <=> e = d + 1
    BY <2>7, <2>8
  <2> QED  BY <2>2, <2>9, <2>10, <2>11 DEF new, d, e
<1>4. CASE c \notin Range(ex.cids)
  <2>1. new.cids = Append(ex.cids, c) /\ new.datums = Append(ex.datums, c)
    BY <1>4, NotInTable
  <2> HIDE DEF new, last, d
  <2>2. \A k \in 1 .. last : ex.cids[k] # c
    BY <1>1, <1>4 DEF Range
  <2>3. /\ Len(new.cids) = last + 1 /\ new.cids[last + 1] = c
        /\ \A k \in 1 .. last : new.cids[k] = ex.cids[k]
    BY <1>1, <2>1, AppendProperties DEF last
  <2>4. \A k \in 1 .. last + 1 : k \in 1 .. last \/ k = last + 1
    BY <1>1
  <2>5. Missing(ex) \subseteq {c} <=> last = d
    <3>1. last = d => Missing(ex) = {}
      BY <1>1
    <3>2. last # d => d + 1 \in d + 1 .. last /\ d + 1 \in 1 .. last
      BY <1>1
    <3> QED  BY <1>1, <2>2, <3>1, <3>2
  <2>6. \A k \in 1 .. last + 1 : new.cids[k] = c <=> k = last + 1
    BY <1>1, <2>2, <2>3, <2>4
  <2> DEFINE e == Len(new.cids)
  <2> HIDE DEF e
  <2>7. e = last + 1
    BY <2>3 DEF e
  <2>8. \A k \in 1 .. e : new.cids[k] = c <=> k = e
    BY <2>6, <2>7
  <2>9. e \in Nat /\ e > d /\ (e = d + 1 <=> last = d)
    BY <1>1, <2>7
  <2>10. Missing(ex) \subseteq {c} <=> e = d + 1
    BY <2>5, <2>9
  <2> QED  BY <2>1, <2>8, <2>9, <2>10 DEF new, d, e
<1> QED  BY <1>2, <1>3, <1>4

(* the block that was added is there for get_block if no other cid of the   *)
(* table waited for its data, and otherwise no block is.                    *)
BackOnlyInOrder ==
  \A c \in Cids :
    CallAddBlock(c) /\ exchange' # exchange
      => GetBlock(exchange', c) = IF Missing(exchange) \subseteq {c} THEN {Genuine(c)} ELSE {}

(* get_block after add_block, whatever went before: also when blocks came   *)
(* out of order before, a block is found again exactly when it is the only  *)
(* one missing.                                                             *)
THEOREM BlocksAreBackOnlyInOrder == Spec => [][BackOnlyInOrder]_vars
<1>1. ASSUME NEW ex, WellFormed(ex), NEW c \in Cids, AddedBlock(ex, c) # ex
      PROVE  GetBlock(AddedBlock(ex, c), c)
               = IF Missing(ex) \subseteq {c} THEN {Genuine(c)} ELSE {}
  <2> DEFINE new == AddedBlock(ex, c)
             d   == Len(ex.datums)
             e   == Len(new.cids)
  <2>1. /\ new.datums = Append(ex.datums, c)
        /\ \A k \in 1 .. e : new.cids[k] = c <=> k = e
        /\ Missing(ex) \subseteq {c} <=> e = d + 1
        /\ e \in Nat /\ e > d
    BY <1>1, AddedIsLast
  <2>2. WellFormed(new)
    <3>1. Genuine(c) \in Blocks
      BY DEF Genuine, Blocks
    <3> QED  BY <1>1, <3>1, AddBlockWellFormed DEF AddedBlock
  <2>3. d \in Nat /\ ex.datums \in Seq(Cids)
    BY <1>1, WellFormedParts, LenProperties
  <2>4. Len(new.datums) = d + 1 /\ new.datums[d + 1] = c
    BY <2>1, <2>3, AppendProperties
  <2>5. Stored(new) = 1 .. d + 1
    BY <2>2, <2>4, MissingBehindDatums
  <2>6. {j \in Stored(new) : new.cids[j] = c} = {j \in 1 .. d + 1 : j = e}
    <3>1. \A j \in 1 .. d + 1 : j \in 1 .. e
      BY <2>1, <2>3
    <3> HIDE DEF new, d, e
    <3> QED  BY <2>1, <2>5, <3>1
  <2>7. GetBlock(new, c) = {[cid |-> c, data |-> new.datums[j]] : j \in {k \in 1 .. d + 1 : k = e}}
    BY <2>6 DEF GetBlock
  <2> HIDE DEF new, d, e
  <2>8. CASE e = d + 1
    <3>1. {k \in 1 .. d + 1 : k = e} = {d + 1}
      BY <2>3, <2>8
    <3> QED  BY <2>1, <2>4, <2>7, <2>8, <3>1 DEF Genuine, new
  <2>9. CASE e # d + 1
    <3>1. {k \in 1 .. d + 1 : k = e} = {}
      BY <2>1, <2>3, <2>9
    <3> QED  BY <2>1, <2>7, <2>9, <3>1 DEF new
  <2> QED  BY <2>8, <2>9
<1>2. IInv => BackOnlyInOrder
  BY <1>1 DEF IInv, CallAddBlock, AddedBlock, BackOnlyInOrder
<1>3. IInv => [BackOnlyInOrder]_vars
  BY <1>2
<1> QED  BY <1>3, IInvHolds, PTL

(* A want for the cid, when the block finds it waiting, is a want for the   *)
(* last cid of the table from then on, the cid that took its place; no      *)
(* other want changes.                                                      *)
WantAfter(ex, c, w) ==
  IF c \in Missing(ex) /\ w[2] = c THEN <<w[1], ex.cids[Len(ex.cids)]>> ELSE w

MovesWantsToLastCid ==
  \A c \in Cids :
    CallAddBlock(c) =>
      WantList(exchange') =
        [k \in DOMAIN WantList(exchange) |-> WantAfter(exchange, c, WantList(exchange)[k])]

(* The wants after a block that was waited for. *)
LEMMA WaitedForWants ==
  ASSUME NEW ex, WellFormed(ex), NEW c \in Missing(ex)
  PROVE  WantList(AddedBlock(ex, c))
           = [k \in DOMAIN WantList(ex) |-> WantAfter(ex, c, WantList(ex)[k])]
<1> DEFINE new  == AddedBlock(ex, c)
           last == Len(ex.cids)
<1>1. PICK i \in Len(ex.datums) + 1 .. last :
        /\ ex.cids[i] = c
        /\ new.peers = ex.peers /\ new.peer_indices = ex.peer_indices
        /\ new.cids = Swap(ex.cids, last, i)
        /\ new.cid_indices = [k \in DOMAIN ex.cid_indices |-> Remap(ex.cid_indices[k], i, last)]
  BY WaitedFor
<1>2. /\ last \in Nat /\ Len(ex.datums) \in Nat /\ DOMAIN ex.cids = 1 .. last
      /\ IsInjective(ex.cids)
      /\ \A k \in DOMAIN ex.cid_indices : ex.cid_indices[k] \in 1 .. last
      /\ DOMAIN WantList(ex) = DOMAIN ex.cid_indices
      /\ \A k \in DOMAIN ex.cid_indices : WantList(ex)[k] = WantAt(ex, k)
  BY MissingBehindDatums, WellFormedParts, WantListType
<1> HIDE DEF new, last
<1>3. i \in 1 .. last /\ last \in 1 .. last
  BY <1>1, <1>2
<1>4. \A k \in 1 .. last :
        new.cids[k] = IF k = i THEN ex.cids[last] ELSE IF k = last THEN c ELSE ex.cids[k]
  BY <1>1, <1>2, <1>3 DEF Swap
<1>5. ASSUME NEW x \in 1 .. last
      PROVE  new.cids[Remap(x, i, last)] = IF ex.cids[x] = c THEN ex.cids[last] ELSE ex.cids[x]
  <2>1. ex.cids[x] = c <=> x = i
    BY <1>1, <1>2, <1>3 DEF IsInjective
  <2>2. Remap(x, i, last) = IF x = i \/ x = last THEN i ELSE x
    BY DEF Remap
  <2> QED  BY <1>3, <1>4, <2>1, <2>2
<1>6. ASSUME NEW k \in DOMAIN ex.cid_indices
      PROVE  WantAt(new, k) = WantAfter(ex, c, WantList(ex)[k])
  <2>1. /\ ex.cid_indices[k] \in 1 .. last
        /\ WantList(ex)[k] = <<ex.peers[ex.peer_indices[k]], ex.cids[ex.cid_indices[k]]>>
        /\ WantAt(new, k) = <<ex.peers[ex.peer_indices[k]], new.cids[Remap(ex.cid_indices[k], i, last)]>>
    BY <1>1, <1>2 DEF WantAt
  <2> QED  BY <1>5, <2>1 DEF WantAfter, last
<1>7. DOMAIN new.cid_indices = DOMAIN ex.cid_indices
  BY <1>1
<1>8. WantList(new) = [k \in DOMAIN ex.cid_indices |-> WantAfter(ex, c, WantList(ex)[k])]
  BY <1>6, <1>7 DEF WantList
<1> QED  BY <1>2, <1>8 DEF new

(* Which wants add_block misdirects, in any state callers can bring about:  *)
(* those for its cid, and to which cid.                                     *)
THEOREM WantsMoveToLastCid == Spec => [][MovesWantsToLastCid]_vars
<1>1. ASSUME NEW ex, WellFormed(ex), NEW c \in Cids
      PROVE  WantList(AddedBlock(ex, c))
               = [k \in DOMAIN WantList(ex) |-> WantAfter(ex, c, WantList(ex)[k])]
  <2>1. ASSUME c \notin Missing(ex), WantList(AddedBlock(ex, c)) = WantList(ex)
        PROVE  WantList(AddedBlock(ex, c))
                 = [k \in DOMAIN WantList(ex) |-> WantAfter(ex, c, WantList(ex)[k])]
    <3>1. WantList(ex) = [k \in DOMAIN WantList(ex) |-> WantList(ex)[k]]
      BY DEF WantList
    <3>2. \A w : WantAfter(ex, c, w) = w
      BY <2>1 DEF WantAfter
    <3> QED  BY <2>1, <3>1, <3>2
  <2>2. CASE c \in Missing(ex)
    BY <1>1, <2>2, WaitedForWants
  <2>3. CASE c \notin Missing(ex) /\ \E i \in Stored(ex) : ex.cids[i] = c
    <3>1. AddedBlock(ex, c) = ex
      BY <2>3 DEF AddedBlock, AddBlock, Genuine
    <3> QED  BY <2>1, <2>3, <3>1
  <2>4. CASE c \notin Missing(ex) /\ c \notin Range(ex.cids)
    <3>1. /\ AddedBlock(ex, c).peers = ex.peers
          /\ AddedBlock(ex, c).peer_indices = ex.peer_indices
          /\ AddedBlock(ex, c).cids = Append(ex.cids, c)
          /\ AddedBlock(ex, c).cid_indices = ex.cid_indices
      BY <1>1, <2>4, NotInTable
    <3>2. /\ ex.cids \in Seq(Cids)
          /\ \A k \in DOMAIN ex.cid_indices : ex.cid_indices[k] \in DOMAIN ex.cids
      BY <1>1, WellFormedParts
    <3>3. \A k \in DOMAIN ex.cids : AddedBlock(ex, c).cids[k] = ex.cids[k]
      BY <3>1, <3>2
    <3>4. WantList(AddedBlock(ex, c)) = WantList(ex)
      BY <3>1, <3>2, <3>3 DEF WantList, WantAt
    <3> QED  BY <2>1, <2>4, <3>4
  <2> QED  BY <1>1, <2>2, <2>3, <2>4, WhereCidIs
<1>2. IInv => MovesWantsToLastCid
  BY <1>1 DEF IInv, CallAddBlock, AddedBlock, MovesWantsToLastCid
<1>3. IInv => [MovesWantsToLastCid]_vars
  BY <1>2
<1> QED  BY <1>3, IInvHolds, PTL
------------------------------------------------------------------------------
(* The cids that have data, and the data, as two tables agree on them. *)
KeepsStored(ex, new) ==
  \A i \in Stored(ex) :
    i \in Stored(new) /\ new.cids[i] = ex.cids[i] /\ new.datums[i] = ex.datums[i]

(* add_block moves only cids without data and pushes behind the datums. *)
LEMMA AddBlockKeepsStored ==
  ASSUME NEW ex, WellFormed(ex), NEW block \in Blocks
  PROVE  KeepsStored(ex, AddBlock(ex, block))
<1> DEFINE i    == Position(ex.cids, block.cid)
           last == Len(ex.cids)
           d    == Len(ex.datums)
<1>1. /\ ex \in Exchange /\ ex.cids \in Seq(Cids) /\ ex.datums \in Seq(Cids)
      /\ block.cid \in Cids /\ block.data \in Cids
  BY WellFormedParts DEF WellFormed, Blocks
<1>2. /\ d \in Nat /\ last \in Nat /\ d <= last /\ Stored(ex) = 1 .. d
      /\ DOMAIN ex.datums = 1 .. d /\ DOMAIN ex.cids = 1 .. last
  BY MissingBehindDatums, WellFormedParts
<1>3. /\ DOMAIN Append(ex.datums, block.data) = 1 .. d + 1
      /\ \A k \in 1 .. d : Append(ex.datums, block.data)[k] = ex.datums[k]
  BY <1>1, AppendProperties, LenProperties
<1>4. CASE \E k \in Stored(ex) : ex.cids[k] = block.cid
  BY <1>4 DEF AddBlock, KeepsStored
<1>5. CASE /\ ~ \E k \in Stored(ex) : ex.cids[k] = block.cid
           /\ block.cid \in Range(ex.cids)
  <2>1. /\ AddBlock(ex, block).cids = Swap(ex.cids, last, i)
        /\ AddBlock(ex, block).datums = Append(ex.datums, block.data)
    BY <1>1, <1>5 DEF AddBlock, AddMissingData, PushData, Exchange
  <2>2. i \in 1 .. last /\ i \notin 1 .. d
    BY <1>2, <1>5, PositionFinds
  <2> HIDE DEF i
  <2>3. /\ DOMAIN Swap(ex.cids, last, i) = 1 .. last
        /\ \A k \in 1 .. d : Swap(ex.cids, last, i)[k] = ex.cids[k]
    BY <1>2, <2>2 DEF Swap
  <2> QED  BY <1>2, <1>3, <2>1, <2>3 DEF KeepsStored, Stored
<1>6. CASE /\ ~ \E k \in Stored(ex) : ex.cids[k] = block.cid
           /\ block.cid \notin Range(ex.cids)
  <2>1. /\ AddBlock(ex, block).cids = Append(ex.cids, block.cid)
        /\ AddBlock(ex, block).datums = Append(ex.datums, block.data)
    BY <1>1, <1>6 DEF AddBlock, AddNewBlock, PushData, Exchange
  <2>2. /\ DOMAIN Append(ex.cids, block.cid) = 1 .. last + 1
        /\ \A k \in 1 .. last : Append(ex.cids, block.cid)[k] = ex.cids[k]
    BY <1>1, AppendProperties, LenProperties
  <2> HIDE DEF last, d
  <2> QED  BY <1>2, <1>3, <2>1, <2>2 DEF KeepsStored, Stored
<1> QED  BY <1>4, <1>5, <1>6

(* No other method moves a cid or a datum. *)
LEMMA OtherCallsKeepStored ==
  ASSUME IInv, OtherCalls
  PROVE  KeepsStored(exchange, exchange')
<1>1. WellFormed(exchange) /\ exchange \in Exchange
  BY DEF IInv, WellFormed
<1>2. ASSUME NEW p \in Peers, NEW c \in Cids, CallAddWant(p, c)
      PROVE  KeepsStored(exchange, exchange')
  <2>1. /\ exchange'.cids = PushNew(exchange.cids, c)
        /\ exchange'.datums = exchange.datums
    BY <1>1, <1>2 DEF CallAddWant, AddWant, Exchange
  <2>2. exchange.cids \in Seq(Cids) /\ IsInjective(exchange.cids)
    BY <1>1, WellFormedParts
  <2>3. ASSUME NEW s \in Seq(Cids), IsInjective(s)
        PROVE  /\ DOMAIN s \subseteq DOMAIN PushNew(s, c)
               /\ \A i \in DOMAIN s : PushNew(s, c)[i] = s[i]
    BY <2>3, PushNewProperties
  <2> QED  BY <2>1, <2>2, <2>3 DEF KeepsStored, Stored
<1>3. CASE exchange'.cids = exchange.cids /\ exchange'.datums = exchange.datums
  BY <1>3 DEF KeepsStored, Stored
<1>4. \A K : /\ KeepWants(exchange, K).cids = exchange.cids
             /\ KeepWants(exchange, K).datums = exchange.datums
  BY <1>1 DEF KeepWants, Exchange
<1>5. ASSUME NEW p \in Peers, NEW c \in Cids, CallRemoveWant(p, c)
      PROVE  KeepsStored(exchange, exchange')
  BY <1>3, <1>4, <1>5 DEF CallRemoveWant, RemoveWant
<1>6. ASSUME NEW c \in Cids, CallRemoveWants(c)
      PROVE  KeepsStored(exchange, exchange')
  BY <1>3, <1>4, <1>6 DEF CallRemoveWants, RemoveWants
<1>7. CASE CallInsertionSortWants
  BY <1>1, <1>3, <1>7 DEF CallInsertionSortWants, InsertionSortWants, Exchange
<1> QED  BY <1>2, <1>5, <1>6, <1>7 DEF OtherCalls

(* What get_block returns for a cid it goes on returning, also once the     *)
(* pairing of cids and data is lost: a block announced stays there.         *)
THEOREM StoredForGood == Spec => DataIsKept
<1> DEFINE Step == \A c \in Cids : GetBlock(exchange, c) \subseteq GetBlock(exchange', c)
<1>1. IInv /\ [Next]_vars => Step
  <2> SUFFICES ASSUME IInv, [Next]_vars PROVE Step
    OBVIOUS
  <2>1. CASE OtherCalls
    BY <2>1, OtherCallsKeepStored DEF KeepsStored, GetBlock
  <2>2. ASSUME NEW c \in Cids, CallAddBlock(c) PROVE Step
    <3>1. Genuine(c) \in Blocks
      BY DEF Genuine, Blocks
    <3>2. KeepsStored(exchange, exchange')
      BY <2>2, <3>1, AddBlockKeepsStored DEF IInv, CallAddBlock
    <3> QED  BY <3>2 DEF KeepsStored, GetBlock
  <2>3. CASE UNCHANGED vars
    BY <2>3 DEF vars
  <2> QED  BY <2>1, <2>2, <2>3 DEF Next
<1>2. IInv /\ [Next]_vars => [Step]_vars
  BY <1>1
<1> QED  BY <1>2, IInvHolds, PTL DEF Spec, DataIsKept
=================================================================================
