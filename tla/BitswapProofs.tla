----------------------------- MODULE BitswapProofs -----------------------------
(****************************************************************************)
(* Theorems about the block-serving handlers of ipfs/background.rs, for any *)
(* sets of peers and cids, any number of wants and any limit on sends.      *)
(****************************************************************************)
EXTENDS Bitswap, BlockExchangeProofs

IInv ==
  /\ WellFormed(exchange)
  /\ pending_send_block \subseteq Peers \X Cids
  /\ IsFiniteSet(pending_send_block)
  /\ sent \subseteq Offers
  /\ gone \subseteq Peers
  /\ SlotBound

------------------------------------------------------------------------------
(* The loop of the handlers sends at most one block, to a peer it is not    *)
(* being sent to, and none only when every offer is being sent.             *)
LEMMA NextOfferProperties ==
  ASSUME NEW ex, WellFormed(ex), NEW pending
  PROVE  /\ \A o \in NextOffer(ex, pending) :
              /\ o \in Offers /\ Slot(o) \notin pending
              /\ \E i \in WantedPositions(ex) : o = Offer(ex, i)
         /\ \A o, q \in NextOffer(ex, pending) : o = q
         /\ NextOffer(ex, pending) = {}
              => \A i \in WantedPositions(ex) : Slot(Offer(ex, i)) \in pending
<1> DEFINE able == {i \in WantedPositions(ex) : Slot(Offer(ex, i)) \notin pending}
           first == {j \in able : \A k \in able : j <= k}
<1>1. NextOffer(ex, pending) = {Offer(ex, i) : i \in first}
  BY DEF NextOffer
<1>2. /\ WantedPositions(ex) \in SUBSET Nat
      /\ IsFiniteSet(WantedPositions(ex))
  <2>1. /\ WantedPositions(ex) \in SUBSET (1 .. Len(ex.cid_indices))
        /\ Len(ex.cid_indices) \in Nat
    BY WellFormedParts, LenProperties DEF WantedPositions
  <2>2. IsFiniteSet(1 .. Len(ex.cid_indices))
    BY <2>1, FS_Interval
  <2> QED  BY <2>1, <2>2, FS_Subset
<1>3. able \in SUBSET WantedPositions(ex)
  OBVIOUS
<1>4. able \in SUBSET Nat /\ IsFiniteSet(able)
  <2> HIDE DEF able
  <2> QED  BY <1>2, <1>3, FS_Subset
<1>5. \A i \in first : /\ i \in WantedPositions(ex) /\ Slot(Offer(ex, i)) \notin pending
                       /\ Offer(ex, i) \in Offers
  BY OfferIsBlockForPeer DEF Offers
<1>6. \A i, j \in first : i = j
  <2> SUFFICES ASSUME NEW i \in first, NEW j \in first PROVE i = j
    OBVIOUS
  <2>1. i \in able /\ j \in able /\ i <= j /\ j <= i
    OBVIOUS
  <2>2. i \in Int /\ j \in Int
    BY <1>4, <2>1
  <2> QED  BY <2>1, <2>2
<1>7. able # {} => first # {}
  <2> HIDE DEF able
  <2> QED  BY <1>4, SmallestExists
<1>8. first = {} => \A i \in WantedPositions(ex) : Slot(Offer(ex, i)) \in pending
  BY <1>7
<1> HIDE DEF first, able
<1> QED  BY <1>1, <1>5, <1>6, <1>8

(* So the sends open grow by at most one. *)
LEMMA DispatchedSlots ==
  ASSUME NEW ex, WellFormed(ex), NEW pending, IsFiniteSet(pending),
         pending \subseteq Peers \X Cids
  PROVE  LET after == pending \cup {Slot(o) : o \in NextOffer(ex, pending)}
         IN  /\ after \subseteq Peers \X Cids
             /\ IsFiniteSet(after)
             /\ Cardinality(after) <= Cardinality(pending) + 1
<1> DEFINE after == pending \cup {Slot(o) : o \in NextOffer(ex, pending)}
<1>1. Cardinality(pending) \in Nat
  BY FS_CardinalityType
<1>2. CASE NextOffer(ex, pending) = {}
  <2>1. after = pending
    BY <1>2
  <2> QED  BY <1>1, <2>1
<1>3. CASE NextOffer(ex, pending) # {}
  <2>1. PICK o \in NextOffer(ex, pending) : TRUE
    BY <1>3
  <2>2. o \in Offers /\ \A q \in NextOffer(ex, pending) : q = o
    BY NextOfferProperties
  <2>3. after = pending \cup {Slot(o)}
    BY <2>2
  <2>4. Slot(o) \in Peers \X Cids
    BY <2>2 DEF Slot, Offers, Blocks
  <2> HIDE DEF after
  <2>5. /\ IsFiniteSet(after)
        /\ Cardinality(after) = IF Slot(o) \in pending THEN Cardinality(pending)
                                ELSE Cardinality(pending) + 1
    BY <2>3, FS_AddElement
  <2>6. IsFiniteSet(after) /\ Cardinality(after) <= Cardinality(pending) + 1
    BY <1>1, <2>5
  <2>7. after \subseteq Peers \X Cids
    BY <2>3, <2>4
  <2> QED  BY <2>6, <2>7 DEF after
<1> QED  BY <1>2, <1>3

(* remove_want leaves no want of the peer for the cid, and makes no want    *)
(* ready that was not.                                                      *)
LEMMA RemoveWantForgets ==
  ASSUME NEW ex, WellFormed(ex), NEW p, NEW c
  PROVE  \A n \in WantedPositions(RemoveWant(ex, p, c)) :
           /\ Slot(Offer(RemoveWant(ex, p, c), n)) # <<p, c>>
           /\ WantedPositions(ex) # {}
<1> DEFINE new == RemoveWant(ex, p, c)
           K == {i \in DOMAIN ex.peer_indices :
                   ~ /\ ex.peer_indices[i] = Position(ex.peers, p)
                     /\ ex.cids[ex.cid_indices[i]] = c}
<1>1. CASE p \notin Range(ex.peers)
  <2>1. new = ex
    BY <1>1 DEF RemoveWant
  <2> HIDE DEF new
  <2>2. ASSUME NEW n \in WantedPositions(ex) PROVE Slot(Offer(ex, n)) # <<p, c>>
    <3>1. n \in DOMAIN ex.peer_indices
      BY WellFormedParts DEF WantedPositions
    <3>2. ex.peers[ex.peer_indices[n]] \in Range(ex.peers)
      BY <3>1, WellFormedParts DEF Range
    <3> QED  BY <1>1, <3>2 DEF Slot, Offer
  <2> QED  BY <2>1, <2>2 DEF new
<1>2. CASE p \in Range(ex.peers)
  <2>1. new = KeepWants(ex, K)
    BY <1>2 DEF RemoveWant
  <2>2. ex \in Exchange
    BY DEF WellFormed
  <2>3. /\ K \in SUBSET DOMAIN ex.peer_indices /\ K \in SUBSET DOMAIN ex.cid_indices
        /\ \A i \in K : ex.peer_indices[i] # Position(ex.peers, p)
                         \/ ex.cids[ex.cid_indices[i]] # c
    BY WellFormedParts
  <2> HIDE DEF K, new
  <2>4. /\ new.peers = ex.peers /\ new.cids = ex.cids /\ new.datums = ex.datums
        /\ new.peer_indices = Pick(ex.peer_indices, K)
        /\ new.cid_indices = Pick(ex.cid_indices, K)
    BY <2>1, <2>2 DEF KeepWants, Exchange
  <2>5. /\ DOMAIN new.cid_indices = 1 .. Cardinality(K)
        /\ \A n \in 1 .. Cardinality(K) :
             /\ KeptFrom(K)[n] \in K
             /\ new.peer_indices[n] = ex.peer_indices[KeptFrom(K)[n]]
             /\ new.cid_indices[n] = ex.cid_indices[KeptFrom(K)[n]]
    <3>1. ex.peer_indices \in Seq(Nat) /\ ex.cid_indices \in Seq(Nat)
      BY WellFormedParts
    <3>2. /\ DOMAIN Pick(ex.peer_indices, K) = 1 .. Cardinality(K)
          /\ \A n \in DOMAIN Pick(ex.peer_indices, K) :
               /\ KeptFrom(K)[n] \in K
               /\ Pick(ex.peer_indices, K)[n] = ex.peer_indices[KeptFrom(K)[n]]
      BY <2>3, <3>1, PickProperties
    <3>3. /\ DOMAIN Pick(ex.cid_indices, K) = 1 .. Cardinality(K)
          /\ \A n \in DOMAIN Pick(ex.cid_indices, K) :
               Pick(ex.cid_indices, K)[n] = ex.cid_indices[KeptFrom(K)[n]]
      BY <2>3, <3>1, PickProperties
    <3> QED  BY <2>4, <3>2, <3>3
  <2>6. ASSUME NEW n \in WantedPositions(new)
        PROVE  Slot(Offer(new, n)) # <<p, c>> /\ WantedPositions(ex) # {}
    <3> DEFINE i == KeptFrom(K)[n]
    <3>1. /\ i \in K
          /\ new.peer_indices[n] = ex.peer_indices[i] /\ new.cid_indices[n] = ex.cid_indices[i]
          /\ new.cid_indices[n] <= Len(new.datums)
      BY <2>5 DEF WantedPositions
    <3> HIDE DEF i
    <3>2. i \in WantedPositions(ex)
      BY <2>3, <2>4, <3>1 DEF WantedPositions
    <3>3. ex.peer_indices[i] = Position(ex.peers, p) \/ ex.peers[ex.peer_indices[i]] # p
      <4>1. /\ Position(ex.peers, p) \in DOMAIN ex.peers
            /\ ex.peers[Position(ex.peers, p)] = p
        BY <1>2, PositionFinds
      <4>2. ex.peer_indices[i] \in DOMAIN ex.peers /\ IsInjective(ex.peers)
        BY <2>3, <3>1, WellFormedParts
      <4> QED  BY <4>1, <4>2 DEF IsInjective
    <3>4. ex.peers[ex.peer_indices[i]] # p \/ ex.cids[ex.cid_indices[i]] # c
      BY <2>3, <3>1, <3>3
    <3> QED  BY <2>4, <3>1, <3>2, <3>4 DEF Slot, Offer
  <2> QED  BY <2>6 DEF new
<1> QED  BY <1>1, <1>2

------------------------------------------------------------------------------
(* What the two ways to dispatch leave, from any well-formed exchange and   *)
(* any sends that leave room for one more.                                  *)
LEMMA DispatchKeeps ==
  ASSUME WellFormed(exchange'), NEW pending, IsFiniteSet(pending),
         pending \subseteq Peers \X Cids,
         Cardinality(pending) < max_concurrent_send,
         Dispatch(exchange', pending)
  PROVE  /\ pending_send_block' \subseteq Peers \X Cids
         /\ IsFiniteSet(pending_send_block')
         /\ sent' \subseteq Offers
         /\ SlotBound'
<1>1. /\ pending_send_block' \subseteq Peers \X Cids
      /\ IsFiniteSet(pending_send_block')
      /\ Cardinality(pending_send_block') <= Cardinality(pending) + 1
  BY DispatchedSlots DEF Dispatch
<1>2. sent' \subseteq Offers
  BY NextOfferProperties DEF Dispatch
<1>3. SlotBound'
  <2>1. Cardinality(pending) \in Nat /\ Cardinality(pending_send_block') \in Nat
    BY <1>1, FS_CardinalityType
  <2> QED  BY <1>1, <2>1, SendAssumption DEF SlotBound
<1> QED  BY <1>1, <1>2, <1>3

(* "if already sending too many blocks" return: the wants and the blocks.   *)
LEMMA DispatchIfFreeKeeps ==
  ASSUME IInv, WellFormed(exchange'), UNCHANGED gone,
         DispatchIfFree(exchange', pending_send_block)
  PROVE  IInv'
<1>1. CASE Cardinality(pending_send_block) >= max_concurrent_send
  BY <1>1 DEF IInv, DispatchIfFree, SlotBound
<1>2. CASE ~(Cardinality(pending_send_block) >= max_concurrent_send)
  <2>1. Cardinality(pending_send_block) \in Nat
    BY FS_CardinalityType DEF IInv
  <2>2. Dispatch(exchange', pending_send_block)
    BY <1>2 DEF DispatchIfFree
  <2> QED  BY <1>2, <2>1, <2>2, DispatchKeeps, SendAssumption DEF IInv
<1> QED  BY <1>1, <1>2

(* The cancel of an open send uses the slot it frees, and only that one. *)
LEMMA ReceivedCancelKeeps ==
  ASSUME IInv, NEW p \in Peers, NEW c \in Cids, ReceivedCancel(p, c)
  PROVE  IInv'
<1>1. WellFormed(exchange') /\ gone' \subseteq Peers
  BY RemoveWantWellFormed DEF IInv, ReceivedCancel
<1>2. CASE <<p, c>> \in pending_send_block
  <2> DEFINE left == pending_send_block \ {<<p, c>>}
  <2>1. /\ IsFiniteSet(left)
        /\ Cardinality(left) = Cardinality(pending_send_block) - 1
    BY <1>2, FS_RemoveElement DEF IInv
  <2>2. left \subseteq Peers \X Cids
    BY DEF IInv
  <2>3. Dispatch(exchange', left)
    BY <1>2 DEF ReceivedCancel
  <2> HIDE DEF left
  <2>4. Cardinality(left) < max_concurrent_send
    <3>1. Cardinality(pending_send_block) \in Nat
      BY FS_CardinalityType DEF IInv
    <3> QED  BY <2>1, <3>1, SendAssumption DEF IInv, SlotBound
  <2> QED  BY <1>1, <2>1, <2>2, <2>3, <2>4, DispatchKeeps DEF IInv
<1>3. CASE <<p, c>> \notin pending_send_block
  BY <1>1, <1>3 DEF IInv, ReceivedCancel, SlotBound
<1> QED  BY <1>2, <1>3

(* The remaining handlers. *)
LEMMA ReceivedWantKeeps ==
  ASSUME IInv, NEW p \in Peers, NEW c \in Cids, ReceivedWant(p, c)
  PROVE  IInv'
<1>1. WellFormed(exchange')
  BY AddWantWellFormed DEF IInv, ReceivedWant
<1> QED  BY <1>1, DispatchIfFreeKeeps DEF ReceivedWant

(* ReceivedBlock. *)
LEMMA ReceivedBlockKeeps ==
  ASSUME IInv, NEW p \in Peers, NEW c \in Cids, ReceivedBlock(p, c)
  PROVE  IInv'
<1>1. WellFormed(exchange')
  BY AddBlockWellFormed DEF IInv, ReceivedBlock, Genuine, Blocks
<1> QED  BY <1>1, DispatchIfFreeKeeps DEF ReceivedBlock

(* Command::BlockAdd. *)
LEMMA BlockAddKeeps ==
  ASSUME IInv, NEW c \in Cids, BlockAdd(c)
  PROVE  IInv'
<1>1. WellFormed(exchange')
  BY AddBlockWellFormed DEF IInv, BlockAdd, Genuine, Blocks
<1> QED  BY <1>1 DEF IInv, BlockAdd, SlotBound

(* ConnectionClosed. *)
LEMMA ConnectionClosedKeeps ==
  ASSUME IInv, NEW p \in Peers, ConnectionClosed(p)
  PROVE  IInv'
BY DEF IInv, ConnectionClosed, SlotBound

(* Nothing is sent at the start. *)
LEMMA InitIInv == Init => IInv
BY DefaultWellFormed, FS_EmptySet, SendAssumption DEF Init, IInv, SlotBound

(* Both roles keep the invariant. *)
LEMMA ViewerNextIInv == IInv /\ [ViewerNext]_vars => IInv'
<1> SUFFICES ASSUME IInv, [ViewerNext]_vars PROVE IInv'
  OBVIOUS
<1>1. CASE ViewerNext
  BY <1>1, ConnectionClosedKeeps, ReceivedWantKeeps, ReceivedBlockKeeps, ReceivedCancelKeeps
     DEF ViewerNext
<1>2. CASE UNCHANGED vars
  BY <1>2 DEF vars, IInv, SlotBound
<1> QED  BY <1>1, <1>2

(* The streamer adds blocks and fetches none. *)
LEMMA StreamerNextIInv == IInv /\ [StreamerNext]_vars => IInv'
<1> SUFFICES ASSUME IInv, [StreamerNext]_vars PROVE IInv'
  OBVIOUS
<1>1. CASE StreamerNext
  BY <1>1, BlockAddKeeps, ConnectionClosedKeeps, ReceivedWantKeeps, ReceivedCancelKeeps
     DEF StreamerNext, WantOfHeldBlock
<1>2. CASE UNCHANGED vars
  BY <1>2 DEF vars, IInv, SlotBound
<1> QED  BY <1>1, <1>2

------------------------------------------------------------------------------
(* The invariant holds of both roles. *)
THEOREM IInvHolds == (ViewerSpec => []IInv) /\ (StreamerSpec => []IInv)
<1>1. ViewerSpec => []IInv
  BY InitIInv, ViewerNextIInv, PTL DEF ViewerSpec
<1>2. StreamerSpec => []IInv
  BY InitIInv, StreamerNextIInv, PTL DEF StreamerSpec
<1> QED  BY <1>1, <1>2

(* The state of the block server keeps its type. *)
THEOREM TypeCorrect == (ViewerSpec => []TypeOK) /\ (StreamerSpec => []TypeOK)
<1>1. IInv => TypeOK
  BY DEF IInv, TypeOK, WellFormed
<1> QED  BY <1>1, IInvHolds, PTL

(* "Sending only couple blocks at a time": no more sends are open than      *)
(* max_concurrent_send, in either role.                                     *)
THEOREM SendsAreBounded == (ViewerSpec => []SlotBound) /\ (StreamerSpec => []SlotBound)
<1>1. IInv => SlotBound
  BY DEF IInv
<1> QED  BY <1>1, IInvHolds, PTL

(* What is being sent to a peer is not sent to it again: a block leaves     *)
(* only for a slot that was free before the event, not for the one a cancel *)
(* frees.                                                                   *)
LEMMA DispatchIfFreeResendsNothing ==
  ASSUME WellFormed(exchange'), DispatchIfFree(exchange', pending_send_block)
  PROVE  \A o \in sent' : Slot(o) \notin pending_send_block
BY NextOfferProperties DEF DispatchIfFree, Dispatch

(* A cancel frees the slot of a want it removes from the list. *)
LEMMA ReceivedCancelResendsNothing ==
  ASSUME IInv, NEW p \in Peers, NEW c \in Cids, ReceivedCancel(p, c)
  PROVE  \A o \in sent' : Slot(o) \notin pending_send_block
<1>1. WellFormed(exchange') /\ exchange' = RemoveWant(exchange, p, c)
  BY RemoveWantWellFormed DEF IInv, ReceivedCancel
<1>2. CASE <<p, c>> \in pending_send_block
  <2> SUFFICES ASSUME NEW o \in sent' PROVE Slot(o) \notin pending_send_block
    OBVIOUS
  <2>1. o \in NextOffer(exchange', pending_send_block \ {<<p, c>>})
    BY <1>2 DEF ReceivedCancel, Dispatch
  <2>2. /\ Slot(o) \notin pending_send_block \ {<<p, c>>}
        /\ \E i \in WantedPositions(exchange') : o = Offer(exchange', i)
    BY <1>1, <2>1, NextOfferProperties
  <2>3. Slot(o) # <<p, c>>
    BY <1>1, <2>2, RemoveWantForgets DEF IInv
  <2> QED  BY <2>2, <2>3
<1>3. CASE <<p, c>> \notin pending_send_block
  BY <1>3 DEF ReceivedCancel
<1> QED  BY <1>2, <1>3

(* bitswap never sends a block whose slot is taken, whatever the order of   *)
(* the wants, blocks and cancels.                                           *)
THEOREM NothingIsResent == (ViewerSpec => NoResend) /\ (StreamerSpec => NoResend)
<1> DEFINE Step == \A o \in sent' : Slot(o) \notin pending_send_block
<1>1. IInv /\ [ViewerNext]_vars => [Step]_vars
  <2> SUFFICES ASSUME IInv, ViewerNext PROVE Step
    OBVIOUS
  <2>1. ASSUME NEW p \in Peers, ConnectionClosed(p) PROVE Step
    BY <2>1 DEF ConnectionClosed
  <2>2. ASSUME NEW p \in Peers, NEW c \in Cids, ReceivedWant(p, c) PROVE Step
    BY <2>2, AddWantWellFormed, DispatchIfFreeResendsNothing DEF ReceivedWant, IInv
  <2>3. ASSUME NEW p \in Peers, NEW c \in Cids, ReceivedBlock(p, c) PROVE Step
    <3>1. Genuine(c) \in Blocks
      BY DEF Genuine, Blocks
    <3> QED  BY <2>3, <3>1, AddBlockWellFormed, DispatchIfFreeResendsNothing
             DEF ReceivedBlock, IInv
  <2> QED  BY <2>1, <2>2, <2>3, ReceivedCancelResendsNothing DEF ViewerNext
<1>2. IInv /\ [StreamerNext]_vars => [Step]_vars
  <2> SUFFICES ASSUME IInv, StreamerNext PROVE Step
    OBVIOUS
  <2>1. ASSUME NEW c \in Cids, BlockAdd(c) PROVE Step
    BY <2>1 DEF BlockAdd
  <2>2. ASSUME NEW p \in Peers, ConnectionClosed(p) PROVE Step
    BY <2>2 DEF ConnectionClosed
  <2>3. ASSUME NEW p \in Peers, NEW c \in Cids, WantOfHeldBlock(p, c) PROVE Step
    BY <2>3, AddWantWellFormed, DispatchIfFreeResendsNothing
       DEF WantOfHeldBlock, ReceivedWant, IInv
  <2> QED  BY <2>1, <2>2, <2>3, ReceivedCancelResendsNothing DEF StreamerNext
<1>3. ViewerSpec => NoResend
  BY <1>1, IInvHolds, PTL DEF ViewerSpec, NoResend
<1>4. StreamerSpec => NoResend
  BY <1>2, IInvHolds, PTL DEF StreamerSpec, NoResend
<1> QED  BY <1>3, <1>4

------------------------------------------------------------------------------
(* A dispatch that leaves no send open found nothing to send. *)
LEMMA DispatchLeavesNoneIdle ==
  ASSUME WellFormed(exchange'), NEW pending, Dispatch(exchange', pending),
         pending_send_block' = {}
  PROVE  WantedPositions(exchange') = {}
<1>1. /\ pending = {}
      /\ {Slot(o) : o \in NextOffer(exchange', pending)} = {}
  BY DEF Dispatch
<1>2. NextOffer(exchange', pending) = {}
  BY <1>1
<1>3. \A i \in WantedPositions(exchange') : Slot(Offer(exchange', i)) \in pending
  BY <1>2, NextOfferProperties
<1> QED  BY <1>1, <1>3

(* With no send open the limit does not keep a handler from dispatching.    *)
LEMMA DispatchIfFreeLeavesNoneIdle ==
  ASSUME WellFormed(exchange'), DispatchIfFree(exchange', pending_send_block)
  PROVE  NoIdleStall'
<1> SUFFICES ASSUME pending_send_block' = {}, max_concurrent_send > 0
             PROVE  WantedPositions(exchange') = {}
  BY DEF NoIdleStall
<1>1. pending_send_block = {}
  BY DEF DispatchIfFree, Dispatch
<1>2. ~(Cardinality(pending_send_block) >= max_concurrent_send)
  BY <1>1, FS_EmptySet, SendAssumption
<1>3. Dispatch(exchange', pending_send_block)
  BY <1>2 DEF DispatchIfFree
<1> QED  BY <1>3, DispatchLeavesNoneIdle

(* A cancel that leaves no send open found nothing to send, or there was    *)
(* none open and nothing to send before it.                                 *)
LEMMA ReceivedCancelLeavesNoneIdle ==
  ASSUME IInv, NoIdleStall, NEW p \in Peers, NEW c \in Cids, ReceivedCancel(p, c)
  PROVE  NoIdleStall'
<1>1. /\ WellFormed(exchange) /\ WellFormed(exchange')
      /\ exchange' = RemoveWant(exchange, p, c)
  BY RemoveWantWellFormed DEF IInv, ReceivedCancel
<1>2. CASE <<p, c>> \in pending_send_block
  <2>1. Dispatch(exchange', pending_send_block \ {<<p, c>>})
    BY <1>2 DEF ReceivedCancel
  <2> QED  BY <1>1, <2>1, DispatchLeavesNoneIdle DEF NoIdleStall
<1>3. CASE <<p, c>> \notin pending_send_block
  <2>1. pending_send_block' = pending_send_block
    BY <1>3 DEF ReceivedCancel
  <2>2. WantedPositions(exchange) = {} => WantedPositions(exchange') = {}
    BY <1>1, RemoveWantForgets
  <2> QED  BY <2>1, <2>2 DEF NoIdleStall
<1> QED  BY <1>2, <1>3

(* With no send open nothing that could be sent is left waiting, whatever   *)
(* the peers of a viewer do.                                                *)
THEOREM NothingStallsIdle == ViewerSpec => []NoIdleStall
<1>1. Init => NoIdleStall
  BY DEF Init, NoIdleStall, WantedPositions, DefaultExchange
<1>2. IInv /\ NoIdleStall /\ [ViewerNext]_vars => NoIdleStall'
  <2> SUFFICES ASSUME IInv, NoIdleStall, [ViewerNext]_vars PROVE NoIdleStall'
    OBVIOUS
  <2>1. ASSUME NEW p \in Peers, ConnectionClosed(p) PROVE NoIdleStall'
    BY <2>1 DEF ConnectionClosed, NoIdleStall
  <2>2. ASSUME NEW p \in Peers, NEW c \in Cids, ReceivedWant(p, c) PROVE NoIdleStall'
    BY <2>2, AddWantWellFormed, DispatchIfFreeLeavesNoneIdle DEF ReceivedWant, IInv
  <2>3. ASSUME NEW p \in Peers, NEW c \in Cids, ReceivedBlock(p, c) PROVE NoIdleStall'
    <3>1. Genuine(c) \in Blocks
      BY DEF Genuine, Blocks
    <3> QED  BY <2>3, <3>1, AddBlockWellFormed, DispatchIfFreeLeavesNoneIdle
             DEF ReceivedBlock, IInv
  <2>4. CASE UNCHANGED vars
    BY <2>4 DEF vars, NoIdleStall
  <2> QED  BY <2>1, <2>2, <2>3, <2>4, ReceivedCancelLeavesNoneIdle DEF ViewerNext
<1> QED  BY <1>1, <1>2, IInvHolds, PTL DEF ViewerSpec

------------------------------------------------------------------------------
(* The streamer holds the block of every cid in its tables, so its wants    *)
(* are for blocks it can send, and what it sends is what was asked for.     *)
AllHeld(ex) == Aligned(ex) /\ Missing(ex) = {}

Answers(ex, o) == o.block = Genuine(o.block.cid) /\ Slot(o) \in Range(WantList(ex))

HInv == IInv /\ AllHeld(exchange) /\ SlotsAreWanted /\ SendsWhatIsWanted

(* A want for a cid the streamer holds goes to the end of the list and      *)
(* changes no table of cids.                                                *)
LEMMA AddHeldWant ==
  ASSUME NEW ex, WellFormed(ex), NEW p \in Peers, NEW c \in Cids, c \in Range(ex.cids)
  PROVE  /\ AddWant(ex, p, c).cids = ex.cids
         /\ AddWant(ex, p, c).datums = ex.datums
         /\ Range(WantList(ex)) \subseteq Range(WantList(AddWant(ex, p, c)))
<1> DEFINE new == AddWant(ex, p, c)
           peers == PushNew(ex.peers, p)
<1>1. ex \in Exchange
  BY DEF WellFormed
<1>2. /\ new.peers = peers /\ new.cids = ex.cids /\ new.datums = ex.datums
      /\ new.peer_indices = Append(ex.peer_indices, Position(peers, p))
      /\ new.cid_indices = Append(ex.cid_indices, Position(ex.cids, c))
  BY <1>1 DEF AddWant, Exchange, PushNew
<1>3. \A i \in DOMAIN ex.peers : peers[i] = ex.peers[i]
  BY WellFormedParts, PushNewProperties
<1>4. /\ ex.peer_indices \in Seq(Nat) /\ ex.cid_indices \in Seq(Nat)
      /\ DOMAIN ex.peer_indices = DOMAIN ex.cid_indices
      /\ \A i \in DOMAIN ex.peer_indices : ex.peer_indices[i] \in DOMAIN ex.peers
  BY WellFormedParts
<1> HIDE DEF new, peers
<1>5. ASSUME NEW i \in DOMAIN ex.cid_indices
      PROVE  i \in DOMAIN new.cid_indices /\ WantAt(new, i) = WantAt(ex, i)
  <2>1. /\ i \in 1 .. Len(ex.cid_indices) /\ i \in 1 .. Len(ex.peer_indices)
        /\ Len(ex.cid_indices) \in Nat
    BY <1>4, LenProperties
  <2>2. /\ i \in DOMAIN new.cid_indices
        /\ new.cid_indices[i] = ex.cid_indices[i]
        /\ new.peer_indices[i] = ex.peer_indices[i]
    BY <1>2, <1>4, <2>1
  <2> QED  BY <1>2, <1>3, <1>4, <2>2 DEF WantAt
<1>6. Range(WantList(ex)) \subseteq Range(WantList(new))
  BY <1>5 DEF WantList, Range
<1> QED  BY <1>2, <1>6 DEF new

(* What the dispatch sends answers a want of the list. *)
LEMMA OffersAnswer ==
  ASSUME NEW ex, WellFormed(ex), Aligned(ex), NEW pending
  PROVE  \A o \in NextOffer(ex, pending) : Answers(ex, o)
<1> SUFFICES ASSUME NEW o \in NextOffer(ex, pending) PROVE Answers(ex, o)
  OBVIOUS
<1>1. PICK i \in WantedPositions(ex) : o = Offer(ex, i)
  BY NextOfferProperties
<1>2. i \in DOMAIN ex.cid_indices /\ ex.cid_indices[i] \in DOMAIN ex.cids
  BY WellFormedParts DEF WantedPositions
<1>3. ex.cid_indices[i] \in Stored(ex)
  <2>1. ex.cid_indices[i] \in 1 .. Len(ex.cids) /\ Len(ex.datums) \in Nat
    BY <1>2, MissingBehindDatums
  <2> QED  BY <2>1, MissingBehindDatums DEF WantedPositions
<1>4. o.block = Genuine(o.block.cid)
  BY <1>1, <1>3 DEF Aligned, Offer, Genuine
<1>5. Slot(o) = WantAt(ex, i)
  BY <1>1 DEF Slot, Offer, WantAt
<1> QED  BY <1>2, <1>4, <1>5 DEF Answers, WantList, Range

(* What a handler sends when it dispatches is the genuine block of a want. *)
LEMMA DispatchAnswers ==
  ASSUME WellFormed(exchange'), Aligned(exchange'), NEW pending,
         Dispatch(exchange', pending), pending \subseteq Range(WantList(exchange'))
  PROVE  SlotsAreWanted' /\ SendsWhatIsWanted'
<1>1. \A o \in NextOffer(exchange', pending) : Answers(exchange', o)
  BY OffersAnswer
<1> QED  BY <1>1 DEF Dispatch, Answers, SlotsAreWanted, SendsWhatIsWanted

(* A table whose cids and data did not change is still all held. *)
LEMMA AllHeldKept ==
  ASSUME NEW ex, AllHeld(ex), NEW new, new.cids = ex.cids, new.datums = ex.datums
  PROVE  AllHeld(new)
BY DEF AllHeld, Aligned, Missing, Stored

(* The streamer's events. *)
LEMMA HeldWantKeeps ==
  ASSUME HInv, NEW p \in Peers, NEW c \in Cids, WantOfHeldBlock(p, c)
  PROVE  HInv'
<1>1. WellFormed(exchange) /\ IInv'
  BY ReceivedWantKeeps DEF HInv, IInv, WantOfHeldBlock
<1>2. c \in Range(exchange.cids)
  BY DEF WantOfHeldBlock, GetBlock, Stored, Range
<1>3. /\ exchange'.cids = exchange.cids /\ exchange'.datums = exchange.datums
      /\ Range(WantList(exchange)) \subseteq Range(WantList(exchange'))
  BY <1>1, <1>2, AddHeldWant DEF WantOfHeldBlock, ReceivedWant
<1>4. AllHeld(exchange') /\ WellFormed(exchange')
  BY <1>1, <1>3, AllHeldKept DEF HInv, IInv
<1>5. pending_send_block \subseteq Range(WantList(exchange'))
  BY <1>3 DEF HInv, SlotsAreWanted
<1>6. SlotsAreWanted' /\ SendsWhatIsWanted'
  <2>1. CASE Cardinality(pending_send_block) >= max_concurrent_send
    BY <1>5, <2>1
       DEF WantOfHeldBlock, ReceivedWant, DispatchIfFree, SlotsAreWanted, SendsWhatIsWanted
  <2>2. CASE ~(Cardinality(pending_send_block) >= max_concurrent_send)
    BY <1>4, <1>5, <2>2, DispatchAnswers
       DEF WantOfHeldBlock, ReceivedWant, DispatchIfFree, AllHeld
  <2> QED  BY <2>1, <2>2
<1> QED  BY <1>1, <1>4, <1>6 DEF HInv

(* A cancel takes the want and its slot together. *)
LEMMA HeldCancelKeeps ==
  ASSUME HInv, NEW p \in Peers, NEW c \in Cids, ReceivedCancel(p, c)
  PROVE  HInv'
<1>1. WellFormed(exchange) /\ IInv'
  BY ReceivedCancelKeeps DEF HInv, IInv
<1>2. /\ exchange'.cids = exchange.cids /\ exchange'.datums = exchange.datums
      /\ \A w \in Range(WantList(exchange)) :
           w # <<p, c>> => w \in Range(WantList(exchange'))
  <2>1. exchange' = RemoveWant(exchange, p, c)
    BY DEF ReceivedCancel
  <2>2. /\ RemoveWant(exchange, p, c).cids = exchange.cids
        /\ RemoveWant(exchange, p, c).datums = exchange.datums
        /\ Range(WantList(RemoveWant(exchange, p, c))) = Range(WantList(exchange)) \ {<<p, c>>}
    BY <1>1, RemoveWantList
  <2> QED  BY <2>1, <2>2
<1>3. AllHeld(exchange') /\ WellFormed(exchange')
  BY <1>1, <1>2, AllHeldKept DEF HInv, IInv
<1>4. pending_send_block \ {<<p, c>>} \subseteq Range(WantList(exchange'))
  BY <1>2 DEF HInv, SlotsAreWanted
<1>5. SlotsAreWanted' /\ SendsWhatIsWanted'
  <2>1. CASE <<p, c>> \in pending_send_block
    BY <1>3, <1>4, <2>1, DispatchAnswers DEF ReceivedCancel, AllHeld
  <2>2. CASE <<p, c>> \notin pending_send_block
    BY <1>4, <2>2 DEF ReceivedCancel, SlotsAreWanted, SendsWhatIsWanted
  <2> QED  BY <2>1, <2>2
<1> QED  BY <1>1, <1>3, <1>5 DEF HInv

(* A new block adds its cid and its data at the same place. *)
LEMMA HeldBlockAddKeeps ==
  ASSUME HInv, NEW c \in Cids, BlockAdd(c)
  PROVE  HInv'
<1>1. WellFormed(exchange) /\ IInv' /\ AllHeld(exchange)
  BY BlockAddKeeps DEF HInv, IInv
<1>2. Aligned(exchange')
  BY <1>1, AddBlockAligned DEF AllHeld, BlockAdd
<1>3. Stored(exchange) = DOMAIN exchange.cids
  BY <1>1 DEF AllHeld, Missing, Stored
<1>4. exchange' = exchange \/ exchange' = AddNewBlock(exchange, Genuine(c))
  BY <1>3 DEF BlockAdd, AddBlock, Genuine, Range
<1>5. CASE exchange' = exchange
  BY <1>1, <1>5 DEF HInv, BlockAdd, SlotsAreWanted, SendsWhatIsWanted
<1>6. CASE exchange' = AddNewBlock(exchange, Genuine(c))
  <2>1. exchange \in Exchange
    BY <1>1 DEF WellFormed
  <2>2. /\ exchange'.peers = exchange.peers
        /\ exchange'.peer_indices = exchange.peer_indices
        /\ exchange'.cid_indices = exchange.cid_indices
        /\ exchange'.cids = Append(exchange.cids, c)
        /\ exchange'.datums = Append(exchange.datums, c)
    BY <1>6, <2>1 DEF AddNewBlock, PushData, Genuine, Exchange
  <2>3. /\ exchange.cids \in Seq(Cids) /\ exchange.datums \in Seq(Cids)
        /\ \A i \in DOMAIN exchange.cid_indices : exchange.cid_indices[i] \in DOMAIN exchange.cids
    BY <1>1, WellFormedParts
  <2>4. Len(exchange.cids) = Len(exchange.datums)
    <3>1. /\ Len(exchange.datums) \in Nat /\ Len(exchange.cids) \in Nat
          /\ Len(exchange.datums) <= Len(exchange.cids)
          /\ 1 .. Len(exchange.datums) = 1 .. Len(exchange.cids)
      BY <1>1, <1>3, MissingBehindDatums, WellFormedParts
    <3>2. Len(exchange.cids) \in 1 .. Len(exchange.cids) \/ Len(exchange.cids) = 0
      BY <3>1
    <3> QED  BY <3>1, <3>2
  <2>5. Missing(exchange') = {}
    <3>1. DOMAIN exchange'.cids = DOMAIN exchange'.datums
      BY <2>2, <2>3, <2>4
    <3> QED  BY <3>1 DEF Missing
  <2>6. WantList(exchange') = WantList(exchange)
    <3>1. \A i \in DOMAIN exchange.cids : exchange'.cids[i] = exchange.cids[i]
      BY <2>2, <2>3
    <3> QED  BY <2>2, <2>3, <3>1 DEF WantList, WantAt
  <2> QED  BY <1>1, <1>2, <2>5, <2>6
           DEF HInv, AllHeld, BlockAdd, SlotsAreWanted, SendsWhatIsWanted
<1> QED  BY <1>4, <1>5, <1>6

(* Every event of the streamer keeps its invariant. *)
LEMMA HeldStays == HInv /\ [StreamerNext]_vars => HInv'
<1> SUFFICES ASSUME HInv, [StreamerNext]_vars PROVE HInv'
  OBVIOUS
<1>1. ASSUME NEW p \in Peers, ConnectionClosed(p) PROVE HInv'
  BY <1>1, ConnectionClosedKeeps
     DEF HInv, ConnectionClosed, SlotsAreWanted, SendsWhatIsWanted
<1>2. CASE StreamerNext
  BY <1>1, <1>2, HeldBlockAddKeeps, HeldWantKeeps, HeldCancelKeeps DEF StreamerNext
<1>3. CASE UNCHANGED vars
  BY <1>3 DEF vars, HInv, IInv, SlotBound, SlotsAreWanted, SendsWhatIsWanted
<1> QED  BY <1>2, <1>3

(* The streamer holds the block of every cid it knows, and its slots and    *)
(* its sends answer wants.                                                  *)
THEOREM HInvHolds == StreamerSpec => []HInv
<1>1. Init => HInv
  <2> SUFFICES ASSUME Init PROVE HInv
    OBVIOUS
  <2>1. AllHeld(exchange)
    BY DEF Init, AllHeld, Aligned, Missing, Stored, DefaultExchange
  <2> QED  BY <2>1, InitIInv DEF Init, HInv, SlotsAreWanted, SendsWhatIsWanted
<1> QED  BY <1>1, HeldStays, PTL DEF StreamerSpec

(* At the streamer every open send answers a want of the list, so its peer  *)
(* can still give the slot back.                                            *)
THEOREM SlotsStayWanted == StreamerSpec => []SlotsAreWanted
<1>1. HInv => SlotsAreWanted
  BY DEF HInv
<1> QED  BY <1>1, HInvHolds, PTL

(* What the streamer sends is the data of the cid that was asked for, on a  *)
(* want that was not withdrawn.                                             *)
THEOREM SendsAreWanted == StreamerSpec => []SendsWhatIsWanted
<1>1. HInv => SendsWhatIsWanted
  BY DEF HInv
<1> QED  BY <1>1, HInvHolds, PTL

------------------------------------------------------------------------------
(* The streamer implements BlockServer.  A slot is free only while every    *)
(* want of the list has one, so a want that comes finds itself the oldest   *)
(* without, and a cancel has one slot to give.                              *)
NoneWaits ==
  Cardinality(pending_send_block) < max_concurrent_send
    => Range(WantList(exchange)) \subseteq pending_send_block

ServerStore == {c \in Cids : GetBlock(exchange, c) # {}}

(* The instance counts as its user does. *)
LEMMA SameCount == \A S : Server!Cardinality(S) = Cardinality(S)
BY DEF Server!Cardinality, Cardinality

(* With the block of every cid at hand, every want can be served. *)
LEMMA AllAreWanted ==
  ASSUME NEW ex, WellFormed(ex), AllHeld(ex)
  PROVE  /\ WantedPositions(ex) = DOMAIN WantList(ex)
         /\ \A i \in DOMAIN WantList(ex) : Slot(Offer(ex, i)) = WantList(ex)[i]
         /\ \A i \in DOMAIN WantList(ex) : WantList(ex)[i][2] \in Range(ex.datums)
<1>1. /\ DOMAIN WantList(ex) = DOMAIN ex.cid_indices
      /\ \A i \in DOMAIN WantList(ex) : WantList(ex)[i] = WantAt(ex, i)
  BY WantListType
<1>2. \A i \in DOMAIN ex.cid_indices : ex.cid_indices[i] \in DOMAIN ex.cids
  BY WellFormedParts
<1>3. \A k \in DOMAIN ex.cids : k <= Len(ex.datums) /\ k \in DOMAIN ex.datums
  <2>1. DOMAIN ex.cids \subseteq DOMAIN ex.datums
    BY DEF AllHeld, Missing
  <2> QED  BY <2>1, MissingBehindDatums
<1>4. WantedPositions(ex) = DOMAIN WantList(ex)
  BY <1>1, <1>2, <1>3 DEF WantedPositions
<1>5. \A i \in DOMAIN WantList(ex) : Slot(Offer(ex, i)) = WantList(ex)[i]
  BY <1>1 DEF Slot, Offer, WantAt
<1>6. ASSUME NEW i \in DOMAIN WantList(ex) PROVE WantList(ex)[i][2] \in Range(ex.datums)
  <2> DEFINE k == ex.cid_indices[i]
  <2>1. k \in DOMAIN ex.cids /\ k \in DOMAIN ex.datums
    BY <1>1, <1>2, <1>3
  <2>2. ex.datums[k] = ex.cids[k]
    BY <2>1 DEF AllHeld, Aligned, Stored
  <2>3. WantList(ex)[i][2] = ex.cids[k]
    BY <1>1 DEF WantAt
  <2> HIDE DEF k
  <2> QED  BY <2>1, <2>2, <2>3 DEF Range
<1> QED  BY <1>4, <1>5, <1>6

(* What the server holds are the datums. *)
LEMMA StoreIsDatums ==
  ASSUME NEW ex, WellFormed(ex), AllHeld(ex)
  PROVE  {c \in Cids : GetBlock(ex, c) # {}} = Range(ex.datums)
<1>1. \A c \in Cids : GetBlock(ex, c) = IF c \in Range(ex.datums) THEN {Genuine(c)} ELSE {}
  BY GetBlockOfDatums DEF AllHeld
<1>2. Range(ex.datums) \subseteq Cids
  <2>1. ex.datums \in Seq(Cids)
    BY WellFormedParts
  <2> QED  BY <2>1, LenProperties, ElementOfSeq DEF Range
<1> QED  BY <1>1, <1>2

(* The loop sends the first offer that is not being sent. *)
LEMMA NextOfferIsOldest ==
  ASSUME NEW ex, NEW pending, NEW o \in NextOffer(ex, pending)
  PROVE  \E i \in WantedPositions(ex) :
           /\ o = Offer(ex, i) /\ Slot(o) \notin pending
           /\ \A k \in WantedPositions(ex) : Slot(Offer(ex, k)) \notin pending => i <= k
BY DEF NextOffer

(* Slots that stay as they are fill what can be filled when all are taken,  *)
(* or when no want is without one.                                          *)
LEMMA StandsFilled ==
  ASSUME HInv', pending_send_block' = pending_send_block, NoneWaits',
         NEW busy, busy = pending_send_block
  PROVE  Server!Fill(WantList(exchange)', busy)
<1> DEFINE list == WantList(exchange')
           able == {w \in Server!Entries(list) : w[2] \in ServerStore} \ busy
<1>1. /\ Cardinality(busy) \in Nat /\ Cardinality(busy) <= max_concurrent_send
      /\ max_concurrent_send \in Nat
  BY FS_CardinalityType, SendAssumption DEF HInv, IInv, SlotBound
<1>2. Cardinality(busy) < max_concurrent_send => able = {}
  BY DEF NoneWaits, Server!Entries, Range
<1>3. able # {} => Cardinality(busy) = max_concurrent_send
  BY <1>1, <1>2
<1>4. pending_send_block' \ busy = {}
  OBVIOUS
<1>5. WantList(exchange)' = list
  OBVIOUS
<1> QED  BY <1>1, <1>3, <1>4, <1>5, SameCount DEF Server!Fill, ServerStore

(* A dispatch fills what can be filled when it has the last free slot to    *)
(* give, or one want to give it to.                                         *)
LEMMA DispatchFills ==
  ASSUME HInv', NEW busy, IsFiniteSet(busy), busy \subseteq Peers \X Cids,
         Cardinality(busy) < max_concurrent_send,
         Dispatch(exchange', busy),
         ServerStore = Range(exchange'.datums),
         \/ Cardinality(busy) + 1 = max_concurrent_send
         \/ \E w : Range(WantList(exchange')) \ busy \subseteq {w}
  PROVE  Server!Fill(WantList(exchange)', busy) /\ NoneWaits'
<1> DEFINE list    == WantList(exchange')
           able    == Range(list) \ busy
           granted == pending_send_block' \ busy
<1>1. WellFormed(exchange') /\ AllHeld(exchange')
  BY DEF HInv, IInv
<1>2. /\ WantedPositions(exchange') = DOMAIN list
      /\ \A i \in DOMAIN list : Slot(Offer(exchange', i)) = list[i]
      /\ \A i \in DOMAIN list : list[i][2] \in ServerStore
      /\ DOMAIN list \subseteq Int
      /\ DOMAIN list = 1 .. Len(list) /\ Len(list) \in Nat
  <2>1. /\ WantedPositions(exchange') = DOMAIN list
        /\ \A i \in DOMAIN list : Slot(Offer(exchange', i)) = list[i]
        /\ \A i \in DOMAIN list : list[i][2] \in Range(exchange'.datums)
    BY <1>1, AllAreWanted
  <2>2. DOMAIN list = 1 .. Len(list) /\ Len(list) \in Nat
    BY <1>1, WantListType
  <2> HIDE DEF list
  <2> QED  BY <2>1, <2>2
<1>3. {w \in Server!Entries(list) : w[2] \in ServerStore} \ busy = able
  BY <1>2 DEF Server!Entries, Range
<1>4. Cardinality(busy) \in Nat /\ max_concurrent_send \in Nat
  BY FS_CardinalityType, SendAssumption
<1>5. WantList(exchange)' = list
  OBVIOUS
<1>6. /\ busy \subseteq pending_send_block'
      /\ granted \subseteq able
      /\ Cardinality(pending_send_block') <= max_concurrent_send
      /\ able \ granted # {} => Cardinality(pending_send_block') = max_concurrent_send
      /\ \A g \in granted, w \in able \ granted : Server!Older(list, g, w)
  <2>1. CASE NextOffer(exchange', busy) = {}
    <3>1. pending_send_block' = busy
      BY <2>1 DEF Dispatch
    <3>2. \A i \in DOMAIN list : list[i] \in busy
      BY <1>1, <1>2, <2>1, NextOfferProperties
    <3>3. able = {}
      BY <3>2 DEF Range
    <3> HIDE DEF able
    <3> QED  BY <1>4, <3>1, <3>3
  <2>2. CASE NextOffer(exchange', busy) # {}
    <3>1. PICK o \in NextOffer(exchange', busy) : TRUE
      BY <2>2
    <3>2. \A q \in NextOffer(exchange', busy) : q = o
      BY <1>1, NextOfferProperties
    <3>3. PICK i \in DOMAIN list :
            /\ o = Offer(exchange', i) /\ Slot(o) \notin busy
            /\ \A k \in DOMAIN list : list[k] \notin busy => i <= k
      BY <1>2, NextOfferIsOldest
    <3>4. Slot(o) = list[i]
      BY <1>2, <3>3
    <3>5. pending_send_block' = busy \cup {list[i]} /\ list[i] \notin busy
      BY <3>2, <3>3, <3>4 DEF Dispatch
    <3>6. Cardinality(pending_send_block') = Cardinality(busy) + 1
      BY <3>5, FS_AddElement
    <3>7. granted = {list[i]} /\ list[i] \in able
      BY <3>3, <3>5 DEF Range
    <3>8. able \ granted # {} => Cardinality(busy) + 1 = max_concurrent_send
      BY <3>7
    <3>9. ASSUME NEW w \in able \ granted PROVE Server!Older(list, list[i], w)
      <4>1. w \notin busy /\ w # list[i]
        BY <3>7, <3>9
      <4>2. \A j \in 1 .. i : list[j] # w
        <5> SUFFICES ASSUME NEW j \in 1 .. i, list[j] = w PROVE FALSE
          OBVIOUS
        <5>1. j \in DOMAIN list
          BY <1>2
        <5>2. i <= j /\ j <= i
          BY <1>2, <3>3, <4>1, <5>1
        <5>3. i = j
          BY <1>2, <5>1, <5>2
        <5> QED  BY <4>1, <5>3
      <4> QED  BY <4>2 DEF Server!Older
    <3> HIDE DEF able, granted
    <3>10. /\ busy \subseteq pending_send_block'
           /\ Cardinality(pending_send_block') <= max_concurrent_send
      BY <1>4, <3>5, <3>6
    <3>11. granted \subseteq able
      BY <3>7
    <3>12. \A g \in granted, w \in able \ granted : Server!Older(list, g, w)
      BY <3>7, <3>9
    <3> QED  BY <3>6, <3>8, <3>10, <3>11, <3>12
  <2> QED  BY <2>1, <2>2
<1>7. Server!Fill(WantList(exchange)', busy)
  <2> HIDE DEF list
  <2>1. {w \in Server!Entries(list) : w[2] \in {c \in Cids : GetBlock(exchange, c) # {}}} \ busy
          = able
    BY <1>3 DEF ServerStore
  <2> HIDE DEF able
  <2> QED  BY <1>5, <1>6, <2>1, SameCount DEF Server!Fill
<1>8. NoneWaits'
  <2> SUFFICES ASSUME Cardinality(pending_send_block') < max_concurrent_send
               PROVE  Range(list) \subseteq pending_send_block'
    BY DEF NoneWaits
  <2>1. Cardinality(pending_send_block') # max_concurrent_send
    <3>1. Cardinality(pending_send_block') \in Nat
      BY FS_CardinalityType DEF HInv, IInv
    <3> QED  BY <1>4, <3>1
  <2> QED  BY <1>6, <2>1
<1> QED  BY <1>7, <1>8

(* ReceivedWant is a want. *)
LEMMA WantIsServed ==
  ASSUME HInv, HInv', NoneWaits, NEW p \in Peers, NEW c \in Cids, WantOfHeldBlock(p, c)
  PROVE  Server!Want(p, c) /\ NoneWaits'
<1>1. /\ WellFormed(exchange) /\ AllHeld(exchange) /\ IsFiniteSet(pending_send_block)
      /\ WellFormed(exchange') /\ AllHeld(exchange')
      /\ pending_send_block \subseteq Peers \X Cids
      /\ exchange' = AddWant(exchange, p, c)
  BY DEF HInv, IInv, WantOfHeldBlock, ReceivedWant
<1>2. /\ exchange'.datums = exchange.datums
      /\ WantList(exchange') = Append(WantList(exchange), <<p, c>>)
  BY <1>1, AddWantList
<1>3. Range(WantList(exchange')) = Range(WantList(exchange)) \cup {<<p, c>>}
  BY <1>1, <1>2, WantListType, AppendedEntries
<1>4. ServerStore = Range(exchange'.datums) /\ UNCHANGED ServerStore
  BY <1>1, <1>2, StoreIsDatums DEF ServerStore
<1>5. Server!Fill(WantList(exchange)', pending_send_block) /\ NoneWaits'
  <2>1. Cardinality(pending_send_block) \in Nat /\ max_concurrent_send \in Nat
    BY <1>1, FS_CardinalityType, SendAssumption
  <2>2. CASE Cardinality(pending_send_block) >= max_concurrent_send
    <3>1. pending_send_block' = pending_send_block
      BY <2>2 DEF WantOfHeldBlock, ReceivedWant, DispatchIfFree
    <3>2. NoneWaits'
      BY <2>1, <2>2, <3>1 DEF NoneWaits
    <3> QED  BY <3>1, <3>2, StandsFilled
  <2>3. CASE ~(Cardinality(pending_send_block) >= max_concurrent_send)
    <3>1. Dispatch(exchange', pending_send_block)
      BY <2>3 DEF WantOfHeldBlock, ReceivedWant, DispatchIfFree
    <3>2. Cardinality(pending_send_block) < max_concurrent_send
      BY <2>1, <2>3
    <3>3. Range(WantList(exchange')) \ pending_send_block \subseteq {<<p, c>>}
      BY <1>3, <3>2 DEF NoneWaits
    <3> QED  BY <1>1, <1>4, <3>1, <3>2, <3>3, DispatchFills
  <2> QED  BY <2>2, <2>3
<1>6. UNCHANGED {d \in Cids : GetBlock(exchange, d) # {}}
  BY <1>4 DEF ServerStore
<1> QED  BY <1>2, <1>5, <1>6 DEF Server!Want

(* ReceivedCancel is a cancel. *)
LEMMA CancelIsServed ==
  ASSUME HInv, HInv', NoneWaits, NEW p \in Peers, NEW c \in Cids, ReceivedCancel(p, c)
  PROVE  Server!Cancel(p, c) /\ NoneWaits'
<1> DEFINE busy == pending_send_block \ {<<p, c>>}
<1>1. /\ WellFormed(exchange) /\ AllHeld(exchange) /\ IsFiniteSet(pending_send_block)
      /\ WellFormed(exchange') /\ AllHeld(exchange')
      /\ pending_send_block \subseteq Peers \X Cids
      /\ exchange' = RemoveWant(exchange, p, c)
      /\ Cardinality(pending_send_block) <= max_concurrent_send
  BY DEF HInv, IInv, ReceivedCancel, SlotBound
<1>2. /\ exchange'.datums = exchange.datums
      /\ IsLeft(WantList(exchange'), WantList(exchange),
                {i \in DOMAIN WantList(exchange) : WantList(exchange)[i] # <<p, c>>})
      /\ Range(WantList(exchange')) = Range(WantList(exchange)) \ {<<p, c>>}
  <2>1. exchange' = RemoveWant(exchange, p, c) /\ WellFormed(exchange)
    BY <1>1
  <2>2. exchange'.datums = exchange.datums
    BY <2>1, RemoveWantList
  <2>3. IsLeft(WantList(exchange'), WantList(exchange),
               {i \in DOMAIN WantList(exchange) : WantList(exchange)[i] # <<p, c>>})
    BY <2>1, RemoveWantList
  <2>4. Range(WantList(exchange')) = Range(WantList(exchange)) \ {<<p, c>>}
    BY <2>1, RemoveWantList
  <2> QED  BY <2>2, <2>3, <2>4
<1>3. ServerStore = Range(exchange'.datums) /\ UNCHANGED ServerStore
  BY <1>1, <1>2, StoreIsDatums DEF ServerStore
<1>4. Server!Fill(WantList(exchange)', busy) /\ NoneWaits'
  <2>1. Cardinality(pending_send_block) \in Nat /\ max_concurrent_send \in Nat
    BY <1>1, FS_CardinalityType, SendAssumption
  <2>2. CASE <<p, c>> \notin pending_send_block
    <3>1. pending_send_block' = pending_send_block /\ busy = pending_send_block
      BY <2>2 DEF ReceivedCancel
    <3>2. NoneWaits'
      BY <1>2, <3>1 DEF NoneWaits
    <3> QED  BY <3>1, <3>2, StandsFilled
  <2>3. CASE <<p, c>> \in pending_send_block
    <3>1. Dispatch(exchange', busy)
      BY <2>3 DEF ReceivedCancel
    <3>2. IsFiniteSet(busy) /\ Cardinality(busy) = Cardinality(pending_send_block) - 1
      BY <1>1, <2>3, FS_RemoveElement
    <3>3. busy \subseteq Peers \X Cids
      BY <1>1
    <3>4. Cardinality(pending_send_block) < max_concurrent_send
            => Range(WantList(exchange')) \ busy \subseteq {<<p, c>>}
      BY <1>2 DEF NoneWaits
    <3> HIDE DEF busy
    <3>5. /\ Cardinality(busy) < max_concurrent_send
          /\ \/ Cardinality(busy) + 1 = max_concurrent_send
             \/ Cardinality(pending_send_block) < max_concurrent_send
      BY <1>1, <2>1, <3>2
    <3>6. \/ Cardinality(busy) + 1 = max_concurrent_send
          \/ \E w : Range(WantList(exchange')) \ busy \subseteq {w}
      BY <3>4, <3>5
    <3> QED  BY <1>3, <3>1, <3>2, <3>3, <3>5, <3>6, DispatchFills
  <2> QED  BY <2>2, <2>3
<1>5. Server!IsWithout(WantList(exchange'), WantList(exchange), <<p, c>>)
  BY <1>2, SameCount DEF Server!IsWithout, IsLeft, Rank
<1>6. UNCHANGED {d \in Cids : GetBlock(exchange, d) # {}}
  BY <1>3 DEF ServerStore
<1> QED  BY <1>4, <1>5, <1>6 DEF Server!Cancel

(* BlockAdd is a block held. *)
LEMMA BlockAddIsHeld ==
  ASSUME HInv, HInv', NoneWaits, NEW c \in Cids, BlockAdd(c)
  PROVE  Server!Hold(c) /\ NoneWaits'
<1>1. /\ WellFormed(exchange) /\ AllHeld(exchange)
      /\ WellFormed(exchange') /\ AllHeld(exchange')
      /\ exchange' = AddBlock(exchange, Genuine(c))
      /\ UNCHANGED pending_send_block
  BY DEF HInv, IInv, BlockAdd
<1>2. WantList(exchange') = WantList(exchange)
  BY <1>1, AddBlockWantList DEF AllHeld
<1>3. Range(exchange'.datums) = Range(exchange.datums) \cup {c}
  BY <1>1, AddBlockDatums DEF AllHeld
<1>4. ServerStore' = ServerStore \cup {c}
  BY <1>1, <1>3, StoreIsDatums DEF ServerStore
<1>5. NoneWaits'
  BY <1>1, <1>2 DEF NoneWaits
<1> QED  BY <1>1, <1>2, <1>4, <1>5 DEF Server!Hold, ServerStore

(* Every event of the streamer is a step of the server, or none. *)
LEMMA StepIsServerStep ==
  ASSUME HInv, HInv', NoneWaits, [StreamerNext]_vars
  PROVE  [Server!Next]_(Server!vars) /\ NoneWaits'
<1>1. ASSUME NEW c \in Cids, BlockAdd(c) PROVE Server!Next /\ NoneWaits'
  BY <1>1, BlockAddIsHeld DEF Server!Next
<1>2. ASSUME NEW p \in Peers, NEW c \in Cids, WantOfHeldBlock(p, c)
      PROVE  Server!Next /\ NoneWaits'
  BY <1>2, WantIsServed DEF Server!Next
<1>3. ASSUME NEW p \in Peers, NEW c \in Cids, ReceivedCancel(p, c)
      PROVE  Server!Next /\ NoneWaits'
  BY <1>3, CancelIsServed DEF Server!Next
<1>4. ASSUME UNCHANGED <<exchange, pending_send_block>>
      PROVE  UNCHANGED Server!vars /\ NoneWaits'
  BY <1>4 DEF Server!vars, NoneWaits
<1>5. ASSUME NEW p \in Peers, ConnectionClosed(p) PROVE UNCHANGED <<exchange, pending_send_block>>
  BY <1>5 DEF ConnectionClosed
<1>6. CASE UNCHANGED vars
  BY <1>4, <1>6 DEF vars
<1> QED  BY <1>1, <1>2, <1>3, <1>4, <1>5, <1>6 DEF StreamerNext

(* The streamer starts as the server does. *)
LEMMA ServedAtStart == Init => Server!Init /\ NoneWaits
<1> SUFFICES ASSUME Init PROVE Server!Init /\ NoneWaits
  OBVIOUS
<1>1. WantList(exchange) = <<>>
  BY DEF Init, DefaultExchange, WantList
<1>2. \A c \in Cids : GetBlock(exchange, c) = {}
  BY DEF Init, DefaultExchange, GetBlock, Stored
<1>3. Range(WantList(exchange)) = {}
  BY <1>1 DEF Range
<1> QED  BY <1>1, <1>2, <1>3 DEF Server!Init, Init, NoneWaits

(* No want is without a slot while one is free, at the streamer. *)
THEOREM NoWantWaitsForFreeSlot == StreamerSpec => []NoneWaits
<1>1. HInv /\ HInv' /\ NoneWaits /\ [StreamerNext]_vars => NoneWaits'
  BY StepIsServerStep
<1> QED  BY <1>1, ServedAtStart, HInvHolds, PTL DEF StreamerSpec

(* So with no send open nothing is left waiting there either, although      *)
(* BlockAdd does not dispatch.                                              *)
THEOREM NothingStallsAtStreamer == StreamerSpec => []NoIdleStall
<1>1. HInv /\ NoneWaits => NoIdleStall
  <2> SUFFICES ASSUME HInv, NoneWaits, pending_send_block = {}, max_concurrent_send > 0
               PROVE  WantedPositions(exchange) = {}
    BY DEF NoIdleStall
  <2>1. Cardinality(pending_send_block) < max_concurrent_send
    BY FS_EmptySet, SendAssumption
  <2>2. Range(WantList(exchange)) = {}
    BY <2>1 DEF NoneWaits
  <2>3. WantedPositions(exchange) = DOMAIN WantList(exchange)
    BY AllAreWanted DEF HInv, IInv
  <2> QED  BY <2>2, <2>3 DEF Range
<1> QED  BY <1>1, NoWantWaitsForFreeSlot, HInvHolds, PTL

(* "First come first served.  Sending only couple blocks at a time": the    *)
(* streamer implements BlockServer, for any peers, cids and limit.          *)
THEOREM StreamerImplementsBlockServer == StreamerSpec => ImplementsBlockServer
<1>1. HInv /\ HInv' /\ NoneWaits /\ [StreamerNext]_vars
        => [Server!Next]_(Server!vars) /\ NoneWaits'
  BY StepIsServerStep
<1> QED  BY <1>1, ServedAtStart, HInvHolds, PTL
         DEF StreamerSpec, ImplementsBlockServer, Server!Spec

------------------------------------------------------------------------------
(* The streamer's handlers use the BlockExchange in the order in which its  *)
(* layout holds.  Whoever asked is whoever is in the want list.             *)
Caller == INSTANCE ExchangeCalls WITH asked <- Range(WantList(exchange))

(* The instance calls the same methods. *)
LEMMA SameMethods ==
  /\ \A ex, p, c : Caller!AddWant(ex, p, c) = AddWant(ex, p, c)
  /\ \A ex, p, c : Caller!RemoveWant(ex, p, c) = RemoveWant(ex, p, c)
  /\ \A ex, block : Caller!AddBlock(ex, block) = AddBlock(ex, block)
  /\ \A ex : Caller!Missing(ex) = Missing(ex)
  /\ \A c : Caller!Genuine(c) = Genuine(c)
  /\ Caller!DefaultExchange = DefaultExchange
<1>1. \A s : Caller!Range(s) = Range(s)
  BY DEF Caller!Range, Range
<1>2. \A s, x : Caller!Position(s, x) = Position(s, x)
  BY DEF Caller!Position, Position
<1>3. \A s, x : Caller!PushNew(s, x) = PushNew(s, x)
  BY <1>1 DEF Caller!PushNew, PushNew
<1>4. \A ex, p, c : Caller!AddWant(ex, p, c) = AddWant(ex, p, c)
  BY <1>2, <1>3 DEF Caller!AddWant, AddWant
<1>5. \A ex, K : Caller!KeepWants(ex, K) = KeepWants(ex, K)
  <2>1. \A s, K : Caller!Pick(s, K) = Pick(s, K)
    BY DEF Caller!Pick, Pick, Caller!Rank, Rank, Caller!Cardinality, Cardinality
  <2> QED  BY <2>1 DEF Caller!KeepWants, KeepWants
<1>6. \A ex, p, c : Caller!RemoveWant(ex, p, c) = RemoveWant(ex, p, c)
  BY <1>1, <1>2, <1>5 DEF Caller!RemoveWant, RemoveWant
<1>7. \A ex, block : Caller!AddBlock(ex, block) = AddBlock(ex, block)
  <2>1. \A ex, block : Caller!AddMissingData(ex, block) = AddMissingData(ex, block)
    BY DEF Caller!AddMissingData, AddMissingData, Caller!Position, Position,
           Caller!Swap, Swap, Caller!Remap, Remap, Caller!PushData, PushData
  <2>2. \A ex, block : Caller!AddNewBlock(ex, block) = AddNewBlock(ex, block)
    BY DEF Caller!AddNewBlock, AddNewBlock, Caller!PushData, PushData
  <2>3. \A ex : Caller!Stored(ex) = Stored(ex)
    BY DEF Caller!Stored, Stored
  <2> QED  BY <1>1, <2>1, <2>2, <2>3 DEF Caller!AddBlock, AddBlock
<1>8. \A ex : Caller!Missing(ex) = Missing(ex)
  BY DEF Caller!Missing, Missing
<1>9. \A c : Caller!Genuine(c) = Genuine(c)
  BY DEF Caller!Genuine, Genuine
<1>10. Caller!DefaultExchange = DefaultExchange
  BY DEF Caller!DefaultExchange, DefaultExchange
<1> QED  BY <1>4, <1>6, <1>7, <1>8, <1>9, <1>10

(* Each event is one call, or none. *)
LEMMA EventIsCall ==
  ASSUME HInv, [StreamerNext]_vars PROVE [Caller!InOrderNext]_(Caller!vars)
<1>1. WellFormed(exchange) /\ AllHeld(exchange)
  BY DEF HInv, IInv
<1>2. ASSUME NEW p \in Peers, NEW c \in Cids, WantOfHeldBlock(p, c)
      PROVE  Caller!InOrderNext
  <2>1. exchange' = AddWant(exchange, p, c) /\ Len(exchange.cid_indices) < MaxWants
    BY <1>2 DEF WantOfHeldBlock, ReceivedWant
  <2>2. Range(WantList(exchange')) = Range(WantList(exchange)) \cup {<<p, c>>}
    <3>1. WantList(exchange') = Append(WantList(exchange), <<p, c>>)
      BY <1>1, <2>1, AddWantList
    <3>2. WantList(exchange) \in Seq(Peers \X Cids) /\ <<p, c>> \in Peers \X Cids
      BY <1>1, WantListType
    <3> QED  BY <3>1, <3>2, AppendedEntries
  <2>3. Caller!CallAddWant(p, c)
    BY <2>1, <2>2, SameMethods DEF Caller!CallAddWant
  <2> QED  BY <2>3 DEF Caller!InOrderNext, Caller!OtherCalls
<1>3. ASSUME NEW p \in Peers, NEW c \in Cids, ReceivedCancel(p, c)
      PROVE  Caller!InOrderNext
  <2>1. exchange' = RemoveWant(exchange, p, c)
    BY <1>3 DEF ReceivedCancel
  <2>2. Range(WantList(exchange')) = Range(WantList(exchange)) \ {<<p, c>>}
    BY <1>1, <2>1, RemoveWantList
  <2>3. Caller!CallRemoveWant(p, c)
    BY <2>1, <2>2, SameMethods DEF Caller!CallRemoveWant
  <2> QED  BY <2>3 DEF Caller!InOrderNext, Caller!OtherCalls
<1>4. ASSUME NEW c \in Cids, BlockAdd(c) PROVE Caller!InOrderNext
  <2>1. exchange' = AddBlock(exchange, Genuine(c)) /\ Missing(exchange) \subseteq {c}
    BY <1>1, <1>4 DEF BlockAdd, AllHeld
  <2>2. WantList(exchange') = WantList(exchange)
    BY <1>1, <2>1, AddBlockWantList
  <2>3. Caller!CallAddBlock(c) /\ Caller!Missing(exchange) \subseteq {c}
    BY <2>1, <2>2, SameMethods DEF Caller!CallAddBlock
  <2> QED  BY <2>3 DEF Caller!InOrderNext
<1>5. ASSUME UNCHANGED exchange PROVE UNCHANGED Caller!vars
  BY <1>5 DEF Caller!vars
<1>6. ASSUME NEW p \in Peers, ConnectionClosed(p) PROVE UNCHANGED exchange
  BY <1>6 DEF ConnectionClosed
<1>7. CASE UNCHANGED vars
  BY <1>5, <1>7 DEF vars
<1> QED  BY <1>2, <1>3, <1>4, <1>5, <1>6, <1>7 DEF StreamerNext

(* Whatever the wants and cancels of the viewers, the streamer calls its    *)
(* BlockExchange in the order that keeps data and cids together: the two    *)
(* defects of add_block out of order (background.rs) are not met there.     *)
THEOREM StreamerCallsInOrder == StreamerSpec => Caller!InOrderSpec
<1>1. Init => Caller!Init
  <2> SUFFICES ASSUME Init PROVE Caller!Init
    OBVIOUS
  <2>1. WantList(exchange) = <<>>
    BY DEF Init, DefaultExchange, WantList
  <2>2. Range(WantList(exchange)) = {}
    BY <2>1 DEF Range
  <2> QED  BY <2>2, SameMethods DEF Caller!Init, Init
<1>2. HInv /\ [StreamerNext]_vars => [Caller!InOrderNext]_(Caller!vars)
  BY EventIsCall
<1> QED  BY <1>1, <1>2, HInvHolds, PTL DEF StreamerSpec, Caller!InOrderSpec

------------------------------------------------------------------------------
(* First come first served, as a want sees it: the wants without a slot,    *)
(* and those of them that came before one of theirs.                        *)
Unserved == Range(WantList(exchange)) \ pending_send_block

AheadOf(w) == {v \in Unserved : Server!Older(WantList(exchange), v, w)}

(* No want gets ahead of one that waits, and each block that is received    *)
(* leaves fewer ahead of it.                                                *)
NoneOvertakes ==
  \A w \in Unserved :
    w \in Unserved' =>
      /\ AheadOf(w)' \subseteq AheadOf(w)
      /\ (\E p \in Peers, c \in Cids : PeerReceivesBlock(p, c)) => AheadOf(w)' # AheadOf(w)

(* A want at the end of a list is not older than one of the list. *)
LEMMA OlderBeforeAppend ==
  ASSUME NEW S, NEW list \in Seq(S), NEW x \in S, NEW w \in Range(list), NEW v,
         Server!Older(Append(list, x), v, w)
  PROVE  v \in Range(list) /\ Server!Older(list, v, w)
<1> DEFINE new == Append(list, x)
<1>1. /\ Len(list) \in Nat /\ DOMAIN list = 1 .. Len(list)
      /\ DOMAIN new = 1 .. Len(list) + 1
      /\ \A i \in 1 .. Len(list) : new[i] = list[i]
  <2>1. new \in Seq(S) /\ Len(new) = Len(list) + 1 /\ \A i \in 1 .. Len(list) : new[i] = list[i]
    BY AppendProperties
  <2> HIDE DEF new
  <2> QED  BY <2>1, LenProperties
<1>2. PICK i \in DOMAIN new : new[i] = v /\ \A j \in 1 .. i : new[j] # w
  BY DEF Server!Older
<1>3. PICK k \in DOMAIN list : list[k] = w
  BY DEF Range
<1> HIDE DEF new
<1>4. i \in DOMAIN list
  BY <1>1, <1>2, <1>3
<1>5. list[i] = v /\ \A j \in 1 .. i : list[j] # w
  BY <1>1, <1>2, <1>4
<1> QED  BY <1>4, <1>5 DEF Server!Older, Range

(* K is the positions of list at which s is not. *)
AllBut(K, list, s) == K = {i \in DOMAIN list : list[i] # s}

(* The wants that are left keep their order. *)
LEMMA OlderBeforeLeft ==
  ASSUME NEW S, NEW list \in Seq(S), NEW s, NEW rest,
         NEW K, AllBut(K, list, s), IsLeft(rest, list, K),
         NEW w, w # s, NEW v, Server!Older(rest, v, w)
  PROVE  v # s /\ v \in Range(list) /\ Server!Older(list, v, w)
<1>1. /\ K \in SUBSET Nat /\ IsFiniteSet(K) /\ K \subseteq DOMAIN list
      /\ Len(list) \in Nat /\ DOMAIN list = 1 .. Len(list)
      /\ \A i \in K : list[i] # s
      /\ \A i \in DOMAIN list : list[i] # s => i \in K
  <2>1. DOMAIN list = 1 .. Len(list) /\ Len(list) \in Nat
    BY LenProperties
  <2>2. IsFiniteSet(1 .. Len(list))
    BY <2>1, FS_Interval
  <2>3. \A i \in DOMAIN list : i \in Nat
    BY <2>1
  <2> QED  BY <2>1, <2>2, <2>3, FS_Subset DEF AllBut
<1>2. DOMAIN rest = 1 .. Cardinality(K) /\ \A i \in K : rest[Rank(K, i)] = list[i]
  BY DEF IsLeft
<1>3. PICK n \in 1 .. Cardinality(K) : rest[n] = v /\ \A j \in 1 .. n : rest[j] # w
  BY <1>2 DEF Server!Older
<1>4. PICK i \in K : Rank(K, i) = n
  BY <1>1, RankIsOnto
<1>5. list[i] = v /\ i \in DOMAIN list /\ v # s
  BY <1>1, <1>2, <1>3, <1>4
<1>6. ASSUME NEW j \in 1 .. i, list[j] = w PROVE FALSE
  <2>1. j \in K /\ j <= i /\ j \in Nat /\ i \in Nat
    BY <1>1, <1>5, <1>6
  <2>2. Rank(K, j) \in 1 .. Cardinality(K) /\ Rank(K, i) \in 1 .. Cardinality(K)
    BY <1>1, <2>1, KeptFromCovers
  <2>3. Rank(K, j) <= Rank(K, i)
    <3>1. /\ Rank(K, j) = Cardinality(UpTo(K, j)) /\ Rank(K, i) = Cardinality(UpTo(K, i))
      BY DEF Rank, UpTo
    <3>2. j = i \/ j < i
      BY <2>1
    <3>3. j < i => Cardinality(UpTo(K, j)) < Cardinality(UpTo(K, i))
      BY <1>1, <2>1, UpToGrows
    <3> QED  BY <2>2, <3>1, <3>2, <3>3
  <2>4. Rank(K, j) \in 1 .. n
    BY <1>4, <2>2, <2>3
  <2> QED  BY <1>2, <1>3, <1>6, <2>1, <2>4
<1> QED  BY <1>5, <1>6 DEF Server!Older, Range

(* A want that comes is behind those that wait. *)
LEMMA WantOvertakesNone ==
  ASSUME HInv, NEW p \in Peers, NEW c \in Cids, WantOfHeldBlock(p, c),
         NEW w \in Unserved
  PROVE  AheadOf(w)' \subseteq AheadOf(w)
<1>1. /\ WellFormed(exchange) /\ exchange' = AddWant(exchange, p, c)
      /\ pending_send_block \subseteq pending_send_block'
  BY DEF HInv, IInv, WantOfHeldBlock, ReceivedWant, DispatchIfFree, Dispatch
<1>2. WantList(exchange') = Append(WantList(exchange), <<p, c>>)
  BY <1>1, AddWantList
<1>3. WantList(exchange) \in Seq(Peers \X Cids) /\ <<p, c>> \in Peers \X Cids
  BY <1>1, WantListType
<1>4. w \in Range(WantList(exchange))
  BY DEF Unserved
<1>5. ASSUME NEW v, v \in Unserved', Server!Older(WantList(exchange'), v, w)
      PROVE  v \in Unserved /\ Server!Older(WantList(exchange), v, w)
  <2>1. v \in Range(WantList(exchange)) /\ Server!Older(WantList(exchange), v, w)
    BY <1>2, <1>3, <1>4, <1>5, OlderBeforeAppend
  <2>2. v \notin pending_send_block
    BY <1>1, <1>5 DEF Unserved
  <2> QED  BY <2>1, <2>2 DEF Unserved
<1> QED  BY <1>5 DEF AheadOf

(* What stays after a cancel keeps its place, *)
LEMMA CancelOvertakesNone ==
  ASSUME HInv, NEW p \in Peers, NEW c \in Cids, ReceivedCancel(p, c),
         NEW w \in Unserved, w \in Unserved'
  PROVE  AheadOf(w)' \subseteq AheadOf(w)
<1> DEFINE K == {i \in DOMAIN WantList(exchange) : WantList(exchange)[i] # <<p, c>>}
<1>1. /\ WellFormed(exchange) /\ exchange' = RemoveWant(exchange, p, c)
      /\ pending_send_block \ {<<p, c>>} \subseteq pending_send_block'
  BY DEF HInv, IInv, ReceivedCancel, Dispatch
<1>2. /\ IsLeft(WantList(exchange'), WantList(exchange), K)
      /\ Range(WantList(exchange')) = Range(WantList(exchange)) \ {<<p, c>>}
  <2>1. /\ IsLeft(WantList(RemoveWant(exchange, p, c)), WantList(exchange), K)
        /\ Range(WantList(RemoveWant(exchange, p, c)))
             = Range(WantList(exchange)) \ {<<p, c>>}
    BY <1>1, RemoveWantList
  <2> QED  BY <1>1, <2>1
<1>3. WantList(exchange) \in Seq(Peers \X Cids)
  BY <1>1, WantListType
<1>4. w # <<p, c>>
  BY <1>2 DEF Unserved
<1>5. ASSUME NEW v, v \in Unserved', Server!Older(WantList(exchange'), v, w)
      PROVE  v \in Unserved /\ Server!Older(WantList(exchange), v, w)
  <2>1. /\ v # <<p, c>> /\ v \in Range(WantList(exchange))
        /\ Server!Older(WantList(exchange), v, w)
    <3>1. IsLeft(WantList(exchange'), WantList(exchange), K)
      BY <1>2
    <3>2. AllBut(K, WantList(exchange), <<p, c>>)
      BY DEF K, AllBut
    <3> DEFINE s == <<p, c>>
               list == WantList(exchange)
               rest == WantList(exchange')
    <3>3. /\ list \in Seq(Peers \X Cids) /\ AllBut(K, list, s)
          /\ IsLeft(rest, list, K) /\ w # s /\ Server!Older(rest, v, w)
      BY <1>3, <1>4, <1>5, <3>1, <3>2
    <3> HIDE DEF K, s, list, rest
    <3>4. v # s /\ v \in Range(list) /\ Server!Older(list, v, w)
      BY <3>3, OlderBeforeLeft
    <3> QED  BY <3>4 DEF s, list
  <2>2. v \notin pending_send_block
    BY <1>1, <1>5, <2>1 DEF Unserved
  <2> QED  BY <2>1, <2>2 DEF Unserved
<1> QED  BY <1>5 DEF AheadOf

(* and the slot that is freed goes to one ahead of those that still wait.   *)
LEMMA SlotGoesAhead ==
  ASSUME HInv, NEW p \in Peers, NEW c \in Cids, PeerReceivesBlock(p, c),
         NEW w \in Unserved, w \in Unserved'
  PROVE  \E g \in AheadOf(w) : g \in pending_send_block'
<1> DEFINE busy == pending_send_block \ {<<p, c>>}
           ex == exchange'
           K == {i \in DOMAIN WantList(exchange) : WantList(exchange)[i] # <<p, c>>}
<1>1. /\ HInv' /\ WellFormed(exchange) /\ ReceivedCancel(p, c)
      /\ exchange' = RemoveWant(exchange, p, c) /\ Dispatch(ex, busy)
      /\ pending_send_block' = busy \cup {Slot(o) : o \in NextOffer(ex, busy)}
  BY HeldCancelKeeps DEF HInv, IInv, PeerReceivesBlock, ReceivedCancel, Dispatch
<1>2. /\ WantedPositions(ex) = DOMAIN WantList(ex)
      /\ \A i \in DOMAIN WantList(ex) : Slot(Offer(ex, i)) = WantList(ex)[i]
      /\ WellFormed(ex)
  BY <1>1, AllAreWanted DEF HInv, IInv
<1>3. w \in Range(WantList(ex)) /\ w \notin pending_send_block'
  BY DEF Unserved
<1>4. w \notin busy
  BY <1>1, <1>3
<1> HIDE DEF busy, ex
<1>5. PICK k \in DOMAIN WantList(ex) : WantList(ex)[k] = w
  BY <1>3 DEF Range
<1>6. PICK o \in NextOffer(ex, busy) : TRUE
  BY <1>2, <1>4, <1>5, NextOfferProperties
<1>7. PICK i \in WantedPositions(ex) :
        /\ o = Offer(ex, i) /\ Slot(o) \notin busy
        /\ \A j \in WantedPositions(ex) : Slot(Offer(ex, j)) \notin busy => i <= j
  BY <1>6, NextOfferIsOldest
<1> DEFINE g == WantList(ex)[i]
<1>8. /\ i \in DOMAIN WantList(ex) /\ Slot(o) = g /\ g \in pending_send_block'
      /\ g \notin busy
  BY <1>1, <1>2, <1>6, <1>7
<1>9. g # w
  BY <1>3, <1>8
<1>10. Server!Older(WantList(ex), g, w)
  <2>1. DOMAIN WantList(ex) = 1 .. Len(WantList(ex)) /\ Len(WantList(ex)) \in Nat
    BY <1>2, WantListType
  <2>2. ASSUME NEW j \in 1 .. i, WantList(ex)[j] = w PROVE FALSE
    <3>1. j \in DOMAIN WantList(ex) /\ j <= i
      BY <1>8, <2>1
    <3>2. i <= j
      BY <1>2, <1>4, <1>7, <2>2, <3>1
    <3>3. i = j
      BY <1>8, <2>1, <3>1, <3>2
    <3> QED  BY <1>9, <2>2, <3>3
  <2> QED  BY <1>8, <2>2 DEF Server!Older
<1>11. /\ IsLeft(WantList(ex), WantList(exchange), K)
       /\ Range(WantList(ex)) = Range(WantList(exchange)) \ {<<p, c>>}
  <2>1. /\ IsLeft(WantList(RemoveWant(exchange, p, c)), WantList(exchange), K)
        /\ Range(WantList(RemoveWant(exchange, p, c)))
             = Range(WantList(exchange)) \ {<<p, c>>}
    BY <1>1, RemoveWantList
  <2> QED  BY <1>1, <2>1 DEF ex
<1>12. WantList(exchange) \in Seq(Peers \X Cids)
  BY <1>1, WantListType
<1> HIDE DEF g
<1>13. /\ g # <<p, c>> /\ g \in Range(WantList(exchange))
       /\ Server!Older(WantList(exchange), g, w)
  <2>1. w # <<p, c>> /\ IsLeft(WantList(ex), WantList(exchange), K)
    BY <1>3, <1>11
  <2>2. AllBut(K, WantList(exchange), <<p, c>>)
    BY DEF K, AllBut
  <2> DEFINE s == <<p, c>>
             list == WantList(exchange)
             rest == WantList(ex)
  <2>3. /\ list \in Seq(Peers \X Cids) /\ AllBut(K, list, s)
        /\ IsLeft(rest, list, K) /\ w # s /\ Server!Older(rest, g, w)
    BY <1>10, <1>12, <2>1, <2>2
  <2> HIDE DEF K, s, list, rest
  <2>4. g # s /\ g \in Range(list) /\ Server!Older(list, g, w)
    BY <2>3, OlderBeforeLeft
  <2> QED  BY <2>4 DEF s, list
<1>14. g \in Unserved
  BY <1>8, <1>13 DEF Unserved, busy
<1> QED  BY <1>8, <1>13, <1>14 DEF AheadOf

(* At the streamer a want that waits is overtaken by none, and each block a *)
(* peer receives leaves fewer wants ahead of it: as many receipts as there  *)
(* were ahead of it when it came and one more, and it is served.            *)
THEOREM NoWantIsOvertaken == StreamerSpec => [][NoneOvertakes]_vars
<1>1. HInv /\ [StreamerNext]_vars => [NoneOvertakes]_vars
  <2> SUFFICES ASSUME HInv, StreamerNext, NEW w \in Unserved, w \in Unserved'
               PROVE  /\ AheadOf(w)' \subseteq AheadOf(w)
                      /\ (\E p \in Peers, c \in Cids : PeerReceivesBlock(p, c))
                           => AheadOf(w)' # AheadOf(w)
    BY DEF NoneOvertakes
  <2>1. AheadOf(w)' \subseteq AheadOf(w)
    <3>1. ASSUME UNCHANGED pending_send_block, WantList(exchange') = WantList(exchange)
          PROVE  AheadOf(w)' = AheadOf(w)
      BY <3>1 DEF AheadOf, Unserved
    <3>2. ASSUME NEW c \in Cids, BlockAdd(c) PROVE AheadOf(w)' = AheadOf(w)
      <4>1. WantList(exchange') = WantList(exchange)
        BY <3>2, AddBlockWantList DEF BlockAdd, HInv, IInv, AllHeld
      <4> QED  BY <3>1, <3>2, <4>1 DEF BlockAdd
    <3>3. ASSUME NEW p \in Peers, ConnectionClosed(p) PROVE AheadOf(w)' = AheadOf(w)
      BY <3>1, <3>3 DEF ConnectionClosed
    <3> QED  BY <3>2, <3>3, WantOvertakesNone, CancelOvertakesNone DEF StreamerNext
  <2>2. ASSUME NEW p \in Peers, NEW c \in Cids, PeerReceivesBlock(p, c)
        PROVE  AheadOf(w)' # AheadOf(w)
    <3>1. PICK g \in AheadOf(w) : g \in pending_send_block'
      BY <2>2, SlotGoesAhead
    <3>2. g \notin AheadOf(w)'
      BY <3>1 DEF AheadOf, Unserved
    <3> QED  BY <3>1, <3>2
  <2> QED  BY <2>1, <2>2
<1> QED  BY <1>1, HInvHolds, PTL DEF StreamerSpec
================================================================================
