------------------------------- MODULE Bitswap -------------------------------
(****************************************************************************)
(* The block-serving half of IpfsBackgroundService (ipfs/background.rs):    *)
(* what bitswap() does with the wants, cancels and blocks of the peers, and *)
(* the BlockAdd command.  The other half of ReceivedBlock, the reply to the *)
(* local caller of get_block, is added in module IpfsService.               *)
(*                                                                          *)
(* Peers and the bitswap behaviour are external: a want is answered by one  *)
(* send_block, and the peer reports it has the block by a ReceivedCancel.   *)
(* Nothing else frees a slot of pending_send_block: event() ignores         *)
(* ConnectionClosed, so a peer that leaves keeps its slots.                 *)
(****************************************************************************)
EXTENDS BlockExchange

CONSTANTS
  max_concurrent_send,
  MaxWants   \* bound: the longest want list the peers build up

ASSUME SendAssumption == max_concurrent_send \in Nat /\ MaxWants \in Nat

VARIABLES
  exchange,             \* block_exchange
  pending_send_block,   \* the <<peer, cid>> being sent
  sent,                 \* the send_block of the last event: {} or one offer
  gone                  \* peers whose connection closed

vars == <<exchange, pending_send_block, sent, gone>>

Offers == [peer : Peers, block : Blocks]

Slot(offer) == <<offer.peer, offer.block.cid>>

(* Mutant: the loop takes the newest want. *)
NextOfferNewest(ex, pending) ==
  LET able == {i \in WantedPositions(ex) : Slot(Offer(ex, i)) \notin pending}
  IN  {Offer(ex, i) : i \in {j \in able : \A k \in able : j >= k}}

(* The handlers' loop over iter_wanted_blocks(): insert() fails for what is *)
(* already being sent and the loop goes on, the first insert that succeeds  *)
(* is sent and the loop breaks.                                             *)
NextOffer(ex, pending) ==
  LET able == {i \in WantedPositions(ex) : Slot(Offer(ex, i)) \notin pending}
  IN  {Offer(ex, i) : i \in {j \in able : \A k \in able : j <= k}}

Dispatch(ex, pending) ==
  LET offers == NextOffer(ex, pending)
  IN  /\ sent' = offers
      /\ pending_send_block' = pending \cup {Slot(o) : o \in offers}

(* "if already sending too many blocks" return. *)
DispatchIfFree(ex, pending) ==
  IF Cardinality(pending) >= max_concurrent_send
  THEN sent' = {} /\ pending_send_block' = pending
  ELSE Dispatch(ex, pending)

------------------------------------------------------------------------------
Init ==
  /\ exchange = DefaultExchange
  /\ pending_send_block = {}
  /\ sent = {}
  /\ gone = {}

ReceivedWant(p, c) ==
  /\ p \notin gone
  /\ Len(exchange.cid_indices) < MaxWants
  /\ exchange' = AddWant(exchange, p, c)
  /\ DispatchIfFree(exchange', pending_send_block)
  /\ UNCHANGED gone

ReceivedBlock(p, c) ==
  /\ p \notin gone
  /\ exchange' = AddBlock(exchange, Genuine(c))
  /\ DispatchIfFree(exchange', pending_send_block)
  /\ UNCHANGED gone

(* Mutants: the test for "was not sending" is dropped; the slot is freed    *)
(* and not used.                                                            *)
ReceivedCancelAlwaysSends(p, c) ==
  /\ p \notin gone
  /\ exchange' = RemoveWant(exchange, p, c)
  /\ Dispatch(exchange', pending_send_block \ {<<p, c>>})
  /\ UNCHANGED gone

ReceivedCancelNoDispatch(p, c) ==
  /\ p \notin gone
  /\ exchange' = RemoveWant(exchange, p, c)
  /\ pending_send_block' = pending_send_block \ {<<p, c>>}
  /\ sent' = {}
  /\ UNCHANGED gone

(* A slot that is freed is used without looking at the limit. *)
ReceivedCancel(p, c) ==
  /\ p \notin gone
  /\ exchange' = RemoveWant(exchange, p, c)
  /\ IF <<p, c>> \in pending_send_block
     THEN Dispatch(exchange', pending_send_block \ {<<p, c>>})
     ELSE sent' = {} /\ UNCHANGED pending_send_block
  /\ UNCHANGED gone

(* Command::BlockAdd stores the block and sends nothing. *)
BlockAdd(c) ==
  /\ exchange' = AddBlock(exchange, Genuine(c))
  /\ sent' = {}
  /\ UNCHANGED <<pending_send_block, gone>>

(* ConnectionClosed: the handler does nothing, the peer says no more. *)
ConnectionClosed(p) ==
  /\ p \notin gone
  /\ gone' = gone \cup {p}
  /\ sent' = {}
  /\ UNCHANGED <<exchange, pending_send_block>>

------------------------------------------------------------------------------
(* A viewer gets wants for blocks it has, or is still fetching, or never    *)
(* heard of, and blocks in any order.                                       *)
ViewerNext ==
  \E p \in Peers :
    \/ ConnectionClosed(p)
    \/ \E c \in Cids :
         ReceivedWant(p, c) \/ ReceivedBlock(p, c) \/ ReceivedCancel(p, c)

ViewerSpec == Init /\ [][ViewerNext]_vars

(* The streamer adds its blocks before it publishes their cids, so a want   *)
(* that reaches it is for a block it has; it fetches none itself.           *)
WantOfHeldBlock(p, c) == GetBlock(exchange, c) # {} /\ ReceivedWant(p, c)

StreamerNext ==
  \/ \E c \in Cids : BlockAdd(c)
  \/ \E p \in Peers :
       \/ ConnectionClosed(p)
       \/ \E c \in Cids : WantOfHeldBlock(p, c) \/ ReceivedCancel(p, c)

StreamerSpec == Init /\ [][StreamerNext]_vars

(* A peer that stays gets the block it is sent and cancels its want. *)
PeerReceivesBlock(p, c) ==
  <<p, c>> \in pending_send_block /\ ReceivedCancel(p, c)

Fairness == \A p \in Peers, c \in Cids : WF_vars(PeerReceivesBlock(p, c))

FairStreamerSpec == StreamerSpec /\ Fairness

------------------------------------------------------------------------------
TypeOK ==
  /\ exchange \in Exchange
  /\ pending_send_block \subseteq Peers \X Cids
  /\ sent \subseteq Offers
  /\ gone \subseteq Peers

(* "Sending only couple blocks at a time" (bitswap): never more sends open  *)
(* than max_concurrent_send, although ReceivedCancel sends without looking  *)
(* at the limit and wants, cancels and blocks come in any order.            *)
SlotBound == Cardinality(pending_send_block) <= max_concurrent_send

(* With no send open, nothing that could be sent is left waiting: only a    *)
(* cancel of an open send wakes the waiting wants (bitswap, ReceivedCancel).*)
NoIdleStall ==
  pending_send_block = {} /\ max_concurrent_send > 0 => WantedPositions(exchange) = {}

(* bitswap never sends a peer a block whose slot is still taken, not even   *)
(* in the cancel that frees the slot while the peer wanted the block twice. *)
NoResend == [][\A o \in sent' : Slot(o) \notin pending_send_block]_vars

(* At the streamer every open send answers a want of the list, so there is  *)
(* a peer that can still cancel it and give the slot back.                  *)
SlotsAreWanted == pending_send_block \subseteq Range(WantList(exchange))

(* At the streamer send_block gets the peer a block whose data is the data  *)
(* of the cid it asked for, and never sends on a want that was withdrawn.   *)
SendsWhatIsWanted ==
  \A o \in sent : /\ o.block = Genuine(o.block.cid)
                  /\ Slot(o) \in Range(WantList(exchange))

(* The streamer implements the promise of the comment on bitswap(): with    *)
(* one send per event, the slots go to the oldest wants and none stays free *)
(* while a want could use it.                                               *)
Server == INSTANCE BlockServer
            WITH wants    <- WantList(exchange),
                 store    <- {c \in Cids : GetBlock(exchange, c) # {}},
                 slots    <- pending_send_block,
                 MaxSlots <- max_concurrent_send

ImplementsBlockServer == Server!Spec

(* The slots of peers that left, which nothing gives back. *)
LeakedSlots == {s \in pending_send_block : s[1] \in gone}

(* At the streamer a want is answered, unless it is withdrawn, its peer     *)
(* leaves, or peers that left hold every slot: ConnectionClosed frees none. *)
ServedUnlessSlotsLeak ==
  \A p \in Peers, c \in Cids :
    <<p, c>> \in Range(WantList(exchange))
      ~> \/ <<p, c>> \in pending_send_block
         \/ <<p, c>> \notin Range(WantList(exchange))
         \/ p \in gone
         \/ Cardinality(LeakedSlots) = max_concurrent_send
==============================================================================
