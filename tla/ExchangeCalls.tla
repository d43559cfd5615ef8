---------------------------- MODULE ExchangeCalls ----------------------------
(****************************************************************************)
(* A BlockExchange and the calls made to it.  Its callers (the handlers of  *)
(* ipfs/background.rs and the unit tests of the module) call the methods in *)
(* any order, with genuine blocks; Spec allows exactly that.  InOrderSpec   *)
(* is the smaller set of behaviours in which a block is added only while no *)
(* other cid of the table is waiting for its data.                          *)
(****************************************************************************)
EXTENDS BlockExchange

CONSTANT MaxWants   \* bound: the longest want list a caller builds

ASSUME MaxWantsAssumption == MaxWants \in Nat

VARIABLES
  exchange,   \* the struct
  asked       \* history: the wants <<peer, cid>> added and not yet removed

vars == <<exchange, asked>>

Init == exchange = DefaultExchange /\ asked = {}

CallAddWant(p, c) ==
  /\ Len(exchange.cid_indices) < MaxWants
  /\ exchange' = AddWant(exchange, p, c)
  /\ asked' = asked \cup {<<p, c>>}

CallRemoveWant(p, c) ==
  /\ exchange' = RemoveWant(exchange, p, c)
  /\ asked' = asked \ {<<p, c>>}

CallRemoveWants(c) ==
  /\ exchange' = RemoveWants(exchange, c)
  /\ asked' = asked \ (Peers \X {c})

CallAddBlock(c) ==
  /\ exchange' = AddBlock(exchange, Genuine(c))
  /\ UNCHANGED asked

CallInsertionSortWants ==
  /\ exchange' = InsertionSortWants(exchange)
  /\ UNCHANGED asked

OtherCalls ==
  \/ \E p \in Peers, c \in Cids : CallAddWant(p, c) \/ CallRemoveWant(p, c)
  \/ \E c \in Cids : CallRemoveWants(c)
  \/ CallInsertionSortWants

Next == OtherCalls \/ \E c \in Cids : CallAddBlock(c)

Spec == Init /\ [][Next]_vars

(* A block comes while it is the only one, or nothing, that is missing. *)
InOrderNext ==
  \/ OtherCalls
  \/ \E c \in Cids : Missing(exchange) \subseteq {c} /\ CallAddBlock(c)

InOrderSpec == Init /\ [][InOrderNext]_vars

------------------------------------------------------------------------------
TypeOK ==
  /\ exchange \in Exchange
  /\ asked \subseteq Peers \X Cids

(* Whatever the calls and their order, no later call can panic on an index: *)
(* swap, remove and the index look-ups of block_exchange.rs stay in bounds. *)
IndexSafe == InBounds(exchange)

(* Neither table holds an entry twice, which is what lets position() stand  *)
(* for the entry (add_want, remove_want, remove_wants, add_block).          *)
TablesDistinct == IsInjective(exchange.peers) /\ IsInjective(exchange.cids)

(* add_block keeps every datum under its own cid exactly when no other cid  *)
(* of the table is waiting for data: with one, the swap with the last cid   *)
(* or the push behind it puts the data one cid off.                         *)
AlignmentLostOnlyOutOfOrder ==
  [][\A c \in Cids :
       CallAddBlock(c) /\ exchange' # exchange /\ Aligned(exchange)
         => (Aligned(exchange') <=> Missing(exchange) \subseteq {c})]_vars

(* What get_block returns for a cid it goes on returning, whatever is added,*)
(* removed, sorted or moved by the swap of add_block, even once the pairing *)
(* of cids and data is lost: nothing a streamer announced is taken back.    *)
DataIsKept ==
  [][\A c \in Cids : GetBlock(exchange, c) \subseteq GetBlock(exchange', c)]_vars

(* "First Cids with data then starting at index == datums.len(), Cids       *)
(* without data" (the comment on BlockExchange.cids): the data stored at an *)
(* index is that of the cid at the index.                                   *)
LayoutComment == Aligned(exchange)

(* The unit test want_exchange: iter_who_want_block yields the peers whose  *)
(* want for the cid was added and not removed.                              *)
WhoWantsIsWhoAsked ==
  \A c \in Cids : IterWhoWantBlock(exchange, c) = {p \in Peers : <<p, c>> \in asked}

(* A caller that adds blocks in order sees the abstract exchange: an        *)
(* ordered want list no other call disturbs, and every added block back.    *)
Ledger == INSTANCE WantLedger
            WITH wants <- WantList(exchange),
                 store <- {c \in Cids : GetBlock(exchange, c) = {Genuine(c)}}

ImplementsWantLedger == Ledger!Spec
==============================================================================
