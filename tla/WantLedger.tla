----------------------------- MODULE WantLedger ------------------------------
(****************************************************************************)
(* What a block exchange promises its caller, without tables or indices: a  *)
(* list of wants in the order they came, and the set of blocks it can hand  *)
(* out.  BlockExchange implements this when its blocks arrive in the order  *)
(* ExchangeCalls!InOrderSpec asks for, and not otherwise.                   *)
(****************************************************************************)
EXTENDS Sequences, Naturals, FiniteSets

CONSTANTS Peers, Cids

VARIABLES
  wants,   \* sequence of <<peer, cid>>, first come first
  store    \* the cids whose block get_block returns

vars == <<wants, store>>

(* rest is what list has at the positions kept, in the same order. *)
IsRest(rest, list, kept) ==
  /\ DOMAIN rest = 1 .. Cardinality(kept)
  /\ \A i \in kept : rest[Cardinality({j \in kept : j <= i})] = list[i]

Init == wants = <<>> /\ store = {}

AddWant(p, c) ==
  /\ wants' = Append(wants, <<p, c>>)
  /\ UNCHANGED store

RemoveWant(p, c) ==
  /\ IsRest(wants', wants, {i \in DOMAIN wants : wants[i] # <<p, c>>})
  /\ UNCHANGED store

RemoveWants(c) ==
  /\ IsRest(wants', wants, {i \in DOMAIN wants : wants[i][2] # c})
  /\ UNCHANGED store

AddBlock(c) ==
  /\ store' = store \cup {c}
  /\ UNCHANGED wants

(* The wants of one peer come together, each peer's in their old order. *)
Sort ==
  /\ \E from \in [DOMAIN wants -> DOMAIN wants] :
       /\ wants' = [n \in DOMAIN wants |-> wants[from[n]]]
       /\ \A n \in DOMAIN wants : \E m \in DOMAIN wants : from[m] = n
       /\ \A m, n \in DOMAIN wants :
            m < n /\ wants'[m][1] = wants'[n][1] => from[m] < from[n]
  /\ \A k, m, n \in DOMAIN wants' :
       k < m /\ m < n /\ wants'[k][1] = wants'[n][1] => wants'[m][1] = wants'[k][1]
  /\ UNCHANGED store

Next ==
  \/ \E p \in Peers, c \in Cids : AddWant(p, c) \/ RemoveWant(p, c)
  \/ \E c \in Cids : RemoveWants(c) \/ AddBlock(c)
  \/ Sort

Spec == Init /\ [][Next]_vars
==============================================================================
