----------------------------- MODULE BlockServer -----------------------------
(****************************************************************************)
(* What the comment of IpfsBackgroundService::bitswap promises the peers of *)
(* a node: "First come first served. Sending only couple blocks at a time." *)
(*                                                                          *)
(* The node keeps the wants in the order they came and at most MaxSlots     *)
(* sends open.  After every event the free slots go to the oldest wants it  *)
(* can serve, and a slot stays free only if there is none.                  *)
(****************************************************************************)
EXTENDS Naturals, Sequences, FiniteSets

CONSTANTS Peers, Cids, MaxSlots

VARIABLES
  wants,   \* sequence of <<peer, cid>>, first come first
  store,   \* the cids whose blocks the node holds
  slots    \* the <<peer, cid>> being sent

vars == <<wants, store, slots>>

Entries(list) == {list[i] : i \in DOMAIN list}

(* a came before b: some entry of a is ahead of every entry of b. *)
Older(list, a, b) ==
  \E i \in DOMAIN list : list[i] = a /\ \A j \in 1 .. i : list[j] # b

(* The slots of busy stay, the oldest wants that can be served get the free *)
(* ones.                                                                    *)
Fill(list, busy) ==
  LET able    == {w \in Entries(list) : w[2] \in store} \ busy
      granted == slots' \ busy
      waiting == able \ granted
  IN  /\ busy \subseteq slots' /\ granted \subseteq able
      /\ Cardinality(slots') <= MaxSlots
      /\ waiting # {} => Cardinality(slots') = MaxSlots
      /\ \A g \in granted, w \in waiting : Older(list, g, w)

Init == wants = <<>> /\ store = {} /\ slots = {}

Want(p, c) ==
  /\ wants' = Append(wants, <<p, c>>)
  /\ Fill(wants', slots)
  /\ UNCHANGED store

(* rest is list without the entries w, the others in the same order. *)
IsWithout(rest, list, w) ==
  LET kept == {i \in DOMAIN list : list[i] # w}
  IN  /\ DOMAIN rest = 1 .. Cardinality(kept)
      /\ \A i \in kept : rest[Cardinality({j \in kept : j <= i})] = list[i]

(* The peer has the block, or no longer wants it. *)
Cancel(p, c) ==
  /\ IsWithout(wants', wants, <<p, c>>)
  /\ Fill(wants', slots \ {<<p, c>>})
  /\ UNCHANGED store

Hold(c) ==
  /\ store' = store \cup {c}
  /\ UNCHANGED <<wants, slots>>

Next ==
  \/ \E p \in Peers, c \in Cids : Want(p, c) \/ Cancel(p, c)
  \/ \E c \in Cids : Hold(c)

Spec == Init /\ [][Next]_vars
==============================================================================
