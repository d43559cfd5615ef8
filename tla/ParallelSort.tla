---------------------------- MODULE ParallelSort ----------------------------
(****************************************************************************)
(* What the insertion sort of two parallel sequences computes: the order of *)
(* the keys, ascending, equal keys in their old order.  The loop appears    *)
(* twice in the code: insertion_sort_wants (ipfs/block_exchange.rs) and     *)
(* add_segment (video_player.rs); module InsertionSort runs it step by step *)
(* and shows that it ends with this.                                        *)
(****************************************************************************)
EXTENDS Integers, Sequences, FiniteSets

(* The place of position i in the sorted order. *)
SortedRank(keys, i) ==
  Cardinality({j \in DOMAIN keys : \/ keys[j] < keys[i]
                                   \/ keys[j] = keys[i] /\ j <= i})

(* s in the order of its keys. *)
StableSort(keys, s) ==
  [n \in DOMAIN s |-> s[CHOOSE i \in DOMAIN keys : SortedRank(keys, i) = n]]
=============================================================================
