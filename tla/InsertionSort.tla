---------------------------- MODULE InsertionSort ----------------------------
(****************************************************************************)
(* The insertion sort of two parallel sequences, one loop test at a time:   *)
(* insertion_sort_wants (ipfs/block_exchange.rs) over peer_indices and      *)
(* cid_indices, add_segment (video_player.rs) over segments and timestamps. *)
(* The payload of a position is the position itself, so that where it ends  *)
(* up tells equal keys apart.  Positions start at 1, so do i and j.         *)
(****************************************************************************)
EXTENDS ParallelSort

CONSTANTS MaxLen, MaxKey   \* bounds: the length of the sequences, the keys

ASSUME SortAssumption == MaxLen \in Nat /\ MaxKey \in Nat

VARIABLES
  input,      \* the keys the sort was called with
  keys, payload,
  i, j,
  pc          \* "outer" or "inner" loop test, or "done"

vars == <<input, keys, payload, i, j, pc>>

Inputs == UNION {[1 .. n -> 1 .. MaxKey] : n \in 0 .. MaxLen}

Init ==
  /\ input \in Inputs
  /\ keys = input /\ payload = [n \in DOMAIN input |-> n]
  /\ i = 2 /\ j = 1 /\ pc = "outer"

Outer ==
  /\ pc = "outer" /\ i <= Len(keys)
  /\ j' = i /\ pc' = "inner"
  /\ UNCHANGED <<input, keys, payload, i>>

Return ==
  /\ pc = "outer" /\ i > Len(keys)
  /\ pc' = "done"
  /\ UNCHANGED <<input, keys, payload, i, j>>

(* swap(j, j - 1) *)
SwapBack(s) == [s EXCEPT ![j] = s[j - 1], ![j - 1] = s[j]]

(* Mutant: equal keys are swapped too. *)
OutOfOrderOrEqual == keys[j - 1] >= keys[j]

OutOfOrder == keys[j - 1] > keys[j]

(* Mutant: the payload stays where it is. *)
InnerKeysOnly ==
  /\ pc = "inner" /\ j > 1 /\ OutOfOrder
  /\ keys' = SwapBack(keys)
  /\ j' = j - 1
  /\ UNCHANGED <<input, payload, i, pc>>

Inner ==
  /\ pc = "inner" /\ j > 1 /\ OutOfOrder
  /\ keys' = SwapBack(keys) /\ payload' = SwapBack(payload)
  /\ j' = j - 1
  /\ UNCHANGED <<input, i, pc>>

(* Mutant: `i += 1` is forgotten. *)
PlacedSame ==
  /\ pc = "inner" /\ ~(j > 1 /\ OutOfOrder)
  /\ pc' = "outer"
  /\ UNCHANGED <<input, keys, payload, i, j>>

Placed ==
  /\ pc = "inner" /\ ~(j > 1 /\ OutOfOrder)
  /\ i' = i + 1 /\ pc' = "outer"
  /\ UNCHANGED <<input, keys, payload, j>>

Next == Outer \/ Return \/ Inner \/ Placed

Spec == Init /\ [][Next]_vars

FairSpec == Spec /\ WF_vars(Next)

------------------------------------------------------------------------------
TypeOK ==
  /\ input \in Inputs
  /\ Len(keys) = Len(input) /\ keys \in [DOMAIN input -> 1 .. MaxKey]
  /\ payload \in [DOMAIN input -> DOMAIN input]
  /\ i \in 2 .. MaxLen + 2 /\ j \in 1 .. MaxLen + 1
  /\ pc \in {"outer", "inner", "done"}

(* Between any two tests the keys travel with their payload: a want keeps   *)
(* its cid (insertion_sort_wants), a segment its timestamp (add_segment).   *)
PairsKept ==
  /\ \A n \in DOMAIN input : keys[n] = input[payload[n]]
  /\ \A m, n \in DOMAIN input : payload[m] = payload[n] => m = n

(* What holds at every loop test: the pairs are kept, and behind i the keys *)
(* are in order, equal ones in their old order, but for the one at j that   *)
(* is still on its way down.                                                *)
InOrder(m, n) ==
  \/ keys[m] < keys[n]
  \/ keys[m] = keys[n] /\ payload[m] < payload[n]

LoopInvariant ==
  /\ PairsKept
  /\ pc # "inner" => \A m, n \in DOMAIN keys : m < n /\ n < i => InOrder(m, n)
  /\ pc = "inner" => \A m, n \in DOMAIN keys :
                       m < n /\ n <= i /\ n # j => InOrder(m, n)

(* The loops end with the sort that the models of their callers take.       *)
SortsStably ==
  pc = "done" =>
    /\ keys = StableSort(input, input)
    /\ payload = StableSort(input, [n \in DOMAIN input |-> n])

(* The loops end. *)
Terminates == <>(pc = "done")
==============================================================================
