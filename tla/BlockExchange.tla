---------------------------- MODULE BlockExchange ----------------------------
(****************************************************************************)
(* The BlockExchange struct of ipfs/block_exchange.rs and its methods: a    *)
(* table of peers, a table of cids, the data of some of the cids, and a     *)
(* want list kept as two parallel vectors of indices into the two tables.   *)
(*                                                                          *)
(* Every method is an operator from the struct (a record ex) to the struct  *)
(* the method leaves behind.  Vec indices start at 1 here and at 0 in the   *)
(* code, so the test `index < datums.len()` reads `index <= Len(datums)`.   *)
(*                                                                          *)
(* The bytes of a block are abstracted to the cid they hash to: random_block*)
(* (utils.rs) derives a cid from the bytes, so a block [cid, data] is       *)
(* genuine exactly when data = cid, and a table that pairs a cid with the   *)
(* bytes of another block shows as data # cid.                              *)
(****************************************************************************)
EXTENDS ParallelSort, Functions

CONSTANTS
  Peers,   \* PeerIds
  Cids     \* Cids, and the block contents they are the hash of

(* The struct.  The datums are the data of the cids with the same index. *)
Exchange ==
  [peers        : Seq(Peers),
   peer_indices : Seq(Nat),
   cid_indices  : Seq(Nat),
   cids         : Seq(Cids),
   datums       : Seq(Cids)]

DefaultExchange ==
  [peers |-> <<>>, peer_indices |-> <<>>, cid_indices |-> <<>>,
   cids |-> <<>>, datums |-> <<>>]

Blocks == [cid : Cids, data : Cids]

(* The block random_block makes: its cid is the hash of its data. *)
Genuine(c) == [cid |-> c, data |-> c]

------------------------------------------------------------------------------
(* Vec helpers.                                                             *)

(* iter().position(|item| *item == x).unwrap(); the entries of both tables  *)
(* are distinct (TablesDistinct), so the first match is the only one.       *)
Position(s, x) == CHOOSE i \in DOMAIN s : s[i] = x

(* Mutant: an entry is pushed without looking for it first. *)
PushAlways(s, x) == Append(s, x)

PushNew(s, x) == IF x \in Range(s) THEN s ELSE Append(s, x)

Swap(s, i, j) == [s EXCEPT ![i] = s[j], ![j] = s[i]]

(* The elements of s at the positions K, in order: what is left of a Vec    *)
(* once every other position has been remove()d.                            *)
Rank(K, i) == Cardinality({j \in K : j <= i})

Pick(s, K) ==
  [n \in 1 .. Cardinality(K) |-> s[CHOOSE i \in K : Rank(K, i) = n]]

------------------------------------------------------------------------------
(* Queries.                                                                 *)

(* The indices at which cids and datums are zipped together. *)
Stored(ex) == DOMAIN ex.cids \cap DOMAIN ex.datums

(* get_block: None is the empty set, Some(block) a singleton. *)
GetBlock(ex, c) ==
  {[cid |-> c, data |-> ex.datums[i]] : i \in {j \in Stored(ex) : ex.cids[j] = c}}

(* The i-th entry of the want list, as the peer and the cid it stands for. *)
WantAt(ex, i) == <<ex.peers[ex.peer_indices[i]], ex.cids[ex.cid_indices[i]]>>

WantList(ex) == [i \in DOMAIN ex.cid_indices |-> WantAt(ex, i)]

(* iter_wanted_blocks: the positions of the want list it does not filter    *)
(* out, in whose order it goes, and what it yields at one of them.          *)
WantedPositions(ex) ==
  {i \in DOMAIN ex.cid_indices : ex.cid_indices[i] <= Len(ex.datums)}

Offer(ex, i) ==
  [peer  |-> ex.peers[ex.peer_indices[i]],
   block |-> [cid  |-> ex.cids[ex.cid_indices[i]],
              data |-> ex.datums[ex.cid_indices[i]]]]

IterWhoWantBlock(ex, c) ==
  {ex.peers[ex.peer_indices[i]] :
     i \in {j \in DOMAIN ex.cid_indices : ex.cids[ex.cid_indices[j]] = c}}

------------------------------------------------------------------------------
(* Updates.                                                                 *)

AddWant(ex, p, c) ==
  LET peers == PushNew(ex.peers, p)
      cids  == PushNew(ex.cids, c)
  IN  [ex EXCEPT !.peers = peers,
                 !.cids  = cids,
                 !.peer_indices = Append(@, Position(peers, p)),
                 !.cid_indices  = Append(@, Position(cids, c))]

(* Mutant: the removals leave cid_indices alone. *)
KeepWantsOneSided(ex, K) == [ex EXCEPT !.peer_indices = Pick(@, K)]

KeepWants(ex, K) ==
  [ex EXCEPT !.peer_indices = Pick(@, K), !.cid_indices = Pick(@, K)]

(* Mutant: with its wants the cid goes too, and its data stays. *)
RemoveWantsForgets(ex, c) ==
  LET kept == KeepWants(ex, {i \in DOMAIN ex.cid_indices : ex.cids[ex.cid_indices[i]] # c})
  IN  [kept EXCEPT !.cids = SelectSeq(@, LAMBDA x : x # c)]

RemoveWants(ex, c) ==
  IF c \notin Range(ex.cids) THEN ex
  ELSE KeepWants(ex, {i \in DOMAIN ex.cid_indices :
                        ex.cid_indices[i] # Position(ex.cids, c)})

(* Mutant: the loop stops at the first want it removes, the newest. *)
RemoveWantOnce(ex, p, c) ==
  LET asked == {i \in DOMAIN ex.cid_indices : WantAt(ex, i) = <<p, c>>}
  IN  KeepWants(ex, DOMAIN ex.cid_indices \ {i \in asked : \A j \in asked : j <= i})

(* Mutant: every want of the peer goes, whatever its cid. *)
RemoveWantOfPeer(ex, p, c) ==
  IF p \notin Range(ex.peers) THEN ex
  ELSE KeepWants(ex, {i \in DOMAIN ex.peer_indices :
                        ex.peer_indices[i] # Position(ex.peers, p)})

RemoveWant(ex, p, c) ==
  IF p \notin Range(ex.peers) THEN ex
  ELSE KeepWants(ex, {i \in DOMAIN ex.peer_indices :
                        ~ /\ ex.peer_indices[i] = Position(ex.peers, p)
                          /\ ex.cids[ex.cid_indices[i]] = c})

(* Mutant: the inner loop swaps the peer indices and not the cid indices. *)
InsertionSortPeersOnly(ex) ==
  [ex EXCEPT !.peer_indices = StableSort(ex.peer_indices, @)]

InsertionSortWants(ex) ==
  [ex EXCEPT !.peer_indices = StableSort(ex.peer_indices, @),
             !.cid_indices  = StableSort(ex.peer_indices, @)]

(* Mutant: the indices are made relative to the cid that got its data, and  *)
(* underflow.                                                               *)
RemapRelative(k, i, last) == IF k = i THEN last ELSE k - i

(* The loop of add_block over cid_indices tests each entry twice: an entry  *)
(* i becomes last and, by the second test, i again.                         *)
Remap(k, i, last) ==
  LET moved == IF k = i THEN last ELSE k
  IN  IF moved = last THEN i ELSE moved

(* Mutant: the data goes to the front of datums. *)
PushFront(datums, data) == <<data>> \o datums

PushData(datums, data) == Append(datums, data)

(* add_block, case "cid is present but not data". *)
AddMissingData(ex, block) ==
  LET i    == Position(ex.cids, block.cid)
      last == Len(ex.cids)
  IN  [ex EXCEPT !.cids        = Swap(@, last, i),
                 !.cid_indices = [k \in DOMAIN @ |-> Remap(@[k], i, last)],
                 !.datums      = PushData(@, block.data)]

(* add_block, case "cid not found". *)
AddNewBlock(ex, block) ==
  [ex EXCEPT !.cids   = Append(@, block.cid),
             !.datums = PushData(@, block.data)]

AddBlock(ex, block) ==
  IF \E i \in Stored(ex) : ex.cids[i] = block.cid THEN ex
  ELSE IF block.cid \in Range(ex.cids) THEN AddMissingData(ex, block)
  ELSE AddNewBlock(ex, block)

------------------------------------------------------------------------------
(* What the struct's own comments promise.                                  *)

(* "First Cids with data then starting at index == datums.len(), Cids       *)
(* without data": the data at an index is the data of the cid there.        *)
Aligned(ex) == \A i \in Stored(ex) : ex.datums[i] = ex.cids[i]

(* The cids that are in the table for the sake of a want, without data. *)
Missing(ex) == {ex.cids[i] : i \in DOMAIN ex.cids \ DOMAIN ex.datums}

(* No method can index out of bounds: the want vectors have one length,     *)
(* their entries point into the tables, and no datum lacks a cid.           *)
InBounds(ex) ==
  /\ Len(ex.peer_indices) = Len(ex.cid_indices)
  /\ \A i \in DOMAIN ex.peer_indices : ex.peer_indices[i] \in DOMAIN ex.peers
  /\ \A i \in DOMAIN ex.cid_indices  : ex.cid_indices[i] \in DOMAIN ex.cids
  /\ Len(ex.datums) <= Len(ex.cids)
==============================================================================
