------------------------------ MODULE MCBitswap ------------------------------
(* TLC instances of Bitswap. *)
EXTENDS Bitswap, TLC

CONSTANTS p1, p2, p3, c1, c2, c3

TwoPeers   == {p1, p2}
ThreePeers == {p1, p2, p3}
TwoCids    == {c1, c2}
ThreeCids  == {c1, c2, c3}

Symmetry == Permutations(Peers) \cup Permutations(Cids)
==============================================================================
