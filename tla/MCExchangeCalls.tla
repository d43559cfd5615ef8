--------------------------- MODULE MCExchangeCalls ---------------------------
(* TLC instances of ExchangeCalls. *)
EXTENDS ExchangeCalls, TLC

CONSTANTS p1, p2, c1, c2, c3

MCPeers == {p1, p2}
MCCids  == {c1, c2, c3}
Symmetry == Permutations(MCPeers) \cup Permutations(MCCids)
=============================================================================
