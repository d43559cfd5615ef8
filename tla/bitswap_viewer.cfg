CONSTANTS
  p1 = p1  p2 = p2  p3 = p3
  c1 = c1  c2 = c2  c3 = c3
  Peers <- TwoPeers
  Cids <- ThreeCids
  MaxWants = 3
  max_concurrent_send = 2
SYMMETRY Symmetry
SPECIFICATION ViewerSpec
INVARIANTS SlotBound NoIdleStall
PROPERTIES NoResend
CHECK_DEADLOCK FALSE
