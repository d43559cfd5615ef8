CONSTANTS
  p1 = p1  p2 = p2
  c1 = c1  c2 = c2  c3 = c3
  Peers <- MCPeers
  Cids <- MCCids
  MaxWants = 3
SPECIFICATION Spec
INVARIANT LayoutComment
