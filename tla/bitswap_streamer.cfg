CONSTANTS
  p1 = p1  p2 = p2  p3 = p3
  c1 = c1  c2 = c2  c3 = c3
  Peers <- TwoPeers
  Cids <- TwoCids
  MaxWants = 4
  max_concurrent_send = 2
SPECIFICATION FairStreamerSpec
INVARIANTS SlotsAreWanted SendsWhatIsWanted
PROPERTIES ImplementsBlockServer ServedUnlessSlotsLeak
