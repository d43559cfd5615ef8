CONSTANTS
  p1 = p1  c1 = c1  live = live
  Peers <- MCPeers
  Cids <- MCCids
  Topics <- MCTopics
  MaxWants = 1
  max_concurrent_send = 1
  MaxCalls = 3
SPECIFICATION FairServiceSpec
INVARIANTS OneStreamPerTopic SenderNotDropped
PROPERTIES PanicsOnlyForDroppedStream BlockAnswersItsGet CallReturns
CHECK_DEADLOCK FALSE
