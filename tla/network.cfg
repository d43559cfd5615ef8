CONSTANTS
  streamer = streamer  viewer1 = viewer1  viewer2 = viewer2
  Nodes <- MCNodes
  SegmentSizes <- MCSegmentSizes
  block_size = 2
  MaxTicks = 2
  Modulus = 8
SPECIFICATION FairNetworkSpec
INVARIANTS
  NetworkTypeOK NoAddressMissed AllDialedBeforeStreaming StopTogether
  NoUnderflow SegmentIsWhole FetchIsAnswerable
PROPERTIES AllStop
CHECK_DEADLOCK FALSE
