CONSTANTS
  MaxSegments = 5
  BufferSize = 3
  Modulus = 64
  SimTicks = 8
SPECIFICATION Spec
INVARIANTS PlayerTypeOK BufferSorted FetchingIsRunning
PROPERTIES SegmentConserved GoesBackOnlyForLate StopLastsThreeTicks SkipsToMidBuffer
CHECK_DEADLOCK FALSE
