CONSTANTS
  MaxSegments = 3
  BufferSize = 6
  Modulus = 64
  SimTicks = 5
SPECIFICATION Spec
PROPERTY SkipsOnlyIfTooFar
CHECK_DEADLOCK FALSE
