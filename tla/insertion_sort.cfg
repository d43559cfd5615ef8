CONSTANTS
  MaxLen = 5
  MaxKey = 3
SPECIFICATION FairSpec
INVARIANTS LoopInvariant SortsStably
PROPERTIES Terminates
CHECK_DEADLOCK FALSE
