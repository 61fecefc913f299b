CONSTANTS
  MaxFrames = 5
  MaxRecords = 3
SPECIFICATION FairSpec
CHECK_DEADLOCK FALSE
INVARIANTS
  
  LateBounded
PROPERTIES
  TrailerBetweenFrames
  StopReturns
