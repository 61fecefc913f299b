CONSTANTS
  MaxFrames = 2
  MaxPushes = 2
SPECIFICATION FairSpec
CHECK_DEADLOCK FALSE
INVARIANTS
  StuckNeedsSender
  NeverStale
  FirstPushPrepared
PROPERTIES
  StuckForGood
  BacklogBounded
  StopComesBack
