CONSTANTS
  Threads = {t1}
  MaxPayload = 5
  MaxPictures = 3
  MaxFrameSize = 60
  KeyWindow = 20
  FURange = 4
  LenRange = 128
  SeqRange = 8
  ProbationCount = 2
  MaxProbation = 3
  MaxSent = 6
  MaxLost = 1
  MaxRepeated = 1
  Windows = {0, 1}
  Bases = {5, 6, 7}
  Pictures <- MCPictures
SPECIFICATION FairSpec
CHECK_DEADLOCK FALSE
PROPERTIES
  InOrderOut
  IntactDelivered
  AllShown
