CONSTANTS
  Threads = {t1}
  MaxPayload = 5
  MaxPictures = 3
  MaxFrameSize = 60
  KeyWindow = 20
  FURange = 4
  LenRange = 128
  SeqRange = 8
  ProbationCount = 2
  MaxProbation = 4
  MaxSent = 6
  MaxLost = 2
  MaxRepeated = 0
  Windows = {0}
  Bases = {1}
  Pictures <- MCPictures
SPECIFICATION Spec
CHECK_DEADLOCK FALSE
INVARIANTS
  FirstKept
