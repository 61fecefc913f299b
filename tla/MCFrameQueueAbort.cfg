CONSTANTS
  Threads = {t1, t2, t3}
  Nodes = {n1, n2}
  NULL = NULL
  MaxFrames = 2
SPECIFICATION FairSpec
PROPERTIES
  AbortReturns
