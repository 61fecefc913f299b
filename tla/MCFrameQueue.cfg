CONSTANTS
  NULL = NULL
  Threads = {t1, t2, t3}
  Nodes = {n1, n2}
  MaxFrames = 3
SPECIFICATION FairSpec
INVARIANTS
  ListShape
  EndsAgree
  NoLostWakeup
  StrandedAsleep
PROPERTIES
  ImplementsChannel
  BlockedConsumerServed
