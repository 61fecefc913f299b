CONSTANTS
  MaxPayload = 5
  MaxPictures = 3
  Threads = {t1, t2}
  Pictures <- MCPictures
SPECIFICATION FairSpec
CHECK_DEADLOCK FALSE
INVARIANTS
  PacketsFit
  HeaderBits
  Contiguous
  WholePictures
PROPERTIES
  CallReturns
