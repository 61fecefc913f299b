CONSTANTS
  MaxPulls = 2
  MaxPayload = 5
  MaxPictures = 4
  MaxFrameSize = 14
  KeyWindow = 11
  FURange = 4
  LenRange = 64
  Pictures <- MCPictures
  Inputs <- MCInputs
SPECIFICATION PlaybackSpec
CHECK_DEADLOCK FALSE
INVARIANTS
  OpenHasNAL
  BufferFits
  Tiled
  Headed
  PreparedUntilRestart
  DecoderHasSet
  ShowsLastDecoded
