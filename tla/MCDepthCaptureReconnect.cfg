SPECIFICATION Spec
CONSTANTS
  Levels <- MCLevels
  MaxId = 3
  Lost = Lost
  Markets <- MCMarkets
  BufferCap = 2
  MaxAttempts = 2
  Stride = 2
  ChannelCap = 2
  CommandCap = 1
  MaxEpochs = 2
  MaxReconnects = 1
INVARIANT RecordingIsBacked
CHECK_DEADLOCK FALSE
