SPECIFICATION LowLevelSpec
CONSTANTS
  N = 2
  LimitMotors = {0}
  MaxRound = 4
  LoadSize = 2
  Nobody = Nobody
  Priority <- MCPriority
  Period <- MCPeriod
  PassTime = 1
  Lag = 3
  CRC16 <- crc16_ccitt
  Messages <- MCMessages
  None <- MCNone
  Noise = {0, 40, 170}
  BufferSize = 40
  FrameNums = 2
  Damages = 2
INVARIANTS
  PublishedIsCurrent DisabledIsOff StoppedIsOff PipelineNotStuck
  NoneFallsBehind
  ResyncBound
PROPERTIES
  ImplementsHandoff
  LeadersRunFirst
  ImplementsLink
