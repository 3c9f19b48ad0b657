SPECIFICATION MCSpec
CONSTANTS
  HalfSpace = 16
  RTTMin = 4
  RTTMax = 8
  RTTFloor = 3
  RingSize = 8
  MaxGap16 = 16
  BufferMin = 4
  BufferMax = 12
  ReorderBuffer = 3
  MaxRetries = 2
  MissingCounterMax = 1
  MaxNacks = 1
  NackRate = 0
  NackCadence = 5
  EchoInterval = 5
  RTTMultiplier = 1
  DecreaseStep = 2
  HighLoss = 0
  NtpPerTick = 2
  SrcWrapTicks = 16
  Modes <- RtcTiming
  Payloads = {20, 22, 24, 40}
  Packets <- HolePackets
  RttSamples <- Samples
  SenderMaxes = {3, 9, 20}
  Instants = {0, 5, 10, 20, 31}
  MaxFeeds = 3
  FeedUntil = 31
  MaxTicks = 0
  MaxEchoes = 3
INVARIANTS BufferWindow
PROPERTIES DeadlineFixed
CHECK_DEADLOCK FALSE
