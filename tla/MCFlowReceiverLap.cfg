SPECIFICATION MCSpec
CONSTANTS
  HalfSpace = 4
  RTTMin = 4
  RTTMax = 8
  RTTFloor = 3
  RingSize = 2
  MaxGap16 = 4
  BufferMin = 4
  BufferMax = 12
  ReorderBuffer = 3
  MaxRetries = 2
  MissingCounterMax = 0
  MaxNacks = 1
  NackRate = 1
  NackCadence = 5
  EchoInterval = 10
  RTTMultiplier = 0
  DecreaseStep = 2
  HighLoss = 2
  NtpPerTick = 2
  SrcWrapTicks = 16
  Modes <- SourceTiming
  Payloads = {2, 6, 20, 22, 24, 25, 26, 30}
  Packets <- LapPackets
  RttSamples = {}
  SenderMaxes = {}
  Instants = {0, 5, 11, 24}
  MaxFeeds = 4
  FeedUntil = 31
  MaxTicks = 1
  MaxEchoes = 0
INVARIANTS BufferedInWindow PlayoutNeverStalls NacksNeverStall MissingBounded Accounting InOrderPlayout
CHECK_DEADLOCK FALSE
