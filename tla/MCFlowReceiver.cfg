SPECIFICATION MCSpec
CONSTANTS
  HalfSpace = 16
  RTTMin = 4
  RTTMax = 8
  RTTFloor = 3
  RingSize = 8
  MaxGap16 = 16
  BufferMin = 10
  BufferMax = 10
  ReorderBuffer = 3
  MaxRetries = 2
  MissingCounterMax = 1
  MaxNacks = 1
  NackRate = 0
  NackCadence = 5
  EchoInterval = 60
  RTTMultiplier = 0
  DecreaseStep = 5
  HighLoss = 2
  NtpPerTick = 2
  SrcWrapTicks = 16
  Modes <- SourceAndOneWay
  Payloads = {2, 6, 20, 22, 24, 25, 26, 30}
  Packets <- WrapPackets
  RttSamples = {}
  SenderMaxes = {}
  Instants = {0, 5, 11, 31, 75}
  MaxFeeds = 4
  FeedUntil = 31
  MaxTicks = 0
  MaxEchoes = 0
INVARIANTS RTypeOK NeverOverslept HolesTracked
PROPERTIES LeavesByDelivery Drains
CHECK_DEADLOCK FALSE
