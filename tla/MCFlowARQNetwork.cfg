SPECIFICATION ARQSpec
CONSTANTS
  HalfSpace = 16
  WireSpace = 8
  TsSpace = 64
  RtpNum = 9
  RtpDen = 10
  NtpPerTick = 2
  RTTMin = 1
  RTTMax = 100
  RTTFloor = 1
  RingSize = 8
  MaxGap16 = 4
  BufferMin = 6
  BufferMax = 6
  ReorderBuffer = 2
  MaxRetries = 20
  MissingCounterMax = 7
  MaxNacks = 8
  NackRate = 0
  NackCadence = 1
  EchoInterval = 14
  RTTMultiplier = 0
  DecreaseStep = 10
  HighLoss = 25
  SrcWrapTicks = 1000
  Modes <- MCModes
  Payloads <- MCPayloads
  Packets = {}
  RttSamples = {}
  SenderMaxes = {}
  Instants <- SparseInstants
  Horizon = 20
  HistorySize = 8
  StartSeq = 6
  MaxNacksPerLoop = 2
  Congestion = "off"
  NoRecovery = FALSE
  StartAt = 0
  MaxPushes = 4
  MaxLosses = 1
  MaxCopies = 1
  Timely = FALSE
  MaxDelay = 1
  MaxPause = 2
PROPERTIES StreamSpec
CHECK_DEADLOCK FALSE
