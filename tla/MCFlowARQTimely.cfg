SPECIFICATION ARQSpec
CONSTANTS
  HalfSpace = 16
  WireSpace = 8
  TsSpace = 16
  RtpNum = 9
  RtpDen = 10
  NtpPerTick = 2
  RTTMin = 1
  RTTMax = 100
  RTTFloor = 1
  RingSize = 8
  MaxGap16 = 4
  BufferMin = 10
  BufferMax = 10
  ReorderBuffer = 2
  MaxRetries = 20
  MissingCounterMax = 7
  MaxNacks = 8
  NackRate = 0
  NackCadence = 1
  EchoInterval = 40
  RTTMultiplier = 0
  DecreaseStep = 10
  HighLoss = 25
  SrcWrapTicks = 1000
  Modes <- MCModes
  Payloads <- MCPayloads
  Packets = {}
  RttSamples = {}
  SenderMaxes = {}
  Instants <- EveryInstant
  Horizon = 34
  HistorySize = 8
  StartSeq = 6
  MaxNacksPerLoop = 2
  Congestion = "off"
  NoRecovery = FALSE
  StartAt = 14
  MaxPushes = 3
  MaxLosses = 2
  MaxCopies = 0
  Timely = TRUE
  MaxDelay = 1
  MaxPause = 2
INVARIANTS NothingLost DecodedFaithfully
PROPERTIES HolesFilled
CHECK_DEADLOCK FALSE
