SPECIFICATION MCSpec
CONSTANTS
  HalfSpace = 4
  NtpPerTick = 2
  RTTMin = 2
  RTTMax = 4
  RTTFloor = 1
  HistorySize = 2
  StartSeq = 6
  MaxRetries = 2
  MaxNacksPerLoop = 2
  Congestion = "normal"
  NoRecovery = FALSE
  EchoInterval = 3
  Payloads <- MCPayloads
  RelaySeqs = {7}
  Samples = {0, 9}
  MaxNackeds = 3
  MaxEchoes = 1
  Horizon = 4
INVARIANTS STypeOK RetransmitsOriginal RetriesSpaced OwnHistoryRetained
PROPERTIES ResendsOnlyAsked
CHECK_DEADLOCK FALSE
