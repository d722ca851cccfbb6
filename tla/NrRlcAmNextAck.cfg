CONSTANTS
  SnModulus = 4
  SduSize <- MCLateCut
  TxMaxSize = 3
  RxMaxSize = 3
  MinHeader = 2
  PollPdu <- MCInfinity
  PollByte <- MCInfinity
  MaxRetxThreshold = 1
  Grants = {3, 5}
  MaxData = 1
  MaxStatus = 1
  MaxPdus = 2
  MaxClears = 1
  Duplicates = FALSE
  Truncates = FALSE
  Discards = FALSE
SPECIFICATION Spec
INVARIANT NextAckIsOldest
CHECK_DEADLOCK FALSE
