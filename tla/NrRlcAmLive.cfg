CONSTANTS
  SnModulus = 4
  SduSize <- MCFew
  TxMaxSize = 3
  RxMaxSize = 3
  MinHeader = 2
  PollPdu <- MCInfinity
  PollByte <- MCInfinity
  MaxRetxThreshold = 1
  Grants = {3}
  MaxData = 1
  MaxStatus = 1
  MaxPdus = 2
  MaxClears = 0
  Duplicates = FALSE
  Truncates = FALSE
  Discards = FALSE
SPECIFICATION FairSpec
PROPERTIES EventuallyConfirmed
CHECK_DEADLOCK FALSE
