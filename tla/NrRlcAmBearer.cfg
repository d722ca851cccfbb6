CONSTANTS
  SnModulus = 4
  SduSize <- MCWhole
  TxMaxSize = 3
  RxMaxSize = 3
  MinHeader = 2
  PollPdu <- MCInfinity
  PollByte <- MCInfinity
  MaxRetxThreshold = 0
  Grants = {3}
  MaxData = 2
  MaxStatus = 2
  MaxPdus = 2
  MaxClears = 0
  Duplicates = TRUE
  Truncates = TRUE
  Discards = TRUE
SPECIFICATION Spec
INVARIANTS WindowsInStep
PROPERTIES ImplementsService
CHECK_DEADLOCK FALSE
