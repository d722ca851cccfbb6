CONSTANTS
  SnModulus = 4
  SduSize <- MCCut
  TxMaxSize = 3
  RxMaxSize = 3
  MinHeader = 2
  PollPdu <- MCInfinity
  PollByte <- MCInfinity
  MaxRetxThreshold = 0
  Grants = {3, 5}
  MaxData = 2
  MaxStatus = 1
  MaxPdus = 3
  MaxClears = 1
  Duplicates = TRUE
  Truncates = TRUE
  Discards = FALSE
SPECIFICATION Spec
INVARIANTS NotGarbled NotStranded
PROPERTIES ImplementsService
CHECK_DEADLOCK FALSE
