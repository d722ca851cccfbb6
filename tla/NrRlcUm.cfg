CONSTANTS
  SnModulus = 4
  SduSize <- MCMixed
  SnHeader = 0
  RxMaxSize = 6
  TxMaxSize = 8
  Grants = {4}
  MaxData = 3
  MaxClears = 1
  Discards = TRUE
SPECIFICATION FairSpec
CHECK_DEADLOCK FALSE
INVARIANTS
  WindowOrder DeliveredOnce BufferStatusExact
PROPERTIES ImplementsService GapResolved
