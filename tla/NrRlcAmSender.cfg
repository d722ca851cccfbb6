CONSTANTS
  SnModulus = 4
  SduSize <- MCSduSize
  TxMaxSize = 4
  MinHeader = 2
  PollPdu = 2
  PollByte <- MCInfinity
  MaxRetxThreshold = 1
  Grants <- MCGrants
  MaxNacks = 1
  MaxClears = 1
  StrictPeer = TRUE
SPECIFICATION Spec
INVARIANTS
  SegmentsAccounted BufferStatusExact ConfirmedOnce
CHECK_DEADLOCK FALSE
