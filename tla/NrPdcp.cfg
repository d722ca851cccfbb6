SPECIFICATION MCSpec

CONSTANTS
  Few = 5
  Type = "DRB_UM"
  SnModulus = 8
  CountModulus = 24
  HasIntegrity = FALSE
  Finite = TRUE
  N = 9
  RlcWindow = 2
  Lossy = TRUE
  Early = FALSE
  MaxEpochs = 1
  Suspends = TRUE
  Releases = TRUE
  Reconfigures = TRUE

INVARIANTS
  RxOrder
  NotGarbled
  HeldIsTimed
  SuspendedIsClean

PROPERTIES
  ImplementsService
  HeldReleased
  Arrives

CHECK_DEADLOCK FALSE
