CONSTANTS
  SnModulus = 6
  SduSize <- MCSduSize
  RxMaxSize = 3
  MaxClears = 1
SPECIFICATION FairSpec
INVARIANTS
  WindowOrder TriggerInWindow NothingSkipped RxSizeExact
  StatusHonest NextMissingExact
PROPERTIES MarkersMonotone GapReported
