SPECIFICATION QueueFairSpec

CONSTANTS
  Size = 3
  Producer = {p1, p2, p3}
  Consumer = c
  PerProducer = 3

INVARIANTS
  NoneStranded

PROPERTIES
  ImplementsFifo
  AllHanded

CHECK_DEADLOCK FALSE
