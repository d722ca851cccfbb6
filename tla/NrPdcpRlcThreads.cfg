SPECIFICATION Spec

CONSTANTS
  Rb = {r1}
  Mac = {m1, m2}
  Size = 2
  Sdus = 2
  Pdus = 1
  Ticks = 1
  Batch = 2
  Answers = 1
  None = None


  
  

PROPERTIES
  Drained

CHECK_DEADLOCK FALSE
