SPECIFICATION FairSpec

CONSTANTS
  Workers = {0, 1, 2}
  Caller = {c1}
  Batch = 3
  Rounds = 1
  DefaultElm = 2
  Main = main
  Poison = poison
  None = none

INVARIANTS
  TasksAccounted
  JoinWaits

PROPERTIES
  AllAnswered

CHECK_DEADLOCK FALSE
