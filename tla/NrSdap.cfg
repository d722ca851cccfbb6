SPECIFICATION Spec

CONSTANTS
  Drb = {1, 2, 3}
  Qfi = {q1, q2}
  Header = {1, 2}
  Releases = 1
  Changes = 1
  MaxSent = 2

SYMMETRY Symmetry

INVARIANTS
  RulesLive


  

CHECK_DEADLOCK FALSE
