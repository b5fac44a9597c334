SPECIFICATION Spec
CONSTANTS
  a = a
  b = b
  c = c
  Hosts = {a, b, c}
  First = a
  MaxMoves = 3
  MaxWrites = 2
  MaxFaults = 2
  None = None
SYMMETRY Symmetry
CHECK_DEADLOCK FALSE
INVARIANTS
  TypeOK
  NoSplitBrain
  ArmedTargetFencesTheHub
  AcknowledgedCommandsSurvive
