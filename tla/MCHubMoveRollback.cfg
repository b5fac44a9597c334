SPECIFICATION Spec
CONSTANTS
  a = a
  b = b
  c = c
  Hosts = {a, b}
  First = a
  MaxMoves = 1
  MaxWrites = 1
  MaxFaults = 0
  None = None
CHECK_DEADLOCK FALSE
INVARIANTS
  ServingHubIsAssigned
