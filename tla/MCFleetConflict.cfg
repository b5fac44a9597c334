SPECIFICATION FleetSpec
CONSTANTS
  Hub = "hub"
  Machines = {"m1", "m2"}
  Names = {"n0", "n1"}
  HubName = "n0"
  Invitations = {"i1", "i2"}
  MaxFaults = 1
  MaxMoves = 1
  None = None
INVARIANTS
  EditsSurvive
CHECK_DEADLOCK FALSE
