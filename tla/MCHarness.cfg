SPECIFICATION HarnessSpec
CONSTANTS
  NoOne = NoOne
  None = None
  Tools = {"grep", "deploy", "read"}
  Native = {"read"}
  SkillTools = {"mews_read_skill"}
  Allowed = {"grep", "read"}
  HasSkills = TRUE
  MaxReloads = 1
  MaxRequests = 2
INVARIANTS
  BridgedCallsAreGated
  ProcessesEndWithTheirCall
  TaskLeavesNoActiveTurn
PROPERTIES
  AuthorityIsFixed
  ImplementsTurnStore
  HarnessProgress
CHECK_DEADLOCK FALSE
