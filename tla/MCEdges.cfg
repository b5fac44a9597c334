SPECIFICATION EdgesSpec
CONSTANTS
  m1 = m1
  m2 = m2
  m3 = m3
  None = None
  Providers = {1, 2}
  Tasks = {"t1", "t2"}
  Free = "free"
  MaxLogins = 2
  MaxTokens = 3
  MaxFaults = 1
INVARIANTS
  ChannelsAreExact
  StreamsAreExact
  CredentialsAreExact
PROPERTIES
  UpdatesAreKept
  EdgesProgress
CHECK_DEADLOCK FALSE
