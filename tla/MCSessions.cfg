SPECIFICATION SessionsSpec
CONSTANTS
  k1 = k1
  NoOne = NoOne
  None = None
  Sessions = {"s1", "s2"}
  Consumers = {"c1"}
  Durable = {"c1"}
  MaxSeq = 3
  Limit = 1
INVARIANTS
  TimelineIsSound
  EventsReachTheirConsumers
  BindingsAreSound
  PoolIsSound
  ToolsRunAsOffered
PROPERTIES
  MessagesContinueTheBranch
CHECK_DEADLOCK FALSE
