SPECIFICATION LinksSpec
CONSTANTS
  Requests = {"t1", "k1"}
  Tools = {"t1"}
  Permits = 2
  Channel = 1
  Detached = FALSE
  host = host
  hub = hub
INVARIANTS
  LinkIsHonest
  RemoteTurnsAreHonest
  RelayedLinksAreSound
PROPERTY
  LinksProgress
CHECK_DEADLOCK FALSE
