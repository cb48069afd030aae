SPECIFICATION FairSpec
CONSTANTS
  poller = "poller"
  Callers = {"poller"}
  Generations <- MountNames
  Content <- Mounts
  NoMount = NoMount
  Pairs = {"p1", "p2", "p3"}
  Certs = {"r1", "r2"}
  Expired = {"p3"}
  Authorities = {"r1", "r2"}
  MaxSwaps = 3
  NoRoot = NoRoot
  MaxMoves = 2
INVARIANTS
  ChannelTrust
PROPERTIES
  Reconnects
CHECK_DEADLOCK FALSE
