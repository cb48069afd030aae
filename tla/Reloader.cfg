SPECIFICATION ReloaderFairSpec
CONSTANTS
  poller = "poller"
  Callers = {"poller", "operator"}
  Generations <- MountNames
  Content <- Mounts
  NoMount = NoMount
  Pairs = {"p1", "p2", "p3"}
  Certs = {"r1", "r2", "leaf"}
  Expired = {"p3"}
  Authorities = {"r1", "r2"}
  MaxSwaps = 2
INVARIANTS
  ReloaderTypeOK
  StoppedIsQuiet
PROPERTIES
  Converges
  StopEnds
