SPECIFICATION Spec
CONSTANTS
  poller = "poller"
  Callers = {"poller"}
  Generations <- MountNames
  Content <- Mounts
  NoMount = NoMount
  Pairs = {"p1", "p2", "p3"}
  Certs = {"r1", "r2", "leaf"}
  Expired = {}
  Authorities = {"r1", "r2"}
  NoConn = NoConn
  NoRoot = NoRoot
  c1 = c1
  c2 = c2
  h1 = h1
  h2 = h2
  q1 = q1
  q2 = q2
  MaxSwaps = 2
  Conns = {}
  Pool = {h1, h2}
  Calls = {q1, q2}
PROPERTIES
  NextCallUnderCurrentTrust
