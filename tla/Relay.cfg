SPECIFICATION Spec
CONSTANTS
  c1 = c1
  c2 = c2
  Conns = {c1, c2}
  Home <- Each
  Attempts <- Contending
  NoRequest = NoRequest
  Configured = {"model", "mcp"}
  NoDeadline = NoDeadline
  BadDeadline = BadDeadline
  NoCall = NoCall
  AttemptDeadline = 3
  Millisecond = 2
  ReadTimeout = 1
  WriteTimeout = 2
  RelayTimeout = 2
  CallTimeout = 2
  Margin = 1
  MaxTime = 3
  MaxFaults = 1
INVARIANTS
  TypeOK
  ActedOnce
  ConflictMeansReuse
PROPERTIES
  BegunInTime
  ImplementsCallOnce
SYMMETRY Alike
CHECK_DEADLOCK FALSE
