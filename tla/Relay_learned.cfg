SPECIFICATION FairSpec
CONSTANTS
  c1 = c1
  c2 = c2
  Conns = {c1}
  Home <- One
  Attempts <- Mixed
  NoRequest = NoRequest
  Configured = {"model", "mcp", "knowledge"}
  NoDeadline = NoDeadline
  BadDeadline = BadDeadline
  NoCall = NoCall
  AttemptDeadline = 3
  Millisecond = 1
  ReadTimeout = 1
  WriteTimeout = 2
  RelayTimeout = 2
  CallTimeout = 2
  Margin = 1
  MaxTime = 4
  MaxFaults = 2
PROPERTIES
  Learned
CHECK_DEADLOCK FALSE
