SPECIFICATION Spec
CONSTANTS
  c1 = c1
  c2 = c2
  b1 = b1
  b2 = b2
  Conns = {c1, c2}
  Bytes = {b1, b2}
  NoBytes = NoBytes
  NoRequest = NoRequest
  Unregistered = Unregistered
  NoOperation = NoOperation
  NoDeadline = NoDeadline
  ExecutionEpoch = 1
  LaunchEpoch = 1
  Rows <- SharingRows
  Requests <- SharingRequests
  Names <- InputNames
  DigestOf <- Digests
  Declared <- DeclaredDigests
  Recorded <- RecordedDigests
  MaxTime = 0
INVARIANTS
  ServedAsDeclared
  ResultsAgree
PROPERTIES
  OnlyTrustedActs
  StagedStays
SYMMETRY Swap
