SPECIFICATION FairSpec
CONSTANTS
  c1 = c1
  c2 = c2
  b1 = b1
  b2 = b2
  Conns = {c1}
  Bytes = {b1, b2}
  NoBytes = NoBytes
  NoRequest = NoRequest
  Unregistered = Unregistered
  NoOperation = NoOperation
  NoDeadline = NoDeadline
  ExecutionEpoch = 1
  LaunchEpoch = 1
  Rows <- AuthorityRows
  Requests <- AuthorityRequests
  Names <- InputNames
  DigestOf <- Digests
  Declared <- DeclaredDigests
  Recorded <- RecordedDigests
  MaxTime = 3
INVARIANTS
  TypeOK
  GrantedUnderAuthority
  RefusalJustified
  ProofNamesPeer
PROPERTIES
  EveryRequestAnswered
  ImplementsGate
