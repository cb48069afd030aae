SPECIFICATION FairSpec
CONSTANTS
  w1 = w1
  w2 = w2
  b1 = b1
  b2 = b2
  Workers = {w1, w2}
  Bytes = {b1, b2}
  Corrupt = Corrupt
  NoUpload = NoUpload
  NoTransfer = NoTransfer
  Uploads <- Rivals
  Classes = {"stage"}
  DigestOf <- Digests
  PrefixOf <- Prefixes
  MaxFaults = 2
INVARIANTS
  TypeOK
  AnsweredAsRequested
  RefusedForGood
PROPERTIES
  ImplementsWriteOnce
  UploadSettles
CHECK_DEADLOCK FALSE
