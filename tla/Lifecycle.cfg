SPECIFICATION FairSpec
CONSTANTS
  k1 = k1
  k2 = k2
  Rejected = Rejected
  Unreadable = Unreadable
  NoComponent = NoComponent
  MaxInputs = 2
  WellFormed <- Texts
  HttpUrls = {"http://proxy"}
  HttpsUrls = {"https://proxy"}
  Documents <- Envelopes
  Configurations <- AllConfigurations
  Working <- JobConfiguration
  RunsAs = 10002
  ClientUIDs = {0, 10001}
  Clients = {k1, k2}
  Names = {"@trusted", "@candidate"}
  MaxFaults = 2
INVARIANTS
  TypeOK
  SoundIdentity
  FromEnvironment
  EnvelopeDetermines
  NotBesideSquatter
  OneSidePerUID
  CutForCause
PROPERTIES
  Stops
  Serves
CHECK_DEADLOCK FALSE
