SPECIFICATION ReplicaFairSpec
CONSTANTS
  Environments <- MCEnvironments
  DotEnvs <- MCDotEnvs
  Traffic <- MCTraffic
  Slots = {s1, s2}
  Null = Null
  MaxRequests = 2
  MaxAwaits = 1
  Exchanges = 4
  SmtpTimeout = 3
  ProbeTimeout = 1
  LivenessInterval = 6
  ReadinessInterval = 2
  InitialDelay = 2
  FailureThreshold = 3
INVARIANTS
  ReplicaTypeOK
  StubsOnlyForBrokenModules
  WaitIsBounded
PROPERTIES
  StartsOrExits
  OnlyMailDisturbs
  RequestsEnd
  RotationReturns
