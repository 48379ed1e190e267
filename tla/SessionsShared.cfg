SPECIFICATION Spec
CONSTANTS
  Ip = {"ip1"}
  Mac = {"m1", "m2"}
  Host <- SharedAddress
  NoHost = NoHost
  Http = {"mhd"}
  MaxClients = 2
  MaxId = 2
  BinAuth = TRUE
  Preemptive = TRUE
  SessionTimeout = TRUE
  FupThrottle = TRUE
  AddsMayFail = TRUE
  TrustOps = {}
INVARIANTS
  NoUseAfterFree
  NodesAccountedFor
  OneEntryPerHost
  AccessHasSession
  ExplicitFlagTransient
PROPERTIES
  SessionLifecycle
  ImplementsPortal
  ExplicitYieldsOnlyToRequest
CHECK_DEADLOCK FALSE
