SPECIFICATION Spec
CONSTANTS
  Ip = {"ip1", "ip2"}
  Mac = {"m1", "m2"}
  Host <- OwnAddresses
  NoHost = NoHost
  Http = {"mhd"}
  MaxClients = 2
  MaxId = 2
  BinAuth = TRUE
  Preemptive = TRUE
  SessionTimeout = TRUE
  FupThrottle = TRUE
  AddsMayFail = FALSE
  TrustOps = {"m2"}
INVARIANTS
  TypeOK
  SessionHasAccess
CHECK_DEADLOCK FALSE
