SPECIFICATION FairSpec
CONSTANTS
  Ip = {"ip1"}
  Mac = {"m1"}
  Host <- OneHost
  NoHost = NoHost
  Http = {"mhd"}
  MaxClients = 1
  MaxId = 2
  BinAuth = TRUE
  Preemptive = TRUE
  SessionTimeout = TRUE
  FupThrottle = TRUE
  AddsMayFail = FALSE
  TrustOps = {}
PROPERTIES
  SessionTimesOut
  DeadNodesFreed
  RequestsComplete
CHECK_DEADLOCK FALSE
