CONSTANTS
  Settings <- MCSettings
  Client = {"a", "b"}
  FasLevel = 3
  MaxStarts = 2
  MaxServer = 3
SPECIFICATION FairSpec
INVARIANT CleanExit
INVARIANT AccessHasEntry
 
INVARIANT SessionsClosed
INVARIANT OneServer
PROPERTY SignalStops
CHECK_DEADLOCK FALSE
