CONSTANTS
  Visit = {1, 2}
  Tabs = 1
  Batch = {1, 2}
  Settings = {{"lose", "busy", "refuse", "again"}, {"lose", "busy", "again", "restart"}, {"busy"}}
SPECIFICATION FairSpec
INVARIANT PortalTrue
PROPERTY VerifiedServed
PROPERTY ServedAcked
