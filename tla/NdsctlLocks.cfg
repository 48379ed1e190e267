CONSTANTS
  Settings <- MCSettings
  TmpMount = TRUE
  MaxFile = 2
  MaxFd = 2
SPECIFICATION FairSpec
INVARIANT TypeOK
INVARIANT OneNdsctl
INVARIANT ScriptExcludesNdsctl
INVARIANT ScriptsLockedOut
INVARIANT DescriptorsKept
PROPERTY EverybodyReturns
CHECK_DEADLOCK FALSE
