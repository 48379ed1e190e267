CONSTANTS
  Settings <- MCSettings
  ConfigRate = 2
  GivenRate = {9}
  FupRate = 1
  Ratio = 10
  MaxBucket = 250
  PacketSizes = {60, 1500}
  MaxClock = 1
  Word = 16777216
SPECIFICATION FairSpec
INVARIANT TypeOK
INVARIANT LimitSane
INVARIANT BitMatchesRule
INVARIANT CountersOrdered
PROPERTY LimitLifts
PROPERTY OverQuotaIsSlowed
CHECK_DEADLOCK FALSE
