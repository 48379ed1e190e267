CONSTANTS
  Thread = {"main"}
  Pid = {1, 2, 3}
  Slots = 2
  PidReuse = FALSE
SPECIFICATION FairSpec
INVARIANT ChildrenTracked
INVARIANT CommandsKept
PROPERTY ZombiesCollected
