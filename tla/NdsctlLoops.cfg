CONSTANTS
  Settings <- MCSettings
  Conn = {c1, c2, c3}
  Listen = listen
  MaxEvents = 3
  Backlog = 2
SPECIFICATION FairSpec
INVARIANT SlotsExact
INVARIANT AcceptingWithRoom
PROPERTY EverybodyAnswered
CHECK_DEADLOCK FALSE
