SPECIFICATION Spec
CONSTANTS
  p1 = p1
  p2 = p2
  Publishers <- TwoPublishers
  Capacity = 3
  Ttl = 0
  UsizeMax = 7
  Limit = 2
  BusCapacity = 2
  RestartRaces = FALSE
  StoreFails = FALSE
  MaxEvents = 3
  MaxLost = 0
  MaxCuts = 2
  MaxCrashes = 0
  MaxRestarts = 0
  MaxWire = 2
CHECK_DEADLOCK FALSE
INVARIANTS
  NoSilentGap
