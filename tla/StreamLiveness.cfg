SPECIFICATION FairSpec
CONSTANTS
  p1 = p1
  p2 = p2
  Publishers <- OnePublisher
  Capacity = 2
  Ttl = 0
  UsizeMax = 7
  Limit = 2
  BusCapacity = 1
  RestartRaces = FALSE
  StoreFails = FALSE
  MaxEvents = 3
  MaxLost = 1
  MaxCuts = 2
  MaxCrashes = 1
  MaxRestarts = 0
  MaxWire = 2
CHECK_DEADLOCK FALSE
PROPERTIES
  EventuallyKnown
