SPECIFICATION Spec
CONSTANTS
  p1 = p1
  p2 = p2
  Publishers <- OnePublisher
  Capacity = 3
  Ttl = 0
  UsizeMax = 7
  Limit = 2
  BusCapacity = 2
  RestartRaces = FALSE
  StoreFails = TRUE
  MaxEvents = 4
  MaxLost = 1
  MaxCuts = 2
  MaxCrashes = 1
  MaxRestarts = 1
  MaxWire = 2
CHECK_DEADLOCK FALSE
INVARIANTS
  TypeOK
  CursorStandsForPrefix
  NoSilentGap
PROPERTIES
  DeliveredInOrder
