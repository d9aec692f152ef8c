SPECIFICATION Spec
CONSTANTS
  a = a
  b = b
  c1 = c1
  c2 = c2
  Topics <- TwoTopics
  Callers <- TwoCallers
  Capacity = 2
  Ttl = 0
  UsizeMax = 7
  Limits = {1}
  MaxSeq = 3
  MaxClock = 1
SYMMETRY Symmetric
INVARIANTS
  TypeOK
  RingsHoldTheTail
  HistoryMatches
PROPERTIES
  ExpiredHasACause
  EarliestIsRetained
  DropsOnlyForCause
  KeepsTheTrait
