SPECIFICATION FairSpec
CONSTANTS
  Resume = TRUE
  Eager = TRUE
  Healthy = 1
  AutoDeadman = TRUE
  DefaultWindow = 2
  Windows = {0, 1, 3}
  CanThrow = TRUE
  Ids = {1, 2}
INVARIANTS
  TypeOK
  NeverStuck
  StatusTells
  DeadmanBelongs
  RequestNamesTheLast
  OneSource
PROPERTIES
  ResumedTells
  Heals
  HalfOpenIsCaught
