SPECIFICATION FairSpec
CONSTANTS
  AutoDeadman = TRUE
  DefaultWindow = 1
  Slack = 0
  Width = 8
  Frames <- MCFrames
  MaxChunk = 2
  Capacity = 2
INVARIANTS
  RequestNamesTheLast NoFalseAlarm
PROPERTIES
  Heals HalfOpenIsCaught
CHECK_DEADLOCK FALSE
