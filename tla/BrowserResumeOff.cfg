SPECIFICATION Spec
CONSTANTS
  Resume = FALSE
  Eager = TRUE
  Healthy = 1
  AutoDeadman = TRUE
  DefaultWindow = 2
  Windows = {0, 1}
  CanThrow = FALSE
  Ids = {1}
PROPERTIES
  ResumedIsCarried
