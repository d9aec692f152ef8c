CONSTANTS
  Everys <- MCEverys
  Ages <- MCAges
  Windows <- MCWindows
  Second = 2
  PingEverySecs = 2
  Slack = 1
  MaxHead = 2
SPECIFICATION FairSpec
INVARIANTS HeadIsWhole NothingToDoWhileParked 
PROPERTIES NothingIsSwallowed PingsOnlyInSilence Rotates StaysAudible
