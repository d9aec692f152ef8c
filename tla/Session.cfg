SPECIFICATION Spec
CONSTANTS
  Sayings <- MCSayings
  Resynced <- MCResync
  Styles <- MCStyles
  Setups <- MCSetups
  Words <- MCWords
  Millis <- MCMillis
  Reserved <- MCReserved
  Opaque = {"uni", "nul"}
  MaxLen = 2
  Floors = {0, 6}
  Second = 1
  MaxSaid = 2
  MaxAttempts = 3
INVARIANTS
  HeardIsSaid RequestNamesTheLast WaitsAreThePolicys
