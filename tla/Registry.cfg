SPECIFICATION Spec
CONSTANTS
  r1 = r1
  r2 = r2
  u1 = u1
  u2 = u2
  n1 = n1
  GraceMs = 1
  OfflineMs = 2
  Urls = {u1, u2}
  Names = {n1}
  Wanted <- MCWanted
  Regs = {r1, r2}
  CanThrow = TRUE
  MaxEntries = 2
  MaxStrays = 1
SYMMETRY Symm
INVARIANTS
  NamesAreCounted OpenIsMapped
  SubscribersKnow EdgeIsTold VerdictIsCurrent
PROPERTIES
  LeftIsSilent
