SPECIFICATION LimiterSpec
CHECK_DEADLOCK FALSE
CONSTANTS
  Threads = {t1, t2}
  Emails = {e1}
  Addresses = {i1}
  NoOwner = NoOwner
  Limit <- Limits
  Window = 1
  MaxDelay = 1
  MaxClock = 3
  MaxHits = 4
SYMMETRY ThreadSymmetry
INVARIANTS
  LimiterTypeOK
  InWindow
PROPERTIES
  RefusedForCause
