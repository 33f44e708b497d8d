CONSTANTS
  None = None
  d1 = d1
  d2 = d2
  Device = {d1, d2}
  Signal = {1}
  StaleTimeout = 1
  QueryActivity = TRUE
SPECIFICATION FairSpec
INVARIANTS
  TypeOK
  TrackedIsRegistered
  ActiveWithinARound
PROPERTIES
  SilenceEndsInactive
  KeepsReconciling
