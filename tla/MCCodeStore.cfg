SPECIFICATION Spec
CONSTANTS
  e1 = e1
  e2 = e2
  u1 = u1
  u2 = u2
  k1 = k1
  k2 = k2
  v1 = v1
  v2 = v2
  None = None
  Entry <- OneEntry
  User <- TwoUsers
  Key <- TwoKeys
  Value <- OneValue
  LoseKeys = FALSE
  StoreFaults = TRUE
  KeyFaults = TRUE
  FlowsMeetSetup = FALSE
  Damaged = FALSE
  ChosenModes = {"common", "personal"}
  MaxLine = 2
  MaxCrashes = 1
  MaxKeys = 1
SYMMETRY Symmetry
INVARIANT TypeOK
INVARIANT NoCodeLost
INVARIANT SettledAsConfigured
INVARIANT Recoverable
