SPECIFICATION FairSpec
CONSTANTS
  e1 = e1
  e2 = e2
  u1 = u1
  u2 = u2
  k1 = k1
  k2 = k2
  v1 = v1
  v2 = v2
  None = None
  Entry <- OneEntry
  User <- OneUser
  Key <- OneKey
  Value <- OneValue
  LoseKeys = TRUE
  StoreFaults = FALSE
  KeyFaults = TRUE
  FlowsMeetSetup = TRUE
  Damaged = TRUE
  ChosenModes = {"personal"}
  MaxLine = 1
  MaxCrashes = 1
  MaxKeys = 2
PROPERTY SetUpAgain
