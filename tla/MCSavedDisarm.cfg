SPECIFICATION FairSpec
CONSTANTS
  a1 = a1
  a2 = a2
  p1 = p1
  None = None
  Panel <- OnePanel
  Account <- TwoAccounts
  Gap = 2
  Window = 5
  Limit = 2
  MaxTime = 7
INVARIANT TypeOK
PROPERTY KeepsLimits
PROPERTY RefusedForAReason
PROPERTY RequestsEnd
