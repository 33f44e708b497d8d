CONSTANTS
  None = None
  c1 = c1
  detector = detector
  Code = {c1}
  Device = {detector}
  Registered = {detector}
  Flag = {"battery"}
  MaxBacklog = 2
  MaxOwed = 1
SPECIFICATION FairSpec
INVARIANTS
  TypeOK
  UsesAreTrue
  FlagsAreTrue
PROPERTIES
  InOrder
  TakenUp
CHECK_DEADLOCK FALSE
