CONSTANTS
  None = None
  code = code
  detector = detector
  h1 = h1
  h2 = h2
  Cables = {"HID", "serial"}
  Handle = {h1, h2}
  Entity = {code, detector}
  Refreshed = {code, detector}
  Quiet = {code}
  Timeout = 2
  Interval = 1
SPECIFICATION FairSpec
INVARIANTS
  TypeOK
  SilenceIsShown
  ReturnIsShown
  ClosedAtEnd
PROPERTIES
  LinkComesBack
  LoopEnds
CHECK_DEADLOCK FALSE
