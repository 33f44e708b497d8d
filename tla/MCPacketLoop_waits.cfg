CONSTANTS
  None = None
  d1 = d1
  d2 = d2
  code = code
  settings = settings
  Command = {settings}
  Details <- AllDetails
  Completion <- WithCompletion
  Waited <- WithCompletion
  Keys <- KeysOf
  MaxRetries <- BudgetOf
  AckRecords = 1
  CompleteRecords = 1
  LinkFaults = TRUE
SPECIFICATION FairSpec
PROPERTIES
  NoCallerWaitsForever
CHECK_DEADLOCK FALSE
