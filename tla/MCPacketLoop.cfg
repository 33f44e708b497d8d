CONSTANTS
  None = None
  d1 = d1
  d2 = d2
  code = code
  settings = settings
  Command = {d1, d2, code, settings}
  Details <- AllDetails
  Completion <- WithCompletion
  Waited <- WithCompletion
  Keys <- KeysOf
  MaxRetries <- BudgetOf
  AckRecords = 1
  CompleteRecords = 2
  LinkFaults = TRUE
SPECIFICATION FairSpec
INVARIANTS
  TypeOK
  OneDetails
  EntriesBounded
  DoneNotResent
  FailureIsTruthful
PROPERTIES
  EveryCommandAnswered
CHECK_DEADLOCK FALSE
