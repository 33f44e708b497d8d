CONSTANTS
  None = None
  Modes = {"unsplit", "partial", "split"}
  LinkFaults = TRUE
  MaxInbox = 2
  MaxRequests <- FewRequests
SPECIFICATION FairSpec
INVARIANTS
  TypeOK
  EntityShowsPanel
  ElevatedEnds
PROPERTIES
  DisarmingEnds
