CONSTANTS
  None = None
  manager = manager
  disarm = disarm
  anna = anna
  flat = flat
  house = house
  Cards = {manager, disarm}
  Manager = {manager}
  Account = {anna}
  Entity = {house, flat}
  MaxResets = 2
  MaxRequests = 2
SYMMETRY Houses
SPECIFICATION Spec
INVARIANTS
  TypeOK
  ShownIsOwn
  OneRequest
  
  NeverStuck
CHECK_DEADLOCK FALSE
