\* A client of one of two tasks, which was posted, five rows, pages of two, two cuts.
SPECIFICATION Spec
CONSTANTS
  Tasks = {mine, other}
  Posted = {mine}
  Wanted = {mine}
  After = 1
  PollLimit = 2
  None = None
  MaxRows = 5
  MaxCuts = 2
INVARIANTS
  TypeOK
PROPERTIES
  DeliveryKept
  StartHeard
CHECK_DEADLOCK FALSE
