\* One call without faults or edits: two members change the same lines.
SPECIFICATION Spec
CONSTANTS
  old = old
  new = new
  v0 = v0
  v1 = v1
  v2 = v2
  create = create
  change = change
  clash = clash
  lost = lost
  x1 = x1
  x2 = x2
  x3 = x3
  y2 = y2
  gone = gone
  proj = proj
  Absent = Absent
  None = None
  Files = {old, new}
  Versions = {v0, v1, v2}
  HeadTree <- HeadFiles
  Diffs = {create, change, clash}
  Stored = {create, change, clash}
  Patch <- Patches
  Requests <- OneRequest
  ProjectOf <- OneProject
  Tokens = {x1, x2, x3}
  DiffOfToken <- TokenDiffs
  Expired = {gone}
  MaxCalls = 1
  MaxEdits = 0
  MaxFaults = 0
INVARIANTS
  RollbackRestores
CHECK_DEADLOCK FALSE
