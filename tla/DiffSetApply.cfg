\* Two calls, with retries, faults, and a user who edits meanwhile.
SPECIFICATION Spec
CONSTANTS
  old = old
  new = new
  v0 = v0
  v1 = v1
  v2 = v2
  create = create
  change = change
  clash = clash
  lost = lost
  x1 = x1
  x2 = x2
  x3 = x3
  y2 = y2
  gone = gone
  proj = proj
  Absent = Absent
  None = None
  Files = {old, new}
  Versions = {v0, v1, v2}
  HeadTree <- HeadFiles
  Diffs = {create, change, lost}
  Stored = {create, change}
  Patch <- Patches
  Requests <- ThreeRequests
  ProjectOf <- OneProject
  Tokens = {x1, x2, y2, gone}
  DiffOfToken <- TokenDiffs
  Expired = {gone}
  MaxCalls = 2
  MaxEdits = 2
  MaxFaults = 1
INVARIANTS
  TypeOK
  WholeSetApproved
  UserWorkKept
  OkIsComplete
PROPERTIES
  MembershipFrozen
CHECK_DEADLOCK FALSE
