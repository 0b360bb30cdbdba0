\* Two API handlers and one MCP tool call, two diffs of two projects, the key
\* file in place, the clock standing still.
SPECIFICATION Spec
SYMMETRY Symmetry
CONSTANTS
  cli1 = cli1
  cli2 = cli2
  api1 = api1
  api2 = api2
  mcp1 = mcp1
  d1 = d1
  d2 = d2
  pA = pA
  pB = pB
  coder = coder
  t1 = t1
  None = None
  Torn = Torn
  Procs = {api1, api2, mcp1}
  Mode <- ModeAll
  Diffs = {d1, d2}
  ProjectOf <- ProjectOfAll
  TaskOf <- TaskOfAll
  Agents = {coder}
  CliAgent = coder
  Tasks = {t1}
  Keys = {k1}
  Tokens = {x1, x2}
  Reasons = {conflict}
  InitialKey = k1
  TTL = 0
  Grace = 0
  MaxClock = 0
INVARIANTS
  AppliesWithinApprovals
  GitSerialPerServer
CHECK_DEADLOCK FALSE
