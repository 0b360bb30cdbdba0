\* Two CLI processes make the first two approvals: who has the signing key?
SPECIFICATION Spec
SYMMETRY FreshSymmetry
CONSTANTS
  cli1 = cli1
  cli2 = cli2
  api1 = api1
  api2 = api2
  mcp1 = mcp1
  d1 = d1
  d2 = d2
  pA = pA
  pB = pB
  coder = coder
  t1 = t1
  None = None
  Torn = Torn
  Procs = {cli1, cli2}
  Mode <- ModeAll
  Diffs = {d1}
  ProjectOf <- ProjectOfAll
  TaskOf <- TaskOfAll
  Agents = {coder}
  CliAgent = coder
  Tasks = {t1}
  Keys = {k1, k2}
  Tokens = {x1, x2}
  Reasons = {conflict}
  InitialKey = None
  TTL = 0
  Grace = 0
  MaxClock = 0
INVARIANTS
  PersistedTokenVerifies
CHECK_DEADLOCK FALSE
