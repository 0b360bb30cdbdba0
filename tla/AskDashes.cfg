SPECIFICATION Spec
CONSTANTS
  a = a
  s = s
  f1 = f1
  f2 = f2
  x1 = x1
  x2 = x2
  x3 = x3
  x4 = x4
  y = y
  None = None
  Asks = {a}
  Serves = {s}
  Launchers = {a, s}
  Ports = {1, 2}
  MaxPolls = 2
  Args <- CommandLines
  Profiles <- BothProfiles
  SavedProfiles = {"precise", "readonly"}
  SavedModels = {"local-coder-fast", "remote-adapter"}
  Registries <- TwoRegistries
  Files = {f1, f2}
  Lines = {x1, x2, x3, x4, y}
  Content <- FourLines
  DashLines = {x2, x3, x4}
  PlusLines = {}
  Responses <- Answers
  MinOriginal = 4
  Seconds = {1}
  Earlier <- OneRow
  MaxEdits = 2
INVARIANT DestructiveRefused
CHECK_DEADLOCK FALSE
