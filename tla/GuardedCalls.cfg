\* Two servers, one of which runs the tests, and an apply command; one task,
\* one agent, a budget of two calls.
SPECIFICATION CallsSpec
CONSTANTS
  Servers = {s1, s2}
  Testers = {s1}
  Clis = {apply}
  Tasks = {task}
  Agents = {coder}
  Max = 2
  MaxCalls = 4
  MaxDeaths = 1
INVARIANTS
  TypeOK
  BudgetKept
  EarlyBlocksBounded
  RefusalsRecorded
  PassedMeansPassed
PROPERTIES
  CallsAnswered
CHECK_DEADLOCK FALSE
