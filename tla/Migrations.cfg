\* Two processes, three starts, two kills; an empty database or one at version 7
\* with a row, and one more row to append.
SPECIFICATION Spec
CONSTANTS
  Procs = {ask, serve}
  Rows = {old, fresh}
  OldRows = {old}
  MaxStarts = 3
  MaxKills = 2
  None = None
INVARIANTS
  TypeOK
  LedgerTrue
  EventsKept
  FailuresExplained
CHECK_DEADLOCK FALSE
