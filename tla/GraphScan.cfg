SPECIFICATION Spec
CONSTANTS
  a = a
  b = b
  main = main
  run = run
  lib = lib
  both = both
  user = user
  Self = Self
  None = None
  Files = {a, b}
  PathOrder <- Paths
  Names = {main, run}
  Versions = {lib, both, user}
  Defs <- DefsOf
  Calls <- CallsOf
  Imports <- ImportsOf
  Size <- SizeOf
  MaxClock = 2
  MaxScans = 2
  MaxEdits = 2
INVARIANTS
  TypeOK
  SymbolsExact
  EdgesSound
  ImpactComplete
CHECK_DEADLOCK FALSE
