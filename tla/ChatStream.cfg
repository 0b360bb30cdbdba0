\* A stream and a plain request.
SPECIFICATION Spec
CONSTANTS
  Requests = {r1, r2}
  Streamed = {r1}
  Texts <- Bodies
INVARIANTS
  TypeOK
  Reassembled
PROPERTIES
  InterruptEnds
CHECK_DEADLOCK FALSE
