SPECIFICATION Spec
CONSTANTS
  MaxCalls = 2
  Retries = 2
  DeferWrites = TRUE
INVARIANTS
  EdidIsWhole
CHECK_DEADLOCK FALSE
