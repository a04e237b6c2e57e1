SPECIFICATION Spec
CONSTANTS
  Arenas = {a1}
  NoArena = NoArena
  MaxLen = 1
  Lens = {1}
  MaxXfers = 1
  Caching = {FALSE}
  Stopping = {FALSE}
INVARIANTS
  NoDmaAfterFree
CHECK_DEADLOCK FALSE
