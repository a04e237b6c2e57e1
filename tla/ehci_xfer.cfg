SPECIFICATION FairSpec
CONSTANTS
  Arenas = {a1}
  NoArena = NoArena
  MaxLen = 1
  Lens = {1}
  MaxXfers = 2
  Caching = {TRUE, FALSE}
  Stopping = {TRUE, FALSE}
INVARIANTS
  TypeOK
  ScheduleIsOwned
  SuccessIsTrue
  FailuresAreReal
  RootCause
PROPERTIES
  EveryCallReturns
CHECK_DEADLOCK FALSE
