SPECIFICATION FairSpec
CONSTANTS
  RxCount = 2
  MaxFrames = 4
  MaxInits = 2
  Caching = {TRUE, FALSE}
  ReinitAt = {0}
  QuietInit = TRUE
INVARIANTS
  TypeOK
  NoOverwrite
  RingIntact
PROPERTIES
  FifoSpec
  QueueDrains
  RingFrees
CHECK_DEADLOCK FALSE
