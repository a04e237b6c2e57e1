SPECIFICATION FairSpec
CONSTANTS
  TxCount = 2
  MaxFrames = 4
  MaxInits = 2
  Caching = {TRUE, FALSE}
  ReinitAt = {0}
INVARIANTS
  TypeOK
  OneOwner
  DescriptorWhole
PROPERTIES
  FifoSpec
  QueueDrains
  BusyEnds
CHECK_DEADLOCK FALSE
