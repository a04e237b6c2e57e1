SPECIFICATION Spec
CONSTANTS
  TxCount = 2
  MaxFrames = 3
  MaxInits = 2
  Caching = {FALSE}
  ReinitAt = {0, 1}
PROPERTIES
  FifoSpec
CHECK_DEADLOCK FALSE
