SPECIFICATION Spec
CONSTANTS
  RxCount = 2
  MaxFrames = 3
  MaxInits = 2
  Caching = {FALSE}
  ReinitAt = {0}
  QuietInit = FALSE
PROPERTIES
  FifoSpec
CHECK_DEADLOCK FALSE
