SPECIFICATION Spec
CONSTANTS
  TxCount = 2
  MaxFrames = 3
  MaxInits = 1
  Caching = {TRUE}
  ReinitAt = {0}
PROPERTIES
  SentAsAccepted
CHECK_DEADLOCK FALSE
