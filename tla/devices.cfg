SPECIFICATION MCSpec
CONSTANTS
  MaxCalls = 3
  MaxPlugs = 3
  Size = 3
  Retries = 2
  DeferWrites = FALSE
  Sizes = {1, 3}
  Room = 2
  CrtClkRNMax = 40
  MaxPhyCalls = 2
  MaxFlaps = 1
  Abilities <- MCAbilities
  Partners <- MCPartners
  Ports <- MCPorts
  Modes <- MCModes
  MaxBringups = 3
  MaxMet = 2
  DeadSets <- MCDeadSets
INVARIANTS
  TypesOK
  SwapIsSeen
  StableIsEnabled
  OtpReportsAreTrue
  EdidIsWhole
  ResultIsFresh
  SegmentRoundTrip
  ClipExact
  BuckExact
  LinkWasCommon
  BestModeIsRead
  ClockIsNear
  BringupTypeOK
  TraceIsTrue
  UntracedWork
CHECK_DEADLOCK FALSE
