SPECIFICATION MCSpec
CONSTANTS
  MaxCalls = 0
  MaxPlugs = 0
  Size = 1
  Retries = 1
  DeferWrites = FALSE
  Sizes = {1}
  Room = 1
  CrtClkRNMax = 1000
  MaxPhyCalls = 0
  MaxFlaps = 0
  Abilities <- MCAbilities
  Partners <- MCPartners
  Ports <- MCPorts
  Modes <- MCModes
  MaxBringups = 0
  MaxMet = 0
  DeadSets <- MCDeadSets
INVARIANTS
  ClockIsClosest
CHECK_DEADLOCK FALSE
