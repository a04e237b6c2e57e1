SPECIFICATION FairSpec
CONSTANTS
  Size = 6
  PageSize = 2
  EraseSize = 2
  Data = {d1}
  Procs = {p1, p2}
  NoProc = NoProc
  Addrs <- MCAddrs
  Lens = {1, 3}
INVARIANTS
  TypeOK
  BusExclusive
  ReportedIsDone
  ReadSeesFlash
  OnlyTimeoutFails
PROPERTIES
  OnlyTargetChanges
  EveryCallReturns
