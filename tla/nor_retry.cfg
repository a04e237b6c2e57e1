SPECIFICATION Spec
CONSTANTS
  Size = 6
  PageSize = 2
  EraseSize = 2
  Data = {d1}
  Procs = {p1}
  NoProc = NoProc
  Addrs <- MCAddrs
  Lens = {1, 3}
INVARIANTS
  ReportedIsDoneAlways
