SPECIFICATION RestartingSpec
CONSTANTS
  Docs = {d1}
  FastApi = {}
  DotNet = {n1, n2}
  NoProc = NoProc
  Stale = 3
  Timeout = 2
  DbFaults = FALSE
INVARIANTS
  RowHasFile
PROPERTIES
  KeepsLifecycle
  StrandedIsSwept
