SPECIFICATION FairSpec
CONSTANTS
  Docs = {d1}
  FastApi = {f1}
  DotNet = {n1}
  NoProc = NoProc
  Stale = 2
  Timeout = 1
  DbFaults = TRUE
PROPERTIES
  WorkerEnds
