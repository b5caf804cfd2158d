SPECIFICATION SupervisedSpec
CONSTANTS
  Docs = {d1}
  FastApi = {f1}
  DotNet = {}
  NoProc = NoProc
  Stale = 2
  Timeout = 1
  DbFaults = FALSE
PROPERTIES
  StrandedIsSwept
