SPECIFICATION Spec
CONSTANTS
  Docs = {d1}
  FastApi = {f1}
  DotNet = {n1}
  NoProc = NoProc
  Stale = 3
  Timeout = 2
  DbFaults = TRUE
INVARIANTS
  IndInv
  IndexedExactlyWhenReady
  ReviewFollowsIndex
  ReadyIsEnriched
  NetWorkerNotSwept
PROPERTIES
  ReadyIsFinal
  NoSilentExit
