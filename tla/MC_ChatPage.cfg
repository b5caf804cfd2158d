SPECIFICATION FairSpec
CONSTANTS
  MaxConvs = 2
  MaxTurns = 2
  MaxSelects = 1
  Bodies <- MCBodies
  IsAdmin = TRUE
INVARIANTS
  TypeOK
  EventsAsSent
  ShownBelongs
  BusyIsBusy
  ShownOnce
PROPERTIES
  QuestionKept
  StreamingEnds
CHECK_DEADLOCK FALSE
