SPECIFICATION Spec
CONSTANTS
  MaxConvs = 2
  MaxTurns = 1
  MaxSelects = 0
  Bodies <- MCBodies
  IsAdmin = FALSE
PROPERTIES
  FirstMessageKept
CHECK_DEADLOCK FALSE
