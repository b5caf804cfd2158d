SPECIFICATION Spec
CONSTANTS
  MaxDocs = 2
  Deletable = {1, 2}
  MaxVisits = 2
  MaxFiles = 2
  MaxEdits = 0
  IsAdmin = FALSE
  Keyed = {}
PROPERTIES
  DeletesNamed
CHECK_DEADLOCK FALSE
