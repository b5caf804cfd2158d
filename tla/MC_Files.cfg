SPECIFICATION Spec
CONSTANTS
  MaxDocs = 2
  Deletable = {1, 2}
  MaxVisits = 2
  MaxFiles = 2
  MaxEdits = 1
  IsAdmin = TRUE
  Keyed = {"gemini"}
INVARIANTS
  TypeOK
  CardsAreTrue
  DialogIsOfSelected
  NothingAbandoned
  OneDocumentPerFile
  SentAsShown
PROPERTIES
  PollKeepsEnd
CHECK_DEADLOCK FALSE
