SPECIFICATION Spec
CONSTANTS
  Names = {n1, n2}
  Sentences = {s1}
  Ratings = {1}
  Scores = {1}
  MaxClock = 2
  MaxCards = 4
  MaxReviews = 2
  MaxLanguages = 1
  MaxImports = 2
INVARIANTS ScheduleIsLogged ImportedOnce
PROPERTIES HistoryArrives NothingOverwritten
CHECK_DEADLOCK FALSE
ACTION_CONSTRAINTS InPhase Small
SYMMETRY Symmetry
