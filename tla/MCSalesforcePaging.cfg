SPECIFICATION Spec
CONSTANTS
  Ids <- MCIds
  MaxClock = 4
  PageSize = 2
  Retries = 1
  Reedits = FALSE
INVARIANTS
  NoRecordTwice
PROPERTIES
  FetchIsSnapshot
