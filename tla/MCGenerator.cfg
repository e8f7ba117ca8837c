SPECIFICATION GSpec
CONSTANTS
  NFans = 2
  People <- MCPeople
  WindowStart = 1
  WindowEnd = 2
  Typos = {"none", "email"}
  MonthDays = 1
  DriftFrom = 2
  MatchDays = {2}
  Lates = {1}
  EventDays = 1
  SaleDays = 0
  ItemCounts = {2}
  StuckFiles = FALSE
  MaxRecords = 2
  MaxHousehold = 2
  MaxReached = 1
  MaxGenerations = 2
INVARIANTS
  OneGeneration
  TruthCoversRecords
  MessIsTagged
  UpdatesAreStamped
CHECK_DEADLOCK FALSE
