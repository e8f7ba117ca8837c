SPECIFICATION FairSpec
CONSTANTS
  r1 = r1
  r2 = r2
  r3 = r3
  c1 = c1
  c2 = c2
  p1 = p1
  Runs = {r1, r2}
  IdsOf <- BothObjects
  Kinds = {"ok", "noid"}
  MaxClock = 2
  MaxFaults = 1
  MaxActive = 2
  FullRefresh = FALSE
  LateWrites = FALSE
  SharedSeconds = FALSE
INVARIANTS
  WatermarkSafe
PROPERTIES
  RunsSettle
CHECK_DEADLOCK FALSE
