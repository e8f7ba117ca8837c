SPECIFICATION Spec
CONSTANTS
  r1 = r1
  r2 = r2
  r3 = r3
  c1 = c1
  c2 = c2
  p1 = p1
  Runs = {r1, r2}
  IdsOf <- TwoContacts
  Kinds = {"ok"}
  MaxClock = 2
  MaxFaults = 0
  MaxActive = 1
  FullRefresh = FALSE
  LateWrites = TRUE
  SharedSeconds = FALSE
INVARIANTS
  WatermarkSafe
CHECK_DEADLOCK FALSE
