SPECIFICATION Spec
CONSTANTS
  r1 = r1
  r2 = r2
  r3 = r3
  c1 = c1
  c2 = c2
  p1 = p1
  Runs = {r1, r2, r3}
  IdsOf <- TwoContacts
  Kinds = {"ok", "bad", "unstamped"}
  MaxClock = 3
  MaxFaults = 1
  MaxActive = 1
  FullRefresh = FALSE
  LateWrites = FALSE
  SharedSeconds = FALSE
INVARIANTS
  WatermarkSafe
  QuarantineNotDuplicated
  QuarantineCleared
PROPERTIES
  WatermarkNeverRegresses
SYMMETRY ContactAndRunSymmetry
CHECK_DEADLOCK FALSE
