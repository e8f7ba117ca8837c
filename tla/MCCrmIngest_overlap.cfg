SPECIFICATION Spec
CONSTANTS
  r1 = r1
  r2 = r2
  r3 = r3
  c1 = c1
  c2 = c2
  p1 = p1
  Runs = {r1, r2}
  IdsOf <- TwoContacts
  Kinds = {"ok", "bad"}
  MaxClock = 3
  MaxFaults = 0
  MaxActive = 2
  FullRefresh = TRUE
  LateWrites = FALSE
  SharedSeconds = FALSE
INVARIANTS
  TypeOK
  WatermarkSafe
  ExtractInv
  LakeBacksWarehouse
  AuditAccountsForRows
PROPERTIES
  CommitCatchesUp
  RawOnlyGrows
SYMMETRY ContactAndRunSymmetry
CHECK_DEADLOCK FALSE
