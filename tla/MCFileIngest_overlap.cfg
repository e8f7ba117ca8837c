SPECIFICATION Spec
CONSTANTS
  r1 = r1
  r2 = r2
  f1 = f1
  f2 = f2
  f3 = f3
  v1 = v1
  v2 = v2
  vx = vx
  a = a
  b = b
  None = None
  Listing <- OneFile
  SourceOf <- TwoSources
  Versions = {v1, v2}
  GoodRows <- GoodIn
  BadRows <- BadIn
  Corrupt = {}
  Runs = {r1, r2}
  Windows <- OnlyAll
  Overlap = TRUE
  MaxDrops = 3
  MaxFaults = 1
INVARIANTS
  RegisteredRowsPresent
SYMMETRY RunSymmetry
