SPECIFICATION FairSpec
CONSTANTS
  r1 = r1
  r2 = r2
  f1 = f1
  f2 = f2
  f3 = f3
  v1 = v1
  v2 = v2
  vx = vx
  a = a
  b = b
  None = None
  Listing <- ThreeFiles
  SourceOf <- TwoSources
  Versions = {v1, v2, vx}
  GoodRows <- GoodIn
  BadRows <- BadIn
  Corrupt = {vx}
  Runs = {r1}
  Windows <- AllOrOne
  Overlap = FALSE
  MaxDrops = 4
  MaxFaults = 1
INVARIANTS
  TypeOK
  CleanReplace
PROPERTIES
  LakeFirst
  CatchesUp
