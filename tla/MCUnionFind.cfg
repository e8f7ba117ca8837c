SPECIFICATION Spec
CONSTANTS
  Items <- MCItems
INVARIANTS
  UnionFindInv
PROPERTIES
  IsPartition
