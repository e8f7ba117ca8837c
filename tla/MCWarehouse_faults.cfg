SPECIFICATION FairSpec
CONSTANTS
  Jobs = {j1, j2}
  Snapshots <- MCSnapshots
  Orders = {3}
  Subscribers = {1, 2}
  Selections <- MCSelections
  Rebuilds <- MCRebuilds
  MaxStarts = 3
  MaxIngests = 0
  MaxRebuilds = 0
  MaxFaults = 1
INVARIANTS
  GrantsAfterTransform
  GateIsHonest
PROPERTIES
  JobsEnd
CHECK_DEADLOCK FALSE
