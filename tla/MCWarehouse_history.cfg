SPECIFICATION Spec
CONSTANTS
  Jobs = {j1, j2}
  Snapshots <- MCSnapshots
  Orders = {3}
  Subscribers = {1, 2}
  Selections <- MCSelections
  Rebuilds <- MCRebuilds
  MaxStarts = 3
  MaxIngests = 2
  MaxRebuilds = 1
  MaxFaults = 0
INVARIANTS
  OneCurrent
  EmailKeepsItsFan
  NightlyDelivers
PROPERTIES
  ImplementsHistory
SYMMETRY JobSymmetry
CHECK_DEADLOCK FALSE
