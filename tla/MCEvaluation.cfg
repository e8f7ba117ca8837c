SPECIFICATION ESpec
CONSTANTS
  Refs <- MCRefs
  Profiles <- MCProfiles
  Scores = {1, 2, 3}
  Half = 1
  Review = 1
  AutoMerge = 2
  MaxScored = 2
  Truths <- MCTruths
  Thresholds <- MCThresholds
INVARIANTS
  ClustersAreComponents
  LabelsAreHonest
  TablesAgree
  GoldenSurvives
  FullFindsNoLess
  PurityTellsThePrecision
  SweepIsComparable
CHECK_DEADLOCK FALSE
