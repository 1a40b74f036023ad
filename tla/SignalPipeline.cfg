SPECIFICATION FairSpec
CONSTANTS
  Values = {1, 3}
  Constant = 2
  MaxBatch = 2
  MaxSamples = 4
  MaxClears = 1
  Overlap = FALSE
INVARIANTS
  CountedIsStored
  BehindIsAnnounced
  IntegralIsArea
PROPERTIES
  ImplementsMirror
  FollowsSource
CHECK_DEADLOCK FALSE
