SPECIFICATION FairSequenceSpec
CONSTANTS
  Outputs = {1, 2}
  Counts = {1, 2}
  MaxRows = 3
  MaxEdits = 5
INVARIANTS
  PlaysExactly
PROPERTIES
  FiniteRunEnds
CHECK_DEADLOCK FALSE
