SPECIFICATION Spec
CONSTANTS
  Times = {1, 2, 3, 4}
  Scale = 12
  Levels = {1, 2}
  MaxSamples = 3
  Strict = TRUE
INVARIANTS
  CombinedIsComplete
  CombinedIsRight
  NeverThrows
CHECK_DEADLOCK FALSE
