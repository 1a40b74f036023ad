SPECIFICATION Spec
CONSTANTS
  s1 = s1
  s2 = s2
  NoSignal = NoSignal
  NoNumber = NoNumber
  Signals = {s1, s2}
  Values <- MCValues
  Gaps = {0, 1}
  Digits <- MCDigits
  Strides = {0, 1}
  MaxPacket = 2
  MaxSamples = 4
  MaxClears = 1
  MaxPanelSamples = 2
  MaxColumns = 2
  MaxUpdates = 2
  MaxResets = 2
  Overflow = 1000000000
  Factors = {2}
  Windows = {1, 2}
  TimeFrames = {0, 1}
INVARIANTS
  TableIsMerged
  ReadingsAreTrue
  MeanIsBetweenExtremes
  ResultsAreRight
  SavedInOrder
CHECK_DEADLOCK FALSE
