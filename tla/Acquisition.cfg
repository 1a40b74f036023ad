SPECIFICATION FairSpec
CONSTANTS
  UsesFrames = TRUE
  MaxStored = 2
  MaxFrames = 2
INVARIANTS
  NeverTerminates
  ClosedIsQuiet
  RunsOnOpenDevice
  LiveIsNotStopped
  AtMostOneAfterPause
  StampOfOwnFrame
PROPERTIES
  ImplementsRecorder
  CloseReturns
