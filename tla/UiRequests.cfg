SPECIFICATION FairSpec
CONSTANTS
  Kinds = {"view", "curve", "dialog", "channel"}
  MaxCalls = 4
INVARIANTS
  AnswersAreTrue
PROPERTIES
  CallReturns
CHECK_DEADLOCK FALSE
