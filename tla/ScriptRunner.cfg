SPECIFICATION FairRunnerSpec
CONSTANTS
  Editors = {e1, e2}
  Tree = Tree
  None = None
  Texts = {"saved", "changed"}
  Files = {"valid", "missing"}
  MaxRuns = 2
  MaxOpens = 2
INVARIANTS
  OwnIsChecked
PROPERTIES
  EnabledAgain
CHECK_DEADLOCK FALSE
