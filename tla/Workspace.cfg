SPECIFICATION WorkspaceSpec
CONSTANTS
  Serials = {h1, h2}
  Copies = {1, 2}
  Users = {u1}
  Demos = {m1}
  Welcome = Welcome
  SourceSinkSerials = {h1}
  MaxAdds = 3
  Kinds = {"valuepanel", "xyplot", "data"}
  MaxViews = 1
  MaxRestarts = 1
INVARIANTS
  DevicesAgree
  TabsAgree
  RestoredAsLeft
CHECK_DEADLOCK FALSE
