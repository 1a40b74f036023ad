SPECIFICATION ViewsSpec
CONSTANTS
  Quantities = {"voltage", "current"}
  MaxPushes = 1
  MaxAdded = 0
  MaxSets = 0
  MainGroups <- MCMainGroups
  FixedPrefixes <- MCPrefixes
  MaxChannels = 0
  MaxSeen = 1
INVARIANTS
  DeviceMustExist
CHECK_DEADLOCK FALSE
