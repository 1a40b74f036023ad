SPECIFICATION ViewsSpec
CONSTANTS
  Quantities = {"voltage", "current"}
  MaxPushes = 3
  MaxAdded = 1
  MaxSets = 2
  MainGroups <- MCMainGroups
  FixedPrefixes <- MCPrefixes
  MaxChannels = 1
  MaxSeen = 2
INVARIANTS
  RoutedByQuantity
  PanelCatchesUp
  TreeIsComplete
  SelectedIsShown
PROPERTIES
  PanelSettles
CHECK_DEADLOCK FALSE
