SPECIFICATION ControlsSpec
CONSTANTS
    MaxValue = 3
    DefaultMax = 2
    MaxChanges = 1
    MaxPosted = 2
INVARIANTS

    ShowsTheDevice
PROPERTIES
    NoEcho
CHECK_DEADLOCK FALSE
