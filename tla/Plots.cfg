SPECIFICATION Spec
CONSTANTS
    Signals = {s1, s2}
    Units = {V, A}
    Values <- MCValues
    Gaps = {6}
    AddTime = 3
    TimeSpan = 4
    Huge = 1000
    CurveIds = {1, 2}
    MarkerIds = {m1, m2}
    NoMarker = NoMarker
    Shifts <- MCShifts
    Settle = 2
    MaxSaved = 1
    MaxSamples = 2
    MaxEdits = 2
INVARIANTS
    OneUnitPerAxis
    MarkersAreOnCurves
    EverythingIsShown
SYMMETRY MCSymmetry
