CONSTANTS
    Every <- MCEvery
    OfflineAfter = 2
    Back = 1
    PauseMax = 2
    Readings = {"pair", "long"}
    AgeMax = 4
    LineMax = 5
    Nothing = Nothing
    WireMax = 10
    Lossy = 2
    MaxQuits = 1
SPECIFICATION Spec
INVARIANT ShownWhole
CHECK_DEADLOCK FALSE
PROPERTIES FreshIsRecent OutageShown QuitStops
