SPECIFICATION Spec
CONSTANTS
    m1 = m1
    m2 = m2
    Markers <- MCMarkers
    NoMarker = NoMarker
    Confirmed <- MCModes
    Calls <- MCCalls
    MaxTyped = 2
    MaxHeard = 2
SYMMETRY MCSymmetry
INVARIANTS
    StartMeetsShell
    AnswersTrue
PROPERTIES
    KeepsDialogue
CHECK_DEADLOCK FALSE
