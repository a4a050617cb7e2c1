SPECIFICATION AllSpec
CONSTANTS
    W = 5
    Pow <- MCPow
    LongMax = 67108863
    Absent = Absent
    Invalid = Invalid
    Forever = Forever
    Rejected = Rejected
    Hangs = Hangs
    Lines <- MCLines
    Dates <- MCDates
    Screens <- MCScreens
    Strokes <- MCStrokes
    Blends <- MCBlends
    Bars <- MCBars
    Pages <- MCPages
INVARIANTS
    DividesRight
    FrameAgreesWithHost
    DateIsCalendar
    PaintsRight
    TextsWhole
CHECK_DEADLOCK FALSE
