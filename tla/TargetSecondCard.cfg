SPECIFICATION AllSpec
CONSTANTS
    W = 5
    Pow <- MCPow
    LongMax = 67108863
    Absent = Absent
    Invalid = Invalid
    Forever = Forever
    Rejected = Rejected
    Hangs = Hangs
    Lines = {}
    Dates = {}
    Screens = {}
    Strokes = {}
    Blends = {}
    Bars = {}
    Pages <- MCTwoCards
INVARIANT SecondProgressWhole
CHECK_DEADLOCK FALSE
