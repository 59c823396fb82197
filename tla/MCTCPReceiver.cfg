SPECIFICATION Spec
CONSTANTS
    Wrap32 = 12
    Wrap64 = 48
    StreamLen = 14
    Capacity = 3
    MaxSegment = 3
    MaxLag = 4
    MaxNodes = 3
    Isns = {0, 7, 11}
    Overrun = FALSE
INVARIANTS StreamIntact AcknoReadBack InWindowKept
PROPERTY RightEdgeNeverRetreats
