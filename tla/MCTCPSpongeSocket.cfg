SPECIFICATION FairSpec
CONSTANTS
    InLen = 2
    OutLen = 2
    InCap = 2
    OutCap = 1
    PipeCap = 1
    MaxSegs = 2
INVARIANTS
    TypeOK
    BytesCross
    NoFault
    EofHonest
    CleanExit
PROPERTIES
    ThreadEnds
    Delivered
CHECK_DEADLOCK FALSE
