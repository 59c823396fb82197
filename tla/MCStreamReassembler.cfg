SPECIFICATION FairSpec
CONSTANTS
    StreamLen = 7
    Capacity = 4
    MaxNodes = 6
INVARIANTS OutputIsStream ListWellFormed
PROPERTIES AssembledAfterPush EventuallyEof
