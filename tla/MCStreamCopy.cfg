SPECIFICATION FairSpec
CONSTANTS
    TypeLen = 3
    ComeLen = 2
    BufferCap = 3
    MaxCopy = 2
    SocketCap = 1
    OutputCap = 1
INVARIANTS FaultsOnlyFromOutside ExitMeansCopied
PROPERTIES CopiesBothWays CopyEnds
CHECK_DEADLOCK FALSE
