SPECIFICATION FairSpec
CONSTANTS
    Wrap32 = 16
    Wrap64 = 64
    Wrap16 = 8
    MaxPayload = 1
    MaxRetx = 3
    Linger = 10
    SendCapacity = 1
    Rto = 1
    Isn <- MCIsn
    Scenarios <- MCClosing
    FaultKinds = {"lose"}
    MaxFaults = 2
    MaxQueue = 6
    Prompt = TRUE
INVARIANT OneSideLingers
PROPERTY BothCloseCleanly
CHECK_DEADLOCK FALSE
