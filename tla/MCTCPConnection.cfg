SPECIFICATION Spec
CONSTANTS
    Wrap32 = 16
    Wrap64 = 64
    Wrap16 = 8
    MaxPayload = 1
    MaxRetx = 1
    Linger = 2
    SendCapacity = 1
    Rto = 1
    Isn <- MCIsn
    Scenarios <- MCSafety
    FaultKinds = {"lose", "repeat", "overtake"}
    MaxFaults = 1
    MaxQueue = 2
    Prompt = FALSE
INVARIANTS NothingForgotten CleanCloseMeansDelivered
PROPERTIES ReliableBothWays FollowsDiagram
CHECK_DEADLOCK FALSE
