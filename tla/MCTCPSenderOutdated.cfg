SPECIFICATION FairSpec
CONSTANTS
    Wrap32 = 16
    Wrap64 = 64
    MaxPayload = 2
    Isn = 14
    Capacity = 2
    StreamLen = 2
    MaxWin = 2
    Rto = 1
    MaxRetx = 1
    MaxAcks = 2
    Bogus = FALSE
PROPERTY OutdatedAcksHarmless
CHECK_DEADLOCK FALSE
