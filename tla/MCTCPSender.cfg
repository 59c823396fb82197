SPECIFICATION Spec
CONSTANTS
    Wrap32 = 16
    Wrap64 = 64
    MaxPayload = 2
    Isn = 14
    Capacity = 2
    StreamLen = 3
    MaxWin = 3
    Rto = 1
    MaxRetx = 1
    MaxAcks = 2
    Bogus = TRUE
INVARIANTS OutstandingContiguous RetransmissionArmed SequenceAccounting BackoffLaw
           NeverBeyondWindow ForgetsOnlyAcked
CHECK_DEADLOCK FALSE
