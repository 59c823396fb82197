SPECIFICATION Spec
CONSTANTS
    Wrap32 = 8
    Wrap64 = 32
    MaxCheckpoint = 23
INVARIANTS RoundTrip ClosestToCheckpoint
CHECK_DEADLOCK FALSE
