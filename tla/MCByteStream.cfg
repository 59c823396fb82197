SPECIFICATION Spec
CONSTANTS
    Byte = {1, 2}
    Strings <- MCStrings
    Lens = {0, 1, 2, 3}
    Capacity = 2
    MaxWritten = 5
INVARIANTS TypeOK Accounting InOrderDelivery EofMeansAllRead
