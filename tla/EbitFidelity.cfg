SPECIFICATION Spec
CONSTANTS
    Nodes = {"n1", "n2", "n3"}
    MaxEpoch = 1
    MaxFid = 1
    MaxRequests = 2
    MaxEbits = 3
INVARIANT NeverTheBetter
CHECK_DEADLOCK FALSE
