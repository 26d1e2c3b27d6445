SPECIFICATION FairChannelSpec
CONSTANTS
    Senders = {s1, s2}
    Receivers = {r1, r2}
    NumChans = 2
    Capacity = 1
    MaxSends = 1
PROPERTY DrainedMeansEmpty
CHECK_DEADLOCK FALSE
