SPECIFICATION FaultySpec
CONSTANTS
    a = a
    b = b
    NoImg = NoImg
    Images = {a, b}
    Version <- MCVersion
    NumFrags = 2
    Admit = {"GenWrap"}
    MaxTxid = 3
    MaxGen = 4
INVARIANT AckedUpdateDurable
CHECK_DEADLOCK FALSE
