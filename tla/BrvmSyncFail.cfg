SPECIFICATION FaultySpec
CONSTANTS
    a = a
    b = b
    NoImg = NoImg
    Images = {a, b}
    Version <- MCVersion
    NumFrags = 2
    Admit = {"SyncFail"}
    MaxTxid = 3
    MaxGen = 4
INVARIANT RestartLoadsCommitted
CHECK_DEADLOCK FALSE
