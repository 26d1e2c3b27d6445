SPECIFICATION VmInstanceSpec
CONSTANTS
    a = a
    b = b
    NoImg = NoImg
    Images = {a, b}
    Version <- MCVersion
    NumFrags = 2
    MaxTxid = 3
    MaxGen = 4
    Regs = {"r0", "r1"}
    NumCaps = 2
    Word = {0, 1}
    Mask <- Masks
    Allowlist = {"CONTROL", "ARITH", "SERVICE", "STATE", "STACK", "MEMORY"}
    Records <- Saved
    Requests = {{"SERVICE", "DIAG"}, {"CONTROL", "SERVICE", "ARITH"}}
    Menu <- Programs
    CodeCount = 2
    StackWords = 1
    Budget = 3
    ServiceBudget = 2
    MaxGenerations = 1
    LimbBits = 2
    Limbs = 3
    Messages <- Commands
    MaxFragments = 3
    MaxTx = 4
INVARIANTS RestartLoadsCommitted AckedUpdateDurable MemoryLeadsDisk ArithmeticIsExact WholeAndOnce
PROPERTIES RefinesRegister AuthorityIsGranted
CHECK_DEADLOCK FALSE
