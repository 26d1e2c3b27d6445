CONSTANTS
    n1 = n1
    n2 = n2
    n3 = n3
    Nodes = {n1, n2, n3}
    MaxEpoch = 1
    MaxFid = 0
    MaxRequests = 3
    MaxEbits = 5
    RowMenu <- VerifierRows
    Declarations <- DeclaredSets
    QuantumNames = {"q1", "q2", "q3", "e"}
    MaxRows = 4
    Pairs <- RowPairs
    MaxOracleQubits = 6
    NodeMenu <- StructureRows
    Entanglements <- Pairings
    MaxNodes = 4
    LineageOf <- Lineage3
    Targets <- Machines
    Delay <- RouteDelay
    Weights <- QuarterWeights
    PartCounts = {2, 3}
    Modes = {"ASAP", "ALAP", "COMMUNICATION_AWARE", "FIDELITY_AWARE", "CRITICAL_PATH"}
    MaxPlanned = 3
    NumQubits = 2
    MaxOps = 4
    CircuitRows <- CircuitMenu
    MaxCircuitRows = 3
    ShotCounts = {0, 1024}
    Summaries <- PlannerSummaries
    MemoryBudget = 256
    LocalQubits = 2
    Declared <- DeclaredTerms
    PoolSizes = {3}
    Assumed = {"independent", "correlated", "unknown_correlation", "small_error"}
    Spans = {0, 1, 3}
    Ceilings = {1, 3}
    MaxExposed = 4
SPECIFICATION ProgramSpec
SYMMETRY Symmetry
INVARIANTS AcceptedIsOwned VerdictsAreSound ConflictsAreOrdered ReportsAreTrue EbitsAccounted
           CircuitsRun SourcesAreKept
PROPERTIES TableauIsExact NoFreeEntanglement
CHECK_DEADLOCK FALSE
