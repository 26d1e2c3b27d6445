CONSTANTS
    Senders = {s1, s2}
    Receivers = {r1, r2}
    NumChans = 2
    Capacity = 1
    MaxSends = 1
    Latencies = {0, 3}
    Timeout = 2
    MaxRetries = 1
    MaxMessages = 3
    MaxSendTime = 1
    MaxAdded = 1
    Subjects = {s1}
    Scenarios = {"ebit_expiration", "worker_crash", "qpu_unavailable", "coherence_deadline_exceeded",
                 "quantum_link_failure", "route_degradation", "checkpoint_corruption",
                 "dropped_message", "stale_topology"}
    Budget <- Budgets
    MaxIncidents = 3
    Ids = {i1}
    Classical = {"a", "b"}
    Text <- Canonical
    MaxBlocks = 2
    Keys = {k1, k2}
    Values = {v1, v2}
    MaxReplicas = 4
    MaxFailures = 2
    Links <- TwoLinks
    ProtocolRows <- RowSequences
    Fidelities <- PairFidelities
    MaxPairs = 3
    NumSites = 4
    Wires <- ClassicalLinks
    QWires <- QuantumLinks
    Scale = 2
    Pairs <- RoutedPairs
    Avoids <- AvoidedZones
    Margin = 15
    MaxSelects = 3
    MaxHeld = 2
    Demands <- EbitDemands
    Target <- FidelityTarget
    MaxPurify = 2
    LowBits = 2
    Offset = 1
    Prime = 3
    Ceiling <- ImageCeilings
    RegBits <- NodeWidths
    Bundles <- SomeBundles
    Bounds <- BoundNodes
    Broken <- BrokenNodes
    Asked <- AllPrograms
SPECIFICATION Spec
INVARIANTS DeliveryIsCausal PlanIsOrdered PumpingImproves RoutesAreSound
           WitnessIsReference NoLostWakeup
PROPERTIES RefinesFifo ReadyIsServed ContractIsSound IncidentsEnd RecoveryIsFaithful
CHECK_DEADLOCK FALSE
