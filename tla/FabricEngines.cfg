CONSTANTS
    MaxTasks = 3
    Jobs <- SomeJobs
    Payloads = {p1}
    MaxDepth = 4
    MaxFutures = 3
    Related <- SomePairs
    MaxDrains = 2
    Slots = 3
    MaxTimers = 3
    MaxTick = 4
    MaxNesting = 2
    Items = {"a", "c"}
    Pinned = {"c"}
    First = 3
    MaxWorkers = 4
    Group <- GroupOf
    Domain <- DomainOf
    Elastic = 1
    MinSize = 1
    MaxSize = 2
    Nodes <- Graph
    Channels = {"a", "b", "c"}
    Capacity = 2
    Quantum = {"q"}
    Classical = {"t"}
    MaxActs = 3
    MaxSteps = 3
    MaxRanks = 6
    Tasks = {1, 2}
    Resources = {3}
    Futures = {4}
    RetryThreshold = 1
    StarvationThreshold = 2
    MaxCalls = 5
    NumWorkers = 3
    Shapes <- FlatShapes
    MaxChanges = 3
    MaxAttempts = 2
    MaxBspActs = 3
    MaxPlan = 2
    NumNodes = 2
    Appenders = {"a1", "a2"}
    NodeOf <- LogOf
    MaxTimes = 4
    Watched = {"w1", "w2", "w3"}
    Alpha <- Half
    Drop <- Half
    Sigma = 1
    DelayLimit = 2
    BeatLimit = 2
    Unit = 8
    Speeds = {8, 48}
    Times = {1, 7}
    Delays = {1, 3}
    MaxObserved = 4
    TargetPart <- TenPercent
    MinGrain = 2
    MaxGrain = 40
    Overheads = {0, 1, 2, 3, 5, 8, 13, 21}
    Costs = {1, 2, 3, 7}
    Window = 4
    MaxRate <- Half
    MaxTicks = 9
    NumReplicas = 3
    Kinds <- AllKinds
    Elements = {1, 2}
    MaxRounds = 3
SPECIFICATION Spec
INVARIANTS TimersFireOnce WalkIsComplete DataflowIsSafe
           AlgorithmsAgree LocatedWhereHeld LogIsCausal AdaptationIsSound SignalsAreRelative
           ReplicasConverge
PROPERTIES TasksAreSafe ThunksRunOnce DetectIsExact SuperstepsDeliver
CHECK_DEADLOCK FALSE
