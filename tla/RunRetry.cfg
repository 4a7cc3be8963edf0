SPECIFICATION Spec
CONSTANTS
    a1 = a1
    a2 = a2
    a3 = a3
    w1 = w1
    w2 = w2
    NoFence = NoFence
    Activities <- TwoActivities
    Predecessors <- ParallelPlan
    Compensable = {a1}
    Workers <- TwoWorkers
    NonCompensatable = {}
    Legacy = {}
    MaxGeneration = 2
    MaxRuns = 2
    ResultKinds = {"succeeded", "failed", "uncertain"}
    Resolutions = {"failed"}
    MaxObservers = 1
SYMMETRY WorkerSymmetry
CONSTRAINTS Undisturbed RacedInTurn
CHECK_DEADLOCK FALSE
INVARIANTS
    OnlyLatestRunActive
    RetryLeavesNothingOpen
    RecoveryChainIntact
PROPERTIES
    StaleFenceNeverFolds
    ImplementsContract
