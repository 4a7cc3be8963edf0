SPECIFICATION Spec
CONSTANTS
    a1 = a1
    a2 = a2
    a3 = a3
    w1 = w1
    w2 = w2
    NoFence = NoFence
    Activities <- ThreeActivities
    Predecessors <- JoinPlan
    Compensable = {a1, a2}
    Workers <- TwoWorkers
    NonCompensatable = {a3}
    Legacy = {}
    MaxGeneration = 2
    MaxRuns = 1
    ResultKinds = {"succeeded", "failed", "unsupported", "uncertain"}
    Resolutions = {"succeeded", "failed", "abandoned"}
    MaxObservers = 1
SYMMETRY WorkerSymmetry
CONSTRAINT ObservedAlone
CHECK_DEADLOCK FALSE
INVARIANTS
    TypeOK
    JournalMatchesAttempts
    CompensationNeverOverlaps
    InverseInReverseOrder
    VerdictTruthful
    AdvancedMeansRealized
PROPERTIES
    EndedSessionIsQuiet
    VerdictFinal
    ImplementsLedger
