SPECIFICATION CSpec
CONSTANTS
    a1 = a1
    a2 = a2
    w1 = w1
    i1 = i1
    i2 = i2
    k1 = k1
    k2 = k2
    NoFence = NoFence
    NoActivity = NoActivity
    Activities <- TwoActivities
    Predecessors <- ParallelPlan
    Compensable = {}
    Workers = {w1}
    NonCompensatable = {}
    Legacy = {a2}
    MaxGeneration = 2
    MaxRuns = 1
    ResultKinds = {"succeeded", "failed", "uncertain"}
    Resolutions = {"failed"}
    MaxObservers = 0
    Invocations = {i1, i2}
    Keys = {k1, k2}
    MaxEffects = 2
    MaxCrashes = 1
    LeaseExpires = TRUE
    Position <- PlanOrder
    Resubmit = FALSE
SYMMETRY InvocationSymmetry
CHECK_DEADLOCK FALSE
INVARIANTS
    CommandDispatchedOnce
    CompletedMeansSucceeded
    RuntimeInvokedOnce
