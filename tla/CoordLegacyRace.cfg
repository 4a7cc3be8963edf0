SPECIFICATION CSpec
CONSTANTS
    a1 = a1
    a2 = a2
    w1 = w1
    i1 = i1
    i2 = i2
    k1 = k1
    k2 = k2
    NoFence = NoFence
    NoActivity = NoActivity
    Activities <- OneActivity
    Predecessors <- OneActivityPlan
    Compensable = {}
    Workers = {w1}
    NonCompensatable = {}
    Legacy = {a1}
    MaxGeneration = 1
    MaxRuns = 1
    ResultKinds = {"succeeded"}
    Resolutions = {}
    MaxObservers = 0
    Invocations = {i1, i2}
    Keys = {k1, k2}
    MaxEffects = 1
    MaxCrashes = 0
    LeaseExpires = FALSE
    Position <- OneActivityOrder
    Resubmit = FALSE
SYMMETRY InvocationSymmetry
CHECK_DEADLOCK FALSE
INVARIANTS
    OneEffectInvocation
