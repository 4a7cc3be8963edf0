SPECIFICATION RotationSpec
CONSTANTS
    k0 = k0
    k1 = k1
    k2 = k2
    r1 = r1
    r2 = r2
    p1 = p1
    p2 = p2
    Keys <- TwoKeys
    FirstKey = k0
    NoKey = NoKey
    Requests = {q1}
    GrantLifetime = 1
    MaxSkew = 1
    MaxNow = 3
    Rotations <- OneRotation
    NewKey <- OneNewKey
    Processes = {p1, p2}
    Lifetimes = {1}
    ClockSkew = 1
    MaxFence = 2
    MaxDirect = 1
    NoRotation = NoRotation
SYMMETRY ProcessSymmetry
CHECK_DEADLOCK FALSE
INVARIANTS
    GrantsStayVerifiable
    CompletedMeansReplaced
