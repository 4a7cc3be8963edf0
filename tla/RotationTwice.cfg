SPECIFICATION RotationSpec
CONSTANTS
    k0 = k0
    k1 = k1
    k2 = k2
    r1 = r1
    r2 = r2
    p1 = p1
    p2 = p2
    Keys <- ThreeKeys
    FirstKey = k0
    NoKey = NoKey
    Requests = {q1}
    GrantLifetime = 1
    MaxSkew = 0
    MaxNow = 2
    Rotations <- TwoRotations
    NewKey <- TwoNewKeys
    Processes = {p1, p2}
    Lifetimes = {1}
    ClockSkew = 0
    MaxFence = 1
    MaxDirect = 0
    NoRotation = NoRotation
SYMMETRY RotationSymmetry
CHECK_DEADLOCK FALSE
INVARIANTS
    GrantsStayVerifiable
    SignerIsUsable
PROPERTIES
    RevokedOnlyWhenUnused
