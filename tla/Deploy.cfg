SPECIFICATION DSpec
CONSTANTS
    s1 = s1
    s2 = s2
    p1 = p1
    p2 = p2
    u1 = u1
    u2 = u2
    t0 = t0
    t1 = t1
    t2 = t2
    NoLineage = NoLineage
    NoCommand = NoCommand
    Empty = t0
    Sessions <- TwoSessions
    Processes = {p1, p2}
    Actors = {u1, u2}
    Approvers = {u1}
    Destroyers = {u1, u2}
    Topologies = {t0, t1, t2}
    Destructive <- Removal
    Blocked <- Reviewed
    Projections = {"keys"}
    MaxRevision = 3
    MaxPlans = 2
    MaxApprovals = 2
    MaxRequests = 2
SYMMETRY ProcessSymmetry
CONSTRAINT AuthoringOrReviewing
CHECK_DEADLOCK FALSE
INVARIANTS
    AdvancementsFormChain
    AdvancedWasReviewed
    PlanAdvancesOnce
    RetriesAgree
    PreparedIsIntended
PROPERTIES
    NothingOutdatedMoves
