SPECIFICATION Spec
CONSTANTS
    u1 = u1
    u2 = u2
    g1 = g1
    g2 = g2
    p1 = p1
    p2 = p2
    d1 = d1
    d2 = d2
    None = None
    Users = {u1}
    Members = {u1, u2}
    Groups = {g1, g2}
    Projects = {p1, p2}
    Protocols = {d1, d2}
    Reports = {r1}
    Web = {w1}
    Workers = {k1}
    Callers = {w1, k1}
    Roster0 <- MCRoster
    Level0 <- MCLevel
    Project0 <- MCProject
    Protocol0 <- MCProtocol
    SlotCount = 1
    Rounds = 2
    PageLimit = 2
    PageSize = 1
    MaxRequests = 2
    MaxChanges = 1
    MaxFailures = 1
INVARIANTS NoSlotLeaks ShownIsReadable ScopeIsComplete
PROPERTY WritesAreEarned JobsSettle
CHECK_DEADLOCK FALSE
