SPECIFICATION FairSpec
CONSTANTS
    Protocols = {a, b}
    Requests = {r1, r2}
    Workers = {w1, w2}
    MaxJobs = 3
    MaxCrashes = 1
    None = None
INVARIANTS OneActiveJob DoneMeansPerformed AcceptedIsServed
PROPERTY EveryJobEnds
