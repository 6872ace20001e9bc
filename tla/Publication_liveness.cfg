CONSTANTS
    Tasks <- ReassignTasks
    Keys <- MCKeys
    TaskOf <- ReassignTaskOf
    Parents <- ReassignParents
    Plans <- RootedPlans
    Procs = {p1, p2}
    Ext = {x1, x2}
    LegacyExt = {x1}
    a = a
    b = b
    Root = root
    None = None
    Rejected = Rejected
    Foreign = Foreign
SPECIFICATION FairSpec
PROPERTY RunEnds
