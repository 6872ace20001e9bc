CONSTANTS
    Tasks <- MCTasks
    Keys <- MCKeys
    TaskOf <- MCTaskOf
    Parents <- MCParents
    Plans <- MCPlans
    Procs = {p1, p2}
    Ext = {x1, x2, x3}
    LegacyExt = {}
    a = a
    b = b
    Root = root
    None = None
    Rejected = Rejected
    Foreign = Foreign
SPECIFICATION Spec
SYMMETRY MCSymmetry
INVARIANT AtMostOneTask
INVARIANT IntentSurvives
INVARIANT PassedRowsStayLinked
PROPERTY ImplementsLedger
