SPECIFICATION DemoSpec
CONSTANTS
    None = None
    Tasks = {t1}
    Employees = {e1, e2}
    Names = {n1}
    Members = {e2}
    Clients = {c1, c2}
    MaxRuns = 3
    MaxId = 4
SYMMETRY MCSymmetry
CHECK_DEADLOCK FALSE
INVARIANTS NobodyIsAskedTwice EveryTaskIsReportedOnce RetryRepeatsFailures
