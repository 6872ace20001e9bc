SPECIFICATION Spec
CONSTANTS
    Pages = {p1, p2, p3}
    Workers = {w1}
    MaxEdits = 3
    MaxVersion = 2
    None = None
SYMMETRY MCSymmetry
CHECK_DEADLOCK FALSE
INVARIANTS ClaimHolds AcknowledgedEditsKept CurrentPagesAreComplete
PROPERTY OverwriteNeedsStaleWorker
