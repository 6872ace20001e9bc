SPECIFICATION Spec
CONSTANTS
    Pages = {p1, p2}
    Workers = {w1}
    MaxEdits = 3
    MaxVersion = 3
    None = None
SYMMETRY MCSymmetry
CHECK_DEADLOCK FALSE
PROPERTY NoSilentOverwrite
