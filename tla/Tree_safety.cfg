SPECIFICATION Spec
CONSTANTS
    Tasks = {t1, t2, t3, t4}
    None = None
SYMMETRY TaskSymmetry
INVARIANTS Forest ParentsFirst RollbackIsSound
