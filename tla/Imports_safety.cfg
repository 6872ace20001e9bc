SPECIFICATION Spec
CONSTANTS
    Sessions = {s1}
    Requests = {r1, r2}
    Payloads = {full, blank}
    Empty = {blank}
    MaxProtocols = 3
    None = None
SYMMETRY MCSymmetry
INVARIANTS OneProtocolEach FilesFollowRows
PROPERTY ConfirmationStays
