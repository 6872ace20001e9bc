SPECIFICATION Spec
CONSTANTS
    Employees = {e1, e2}
    Lists = {attendees, team, board}
    Attendees = attendees
    Names = {n1}
    None = None
SYMMETRY MCSymmetry
PROPERTIES ResponsibleIsAssigned HandPickedStay PublishedPlanIsFresh
