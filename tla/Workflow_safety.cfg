SPECIFICATION Spec
CONSTANTS
    Tasks = {t1, t2}
    None = None
    MaxDay = 4
    Today = 3
    Week <- MCWeek
    Layouts <- MCLayouts
SYMMETRY MCSymmetry
INVARIANTS PublishedAfterApproval StatusesAgree DrillDownsAgree OverdueIsShownEverywhere
PROPERTY MovesAreEarned
