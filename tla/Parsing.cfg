SPECIFICATION ParsingSpec
CONSTANTS
    Documents <- MCDocuments
    MarkSets <- MCMarkSets
    Requested = {"memo_protocol", Absent}
    BodyLength = 3
    ListLength = 3
    Absent = Absent
CHECK_DEADLOCK FALSE
INVARIANTS EveryLineIsPlaced NumbersOpenTasks AttendeesStayOutOfBody
PROPERTIES EveryStepMovesOn ParsingEnds
