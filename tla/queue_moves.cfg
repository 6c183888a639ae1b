\* Four rows whose arrival order is not their natural order.
SPECIFICATION Spec
CONSTANTS
    MaxRows = 4
    Rank <- Ranks
PROPERTIES
    MoveIsExact
CHECK_DEADLOCK FALSE
