SPECIFICATION MCSpec
CONSTANTS
    Rows = {1, 2, 3, 4, 5}
    Workers = {w1, w2}
    MaxSize = 2
INVARIANTS
    RowsConserved
    CloseLeavesOnlyRaced
PROPERTIES
    AcceptedIsWritten
    CloseReturns
CHECK_DEADLOCK FALSE
