SPECIFICATION MCSpec
CONSTANTS
    Rows = {1, 2, 3}
    Clients = {c1}
    Workers = {w1}
    MaxSize = 2
INVARIANTS
    StopsInOrder
    NothingLeftBehind
PROPERTIES
    StopsIfUnwatched
CHECK_DEADLOCK FALSE
