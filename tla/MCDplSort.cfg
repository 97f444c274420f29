CONSTANTS
    MaxLen = 6
    Time = {0, 1, 2}
    NULL = NULL
SPECIFICATION Spec
CHECK_DEADLOCK FALSE
INVARIANTS
    TypeOK
    SortedStably
    NoneLost
PROPERTIES
    Terminates
