CONSTANTS
    Shape <- TailShape
    Garbage <- MCGarbage
    MaxLen = 5
    NULL = NULL
SPECIFICATION Spec
CHECK_DEADLOCK FALSE
INVARIANTS
    NoIdNoLink
