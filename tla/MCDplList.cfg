CONSTANTS
    Node = {n1, n2, n3}
    Entry = {e1, e2}
    NULL = NULL
    CallOnEmpty = TRUE
SPECIFICATION Spec
CHECK_DEADLOCK FALSE
INVARIANTS
    TypeOK
    Linked
    EndsMatch
    NoLeak
    NoDangling
PROPERTIES
    IterationStable
    ImplementsADT
    CallsReturn
