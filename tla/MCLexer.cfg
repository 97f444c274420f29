CONSTANTS
    MaxLen = 10
    Input <- MCInput
SPECIFICATION Spec
CHECK_DEADLOCK FALSE
INVARIANTS
    TypeOK
    DepthExact
    Balanced
PROPERTIES
    TextDelivered

