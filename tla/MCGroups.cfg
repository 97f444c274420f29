CONSTANTS
    Name <- MCName
    Slash <- MCSlash
    MaxLen = 3
SPECIFICATION Spec
CHECK_DEADLOCK FALSE
INVARIANTS
    TypeOK
    GroupsSorted
    GroupsExact
    GroupsFreed
