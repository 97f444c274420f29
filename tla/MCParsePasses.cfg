CONSTANTS
    Shape <- MCShape
    Garbage <- MCGarbage
    MaxLen = 5
    NULL = NULL
SPECIFICATION Spec
CHECK_DEADLOCK FALSE
INVARIANTS
    TypeOK
    EndsFollow
    MarkersGone
    NoUseAfterFree
    OpenExact
    ScanExact
    LinksExact
    Verdict
PROPERTIES
    NoLinkToDone
    Terminates
