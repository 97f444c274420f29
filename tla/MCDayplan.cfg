CONSTANTS
    EntryLists <- MCLists
    Commands <- MCCommands
    Arguments <- MCArguments
    Summer = {3, 4, 5}
    Today = 2
    LONG_MAX = 2147483647
SPECIFICATION MainSpec
CHECK_DEADLOCK FALSE
INVARIANTS
    TypeOK
    OwnedOnce
    ReportExact
    PeriodSettled
    AskedDays
