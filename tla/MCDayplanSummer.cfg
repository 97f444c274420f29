CONSTANTS
    EntryLists <- MCLists
    Commands <- MCCommands
    Arguments <- SummerArguments
    Summer = {3, 4, 5}
    Today = 2
    LONG_MAX = 2147483647
SPECIFICATION MainSpec
CHECK_DEADLOCK FALSE
INVARIANT FromIncludesDate
