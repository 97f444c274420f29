CONSTANTS
    MaxLen = 10
    Input <- DropInput
SPECIFICATION Spec
CHECK_DEADLOCK FALSE
PROPERTIES
    IndentConsumesBlanks
