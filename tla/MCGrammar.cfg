CONSTANTS
    MaxLines = 4
    Documents <- MCDocuments
    Character <- MCCharacter
    Garbage <- MCGarbage
    Chunk = 3
    Width1 = 2
    Width2 = 2
SPECIFICATION DocumentSpec
CHECK_DEADLOCK FALSE
INVARIANTS
    TypeOK
    LevelsAgree
    
    Verdict
PROPERTY
    Returns
