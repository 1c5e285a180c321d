CONSTANTS
    t1 = t1
    t2 = t2
    f1 = f1
    f2 = f2
    a = a
    b = b
    BEYOND = BEYOND
    NULL = NULL
    BUFFER_SIZE = 2
    Tasks <- MCTasks
    Files <- MCFiles
    Chars <- MCChars
    Strings <- MCStrings
    Lengths = {1, 3}
    Offsets <- MCOffsets
    MaxOpens = 2
SPECIFICATION Spec
SYMMETRY MCSymmetry
INVARIANTS TypeOK BufferLives CallsMoveBytes CountsUnlessRaced
PROPERTIES ReportsHold
