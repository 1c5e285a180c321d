CONSTANTS
    MAXBRINGS = 2
    MaxRun = 2
    Programs <- MCPrograms
SPECIFICATION Spec
PROPERTIES EntirelyLinear
