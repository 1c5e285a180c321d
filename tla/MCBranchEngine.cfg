CONSTANTS
    MAXBRINGS = 2
    MaxRun = 2
    Programs <- MCPrograms
SPECIFICATION FairSpec
INVARIANTS TypeOK SearchFinds
PROPERTIES BranchesAsDrawn JobExits
