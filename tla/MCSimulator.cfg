CONSTANTS
    NULL = NULL
    procs = 2
    QUEUESIZE = 3
    MAXPROCPAGES = 2
    PAGEWAIT = 2
    PHYSICALPAGES = 2
    Walks <- MCWalks
SPECIFICATION FairSpec
INVARIANTS TypeOK JobsRunOnce OnlyRunningHold FramesConserved EndsClean
PROPERTIES ImplementsFrames TransitsEnd
