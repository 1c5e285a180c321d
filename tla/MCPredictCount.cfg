CONSTANTS
    NULL = NULL
    procs = 3
    QUEUESIZE = 3
    MAXPROCPAGES = 4
    PAGEWAIT = 2
    PHYSICALPAGES = 5
    HSIZE = 4
    EVICTWAIT = 2
    PAGEINWAIT = 2
    SUSPENDWAIT = 5
    THRASHING = 4
    Walks <- MCLongWalks
SPECIFICATION PredSpec
INVARIANTS FreesAsCounted
