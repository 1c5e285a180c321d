CONSTANTS
    NULL = NULL
    procs = 2
    QUEUESIZE = 3
    MAXPROCPAGES = 4
    PAGEWAIT = 2
    PHYSICALPAGES = 3
    HSIZE = 4
    EVICTWAIT = 2
    PAGEINWAIT = 2
    SUSPENDWAIT = 5
    THRASHING = 4
    Walks <- MCWalks
SPECIFICATION PredSpec
INVARIANTS NeverExits HistoryKeepsLast SuspendedWait
PROPERTIES KeepsNeeded AllJobsEnd
