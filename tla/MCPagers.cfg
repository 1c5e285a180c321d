CONSTANTS
    NULL = NULL
    procs = 2
    QUEUESIZE = 3
    MAXPROCPAGES = 3
    PAGEWAIT = 2
    PHYSICALPAGES = 2
    Walks <- MCWalks
    MAXITERATIONS = 5
SPECIFICATION MCSpec
INVARIANTS BasicNeverSwapsOut BasicOneJobHolds NeverExits ApiTracksPage
PROPERTIES EvictsLeastRecent BasicJobsEnd LruJobsEnd ApiTestExits
