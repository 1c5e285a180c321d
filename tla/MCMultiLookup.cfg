CONSTANTS
    v1 = v1
    v2 = v2
    NULL = NULL
    maxSize = 2
    numRequests = 2
    Resolvers <- MCResolvers
    nameCount <- TwoFiles
    Payloads <- TwoFilesNames
SPECIFICATION FairSpec
INVARIANTS EachNameInOnePlace ReturnsComplete DrainedByLateTest RefusesOnlyExcess
PROPERTIES ImplementsFifo Termination
