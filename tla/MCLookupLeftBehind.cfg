CONSTANTS
    v1 = v1
    v2 = v2
    NULL = NULL
    maxSize = 2
    numRequests = 1
    Resolvers <- OneResolver
    nameCount <- OneFile
    Payloads <- OneFileNames
SPECIFICATION Spec
INVARIANT NothingLeftBehind
