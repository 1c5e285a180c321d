CONSTANTS
    a = a
    b = b
    c = c
    d = d
    Payloads <- MCPayloads
    NULL = NULL
    maxSize = 3
    Data <- MCData
    max = 3
SPECIFICATION MCSpec

PROPERTIES ImplementsFifo CallsReport ImplementsWindow CbufReports
