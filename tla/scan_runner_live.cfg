SPECIFICATION FairSpec
CONSTANTS
    Jobs = {j1, j2}
    Operators = {o1}
    MaxConcurrentScans = 1
    ScanQueueLimit = 2
    MaxPayloads = 1
    Attempts = 1
    StoreMayFail = TRUE
PROPERTIES
    EveryRunEnds
