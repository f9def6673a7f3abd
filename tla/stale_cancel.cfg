SPECIFICATION Spec
CONSTANTS
    Jobs = {j1}
    Operators = {o1}
    MaxConcurrentScans = 1
    ScanQueueLimit = 1
    MaxPayloads = 1
    Attempts = 1
    StoreMayFail = FALSE
PROPERTY
    NoTrafficWhenOver
