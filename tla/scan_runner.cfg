SPECIFICATION Spec
CONSTANTS
    Jobs = {j1, j2}
    Operators = {o1}
    MaxConcurrentScans = 1
    ScanQueueLimit = 2
    MaxPayloads = 2
    Attempts = 1
    StoreMayFail = TRUE
SYMMETRY RunnerSymmetry
INVARIANTS
    TypeOK
    AtMostOneLateRequest
    TimelyStopHeeded
    TrafficHoldsSlot
    NoOrphanRun
PROPERTIES
    GateKept
    RecordKept
