SPECIFICATION Spec
CONSTANTS
    Jobs = {j1, j2, j3}
    MaxConcurrentScans = 1
    ScanQueueLimit = 2
INVARIANTS
    AdmittedWithinLimit
