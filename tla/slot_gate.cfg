SPECIFICATION Spec
CONSTANTS
    Jobs = {j1, j2, j3, j4, j5}
    MaxConcurrentScans = 2
    ScanQueueLimit = 4
SYMMETRY JobSymmetry
INVARIANTS
    TypeOK
    ActiveBound
    SeatsAccounted
    NoLostWakeup
