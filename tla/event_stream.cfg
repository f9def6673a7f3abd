SPECIFICATION FairSpec
CONSTANTS
    Jobs = {j1, j2}
    Readers = {r1}
    MaxRows = 4
    MaxBatch = 2
    MaxFaults = 2
CHECK_DEADLOCK FALSE
INVARIANTS
    TypeOK
    NothingLostOrRepeated
    DoneAfterEnd
PROPERTIES
    ReaderLearnsEnd
