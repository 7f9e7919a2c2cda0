\* The store overwrites once; the buffer overflows while the socket is full.
SPECIFICATION Spec
CONSTANTS
    Capacity = 2
    Ids = {a}
    NoFilter = NoFilter
    Workers = {w1, w2}
    Starts = {0}
    PumpLimit = 2
    MaxPending = 2
    SocketRoom = 1
    MaxFrames = 3
    MaxTasks = 0
INVARIANTS
    TypeOK
    StreamInOrder
PROPERTIES
    EndsForReason
    LogSpec
SYMMETRY WorkerSymmetry
CHECK_DEADLOCK FALSE
