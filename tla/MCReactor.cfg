SPECIFICATION Spec
CONSTANTS
    c1 = c1
    c2 = c2
    Conns = {c1, c2}
    Fds = {1}
    Workers = {w1, w2}
    None = None
    MaxRequests <- OneEach
    BadRequests <- FirstOfC1
    Directories <- FirstOfC2
    SocketRoom = 1
    Timeouts = TRUE
    Aborting = {c1}
    Leaving = {c1}
SYMMETRY WorkerSymmetry
INVARIANTS
    TypeOK
    TableOwnsSockets
    RegisteredHasTimer
    NoInputForgotten
PROPERTIES
    OnlyOwnTaskCloses
CHECK_DEADLOCK FALSE
