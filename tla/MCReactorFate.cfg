SPECIFICATION Spec
CONSTANTS
    c1 = c1
    c2 = c2
    Conns = {c1, c2}
    Fds = {1}
    Workers = {w1, w2}
    None = None
    MaxRequests <- OneEach
    BadRequests = {}
    Directories = {}
    SocketRoom = 1
    Timeouts = TRUE
    Aborting = {c1}
    Leaving = {}
SYMMETRY WorkerSymmetry
PROPERTY OnlyOwnFateCloses
CHECK_DEADLOCK FALSE
