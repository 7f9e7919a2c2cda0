SPECIFICATION Spec
CONSTANTS
    c1 = c1
    c2 = c2
    Conns = {c1}
    Fds = {1}
    Workers = {w1, w2}
    None = None
    MaxRequests <- TwoRequests
    BadRequests = {}
    Directories = {}
    SocketRoom = 1
    Timeouts = FALSE
    Aborting = {}
    Leaving = {c1}
SYMMETRY WorkerSymmetry
INVARIANT ServerSurvives
CHECK_DEADLOCK FALSE
