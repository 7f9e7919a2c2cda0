SPECIFICATION FairSpec
CONSTANTS
    c1 = c1
    c2 = c2
    Conns = {c1}
    Fds = {1}
    Workers = {w1, w2}
    None = None
    MaxRequests <- TwoRequests
    BadRequests <- FirstOfC1
    Directories = {}
    SocketRoom = 1
    Timeouts = FALSE
    Aborting = {}
    Leaving = {}
INVARIANTS
    ResponsesInOrder
PROPERTIES
    EveryRequestRead
    ShutDownIsNoticed
CHECK_DEADLOCK FALSE
