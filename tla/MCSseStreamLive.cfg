\* One worker, so that the state space stays small with the heartbeat going.
SPECIFICATION FairSpec
CONSTANTS
    Capacity = 1
    Ids = {a}
    NoFilter = NoFilter
    Workers = {w1}
    Starts = {1}
    PumpLimit = 1
    MaxPending = 2
    SocketRoom = 1
    MaxFrames = 2
    MaxTasks = 1
PROPERTIES
    OverflowCloses
    EveryFrameDelivered
CHECK_DEADLOCK FALSE
