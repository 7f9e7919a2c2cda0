CONSTANTS
    Workers = {w1, w2}
    Conns = {c1}
    Fds <- MCFds
    None = None
    MaxTasks = 2
    MaxFrames = 1
SPECIFICATION FairSpec
\* The process ends.
CHECK_DEADLOCK FALSE
INVARIANTS
    TypeOK
    PollsOwnSocket
    SentMeansOnBus
    NoUseAfterDestroy
    ExitLeavesNothing
PROPERTIES
    StoreQuietAfterStop
    PagesKeepTheirNumber
    StopsOnSignal
