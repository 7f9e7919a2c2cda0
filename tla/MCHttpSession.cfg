SPECIFICATION FairSpec
CONSTANTS
    c1 = c1
    Conns = {c1}
    TimerFds = {c1}
    Workers = {w1, w2}
    None = None
    Size = 8
    Timeout = 1
    MaxPortions = 2
    Horizon = 1
    Plans <- SessionPlans
INVARIANTS
    TypeOK
    OncePerHeader
PROPERTIES
    ExpiredWasIdle
    RejectedForReason
    StreamSpec
    PlainIsHandled
    SilenceEnds
CHECK_DEADLOCK FALSE
