CONSTANTS
    Capacity = 1
    Ids <- MCIds
    NoFilter = NoFilter
    Workers = {w1, w2}
    Window = 2
    Size = 4096
    MaxNow = 4
    MaxFrames = 3
SPECIFICATION Spec
\* Clock and bus are bounded.
CHECK_DEADLOCK FALSE
INVARIANTS
    TypeOK
    WindowIsSuffix
    TotalsMatch
    StatsLeadStore
PROPERTIES
    RateIsOfMoment
