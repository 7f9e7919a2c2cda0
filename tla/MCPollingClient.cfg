\* Two requests may overlap; two identifiers; the store overwrites twice.
SPECIFICATION FairSpec
CONSTANTS
    Capacity = 2
    Ids = {a, b}
    NoFilter = NoFilter
    Slots = {s1, s2}
    Limits = {1, 2}
    MaxFrames = 4
INVARIANTS
    TypeOK
    StoreIsWindow
    NoRetainedFrameSkipped
PROPERTIES
    OnlyNewRows
    LogSpec
    EveryFrameShownOrLost
