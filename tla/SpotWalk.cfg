SPECIFICATION FairSpec
CONSTANTS
    Entries = {1, 2}
    Targets = {3, 4}
    Close = 5
    EntryLimit <- GridLimit
    EntryQty <- GridQty
    ExpiresAfter <- NoExpiry
    TargetLimit = 5
    StopLevel = 2
    MinimumQty = 1
    Candles <- Feed
    EndPolicy = "stop_and_flatten"
    Requests = {"start"}
    MayHalt = FALSE
    MaxBars = 3
    MaxCommands = 0
    MaxCrashes = 0
    RecordBound = 1000000
    None = None
INVARIANTS
    NewLotsWait
    FillsFollowThePath
PROPERTIES
    CallsReturn
