SPECIFICATION Spec
CONSTANTS
    Entries = {1, 2}
    Targets = {3, 4}
    Close = 5
    EntryLimit <- GridLimit
    EntryQty <- GridQty
    ExpiresAfter <- GridLife
    TargetLimit = 5
    StopLevel = 2
    MinimumQty = 1
    Candles <- SameFeed
    EndPolicy = "stop_and_flatten"
    Requests = {"start"}
    MayHalt = FALSE
    MaxBars = 2
    MaxCommands = 0
    MaxCrashes = 1
    RecordBound = 1000000
    None = None
INVARIANTS
    FinalFlattenUsesUnusedVolume
