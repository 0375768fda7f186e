SPECIFICATION Spec
CONSTANTS
    Entries = {1, 2}
    Targets = {3, 4}
    Close = 5
    EntryLimit <- BasketLimit
    EntryQty <- BasketQty
    ExpiresAfter <- GridLife
    TargetLimit = 5
    StopLevel = 2
    MinimumQty = 2
    Candles <- ShortFeed
    EndPolicy = "stop_and_flatten"
    Requests = {"start", "stop_and_flatten"}
    MayHalt = TRUE
    MaxBars = 3
    MaxCommands = 1
    MaxCrashes = 0
    RecordBound = 1000000
    None = None
INVARIANTS
    RestIsSettled
    FinalFlattenUsesUnusedVolume
PROPERTIES
    TerminalFreezes
