SPECIFICATION Spec
CONSTANTS
    Setups <- Longs
    Candles <- Feed
    StopMoves = {3}
    TargetMoves = {7}
    FillLatency = 0
    ProtectionLatency = 0
    RiskCaps = {3}
    ChecksCash = FALSE
    MayLackMargin = FALSE
    MayLiquidate = FALSE
    MayExit = TRUE
    MayStop = FALSE
    EndPolicies = {"flatten_at_last_close"}
    Remainders = {"carry"}
    MaxBars = 5
    None = None
INVARIANTS
    InventoryIsProtected
    BooksAgree
    TargetModeIsKept
    QueueHoldsTheLive
    ClosingAdmitsNoEntry
    LiquidityShared
    SignalBeforeRange
    NeverRaises
PROPERTIES
    KeepsPositionLife
CHECK_DEADLOCK FALSE
