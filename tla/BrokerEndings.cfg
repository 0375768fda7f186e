SPECIFICATION FairSpec
CONSTANTS
    Setups <- BothWays
    Candles <- Ranges
    StopMoves = {3, 5}
    TargetMoves = {}
    FillLatency = 1
    ProtectionLatency = 1
    RiskCaps = {0, 1, 3}
    ChecksCash = FALSE
    MayLackMargin = TRUE
    MayLiquidate = TRUE
    MayExit = FALSE
    MayStop = TRUE
    EndPolicies = {"mark_at_last_close", "flatten_at_last_close"}
    Remainders = {"carry", "cancel"}
    MaxBars = 5
    None = None
INVARIANTS
    InventoryIsProtected
    StopFirst
    EndsByPolicy
PROPERTIES
    EveryBarIsDecided
CHECK_DEADLOCK FALSE
