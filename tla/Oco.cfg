SPECIFICATION Spec
CONSTANTS
    Setups <- Plans
    Candles <- Feed
    StopMoves = {3, 5}
    TargetMoves = {7}
    ChecksCash = TRUE
    MayLackMargin = TRUE
    MayExit = FALSE
    MayStop = TRUE
    EndPolicies = {"mark_at_last_close", "flatten_at_last_close"}
    Remainders = {"cancel"}
    MaxBars = 4
    None = None
INVARIANTS
    ExitsNeverOpen
    OpenDecidesFirst
    InventoryIsProtected
    EndsByPolicy
CHECK_DEADLOCK FALSE
