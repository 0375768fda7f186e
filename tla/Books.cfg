SPECIFICATION Spec
CONSTANTS
    Lanes = {"legacy", "fixed", "realistic"}
    Capital = 20
    Leverage = 2
    Units = {4, 6}
    Adjustments = {0, 1}
    Commissions = {1}
    LiquidationFee = 1
    MaxLots = 2
    MaxFills = 2
    Feeds <- ShortFeeds
    Evaluations <- Starts
    Evidences <- Supplied
INVARIANTS
    LedgerIsCash
    FundingMatchesHoldings
    AdmittedRunsFinish
\* A run ends.
CHECK_DEADLOCK FALSE
