SPECIFICATION Spec
CONSTANTS
    Lanes = {"fixed"}
    Step = 1
    HigherStep = 2
    HistoryBars = 2
    PrimaryFeeds <- GappedFeeds
    HigherFeeds <- SteppedHighers
    Contracts <- NoContracts
    NoContract = NoContract
    Levels = {1, 2}
    Values = {1}
INVARIANTS
    OrdersFillLater
\* A run ends.
CHECK_DEADLOCK FALSE
