SPECIFICATION Spec
CONSTANTS
    Lanes = {"fixed", "realistic"}
    Step = 1
    HigherStep = 2
    HistoryBars = 2
    PrimaryFeeds <- Feeds
    HigherFeeds <- Highers
    Contracts <- Runtimes
    NoContract = NoContract
    Levels = {1}
    Values = {0, 2, 3}
INVARIANTS
    OncePerPrimaryBar
    WindowIsClosed
    ReportDescribesCurve
\* A run ends.
CHECK_DEADLOCK FALSE
