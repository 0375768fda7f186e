SPECIFICATION FairSpec
CONSTANTS
    StepLists <- Lists
    Replays <- ReplayLists
    End = 4
    MaxRuns = 2
    NoCandle = NoCandle
INVARIANTS
    CandlesOnce
    RunsFollowTheirSteps
PROPERTIES
    EveryRunReturns
\* The host may stop starting runs.
CHECK_DEADLOCK FALSE
