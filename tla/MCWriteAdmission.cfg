SPECIFICATION MCSpec
CONSTANTS
    Ips = {"mine", "other"}
    Mine = "mine"
    KindOrder <- MCKinds
    Limit <- MCLimit
    Period <- MCPeriod
    Costs <- MCCosts
    Safety = 1
    Window = 5
    Margin = 2
    AckTimeout = 2
    RetryDelay = 1
    MapSize = 1
    ScanLimit = 1
    MaxTime = 7
    Scenarios <- MCScenarios
INVARIANT PacedPageNeverLimited
INVARIANT AtMostTwoWindows
INVARIANT IgnoredOnlyIfOver
INVARIANT GeometryHolds
CHECK_DEADLOCK FALSE
