SPECIFICATION Spec
CONSTANTS
    Pages = {"mod", "ann", "bob"}
    Readonly = FALSE
    Durations = {1, 2}
    MaxTime = 3
    Network <- BehindProxy
    Scenarios <- MCScenarios
INVARIANT ShownBansCurrent
INVARIANT BanHolds
PROPERTY NoticeHoldsThePage
PROPERTY AccessEventuallyReal
CHECK_DEADLOCK FALSE
