SPECIFICATION MCSpec
CONSTANTS
    MaxSeq = 2
    MaxTime = 3
    Retention = 1
    PinTtl = 2
    MaxWrites = 3
    MaxDrops = 1
    MaxRestarts = 1
    MaxMissed = 1
INVARIANTS
    ReplayIsExact
    StoredBaselineReplayable
    StreamedBaselineReplayable
    NothingMissing
    NeverWrong
PROPERTIES
    TrimOnlyExpired
    PageSynchronizes
CHECK_DEADLOCK FALSE
