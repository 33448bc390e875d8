SPECIFICATION LogSpec
CONSTANTS
    MaxSeq = 2
    MaxTime = 3
    Retention = 1
    PinTtl = 2
INVARIANTS
    ServedBaselineReplayable
