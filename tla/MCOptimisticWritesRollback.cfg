SPECIFICATION Spec
CONSTANTS
    Items = {"a", "b"}
    Stored = {"a"}
    Scenarios <- MCAlone
INVARIANT RollbackRestores
CHECK_DEADLOCK FALSE
