SPECIFICATION Spec
CONSTANTS
    Items = {"a", "b"}
    Stored = {"a"}
    Scenarios <- MCScenarios
INVARIANT PageFollowsServer
INVARIANT AcceptedOnce
PROPERTY EventuallyAnswered
CHECK_DEADLOCK FALSE
