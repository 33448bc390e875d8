SPECIFICATION Spec
SYMMETRY PageSymmetry
CONSTANTS
    Sockets = {s1, s2}
    MaxInstances = 3
    Scenarios <- MCScenarios
INVARIANTS SoundWhenOverlapping CalmIsExact JoinDuringUnload
PROPERTIES StoredNeverUndone ExitSaves UnloadStores
