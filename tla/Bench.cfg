SPECIFICATION LiveSpec

CONSTANTS
    Cell = {"pair", "solo"}
    Gpu = {"g0", "g1"}
    GpusOf <- TwoLayouts
    Replicas <- TwoReplicas
    Alias <- OwnAlias
    LoadtestOnly = {"solo"}
    MaxLaunches = 2
    MaxCrashes = 1
    Points <- ThreePoints
    TooLong = {14}
    Mult = 4
    Min1 = 10
    Cap = 25
    MaxSweeps = 1
    MaxFleet = 4

INVARIANT StopEmpties
INVARIANT VerdictIsOwn
INVARIANT SplitIsWhole
INVARIANT UnmarkedIsWhole

PROPERTY ScriptsEnd

CHECK_DEADLOCK FALSE
