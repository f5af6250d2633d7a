SPECIFICATION Spec

CONSTANTS
    NItems = 5
    Family = {"math"}
    Outcome = {"scored"}
    FamilyOf <- OneFamily
    Prior <- OnePrior
    Concurrency = 2
    TimeBudget = 5
    Grace = 1
    PartialEvery = 9
    DiskMayFill = FALSE
    MaxTime = 6
    MaxRuns = 1

INVARIANT AccountedFor
INVARIANT FreshRunAttemptsPrefix
INVARIANT SlotConservation

CHECK_DEADLOCK FALSE
