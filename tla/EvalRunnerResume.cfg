SPECIFICATION LiveSpec

CONSTANTS
    NItems = 2
    Family = {"math", "tools"}
    FamilyOf <- TwoFamilies
    Prior <- TwoPriors
    Concurrency = 1
    TimeBudget = 1
    Grace = 1
    Outcome = {"scored", "error"}
    PartialEvery = 1
    DiskMayFill = TRUE
    MaxTime = 2
    MaxRuns = 2

INVARIANT FileAgrees
INVARIANT SlotConservation
PROPERTY ScoredLinesSurvive
 
PROPERTY EveryRunPublishes

CHECK_DEADLOCK FALSE
