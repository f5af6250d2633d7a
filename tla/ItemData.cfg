SPECIFICATION Spec
CONSTANTS
    Family = {"ifeval", "code", "knowledge"}
    Profile = {"default", "full"}
    Wanted <- TwoProfiles
    Pool <- ShortSecond
    Requests <- OneOrTwo
    Options <- SomeOptions
    Limits <- SmallLimits
    MaxVersion = 2
    MaxPrepares = 2
    MaxRuns = 1
INVARIANTS
    RunUsesListed
    FinishedIsListed
    PinnedItems
    NoneTwice
    FairMerge
CHECK_DEADLOCK FALSE
