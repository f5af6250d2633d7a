SPECIFICATION LiveSpec

CONSTANTS
    BaseUrls <- Replicas
    NChats = 3
    Concurrency = 1
    Retries = 1

INVARIANT PermitsConserved
INVARIANT EveryReplicaTried
INVARIANT CountersBalance
PROPERTY CallsEnd

CHECK_DEADLOCK FALSE
