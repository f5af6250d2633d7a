SPECIFICATION SandboxSpec

CONSTANTS
    TEST_TIMEOUT_S = 2
    ITEM_BUDGET_S = 3
    KILL_WAIT_S = 1
    MaxTests = 3

INVARIANT PassIsEarned
INVARIANT WallBounded

CHECK_DEADLOCK FALSE
