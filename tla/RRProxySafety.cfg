SPECIFICATION LiveSpec

CONSTANTS
    Request = {r1, r2, r3}
    N = 2
    Chunks = 1

INVARIANT RoundRobin
INVARIANT CountersExact
INVARIANT StreamTerminatedWhole
PROPERTY RequestsEnd

CHECK_DEADLOCK FALSE
