SPECIFICATION LiveSpec

CONSTANTS
    Chain = {"master2", "post2"}
    Arm = {"bf16", "ling_b12x", "ling"}
    Port = {8000, 8001}
    Program <- Box400
    Waits <- Second
    WaitExpires = TRUE
    MaxArms = 1

INVARIANT MeasuredOnOwn
INVARIANT JudgeIsLast
INVARIANT RestingIsClean
PROPERTY ChainsEnd

CHECK_DEADLOCK FALSE
