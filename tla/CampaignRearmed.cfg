SPECIFICATION Spec

CONSTANTS
    Chain = {"w3d", "w4"}
    Arm = {"ds_b12x", "ds", "fp8", "rep"}
    Port = {8000, 8001}
    Program <- Box600
    Waits <- Waiter
    WaitExpires = FALSE
    MaxArms = 1

PROPERTY CutEvalsResume

CHECK_DEADLOCK FALSE
