SPECIFICATION Spec
CONSTANTS
    a1 = a1
    a2 = a2
    b1 = b1
    Device <- MCDevice
    Account <- MCAccount
    MaxDrawn = 3
    MaxCuts = 0
    MaxDismissed = 0
SYMMETRY AliceDevices
INVARIANTS
    AnswersAgree
CHECK_DEADLOCK FALSE
