SPECIFICATION Spec
CONSTANTS
    a1 = a1
    a2 = a2
    b1 = b1
    Device <- ThreeDevices
    Account <- MCAccount
    Target = 1
    MaxLogins = 3
    MaxSends = 3
    MaxFaults = 3
SYMMETRY AliceDevices
INVARIANTS
    AlwaysReadable
CHECK_DEADLOCK FALSE
