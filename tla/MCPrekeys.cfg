SPECIFICATION Spec
CONSTANTS
    a1 = a1
    a2 = a2
    b1 = b1
    Device <- ThreeDevices
    Account <- MCAccount
    Target = 1
    MaxLogins = 3
    MaxSends = 4
    MaxFaults = 3
SYMMETRY AliceDevices
INVARIANTS
    PrekeysTypeOK
    HandedOutOnce
    Readable
    NothingWithheld
    SessionsBounded
CHECK_DEADLOCK FALSE
