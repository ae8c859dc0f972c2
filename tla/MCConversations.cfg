SPECIFICATION Spec
CONSTANTS
    a1 = a1
    a2 = a2
    b1 = b1
    Device <- MCDevice
    Account <- MCAccount
    MaxDrawn = 3
    MaxCuts = 1
    MaxDismissed = 1
SYMMETRY AliceDevices
INVARIANTS
    ConversationsTypeOK
    DeletedNeedsVerification
    DeletionReaches
    AnsweredIsSettled
    ReadWasSeen
    ReadersAgree
    TextsKept
CHECK_DEADLOCK FALSE
