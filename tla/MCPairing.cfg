SPECIFICATION FairSpec
CONSTANTS
    a1 = a1
    a2 = a2
    p1 = p1
    p2 = p2
    Old <- OneOld
    New <- OneNew
    MaxActive = 8
    MaxPending = 2
    PageSize = 200
    MaxPairings = 3
    Faults <- AllFaults
    Budget = 2
INVARIANTS
    PairingTypeOK
    KeysOverConfirmedChannel
    RosterLinear
PROPERTIES
    ConfirmationStands
    PairedInTheEnd
CHECK_DEADLOCK FALSE
