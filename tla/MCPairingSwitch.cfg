SPECIFICATION FairSpec
CONSTANTS
    a1 = a1
    a2 = a2
    p1 = p1
    p2 = p2
    Old <- OneOld
    New <- OneNew
    MaxActive = 8
    MaxPending = 2
    PageSize = 200
    MaxPairings = 2
    Faults <- LostConnection
    Budget = 1
PROPERTIES
    SwitchesOver
CHECK_DEADLOCK FALSE
