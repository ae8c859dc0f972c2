SPECIFICATION FairSpec
CONSTANTS
    t1 = t1
    t2 = t2
    x1 = x1
    x2 = x2
    Text <- OneText
    Deletion <- OneDeletion
    QueueSize = 2
    Faults <- AllFaults
    Budget = 2
INVARIANTS
    OutboxTypeOK
    NothingLost
    SettledIsForgotten
PROPERTIES
    ShowsTheTruth
    EverythingLeaves
CHECK_DEADLOCK FALSE
