SPECIFICATION FairSpec
CONSTANTS
    t1 = t1
    t2 = t2
    x1 = x1
    x2 = x2
    Text <- TwoTexts
    Deletion <- NoDeletion
    QueueSize = 3
    Faults <- LostConnection
    Budget = 1
PROPERTIES
    OfflineCaughtUp
CHECK_DEADLOCK FALSE
