SPECIFICATION Spec
CONSTANTS
    d = d
    s1 = s1
    s2 = s2
    e1 = e1
    e2 = e2
    e3 = e3
    q1 = q1
    q2 = q2
    Device <- MCDevice
    Task <- MCTask
    Request <- TwoRequests
    EnvelopeId <- TwoEnvelopes
    Offer <- MCOffer
    PageSize = 3
    MaxCursor = 3
    Faults <- CleanupOnly
    Budget = 1
INVARIANTS
    NoReplay
CHECK_DEADLOCK FALSE
