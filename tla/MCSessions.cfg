\* Safety: three connections, two of them from one address, with failing upgrades and lost kicks.
SPECIFICATION Spec
CONSTANTS
    c1 = c1
    c2 = c2
    c3 = c3
    d1 = d1
    d2 = d2
    i1 = i1
    i2 = i2
    Conn <- Three
    Device = {d1, d2}
    Ip = {i1, i2}
    IpOf <- TwoAddresses
    MaxTotal = 2
    MaxPerIp = 2
    MaxUnauthenticated = 1
    Faults = {"upgrade", "order"}
    MaxCommands = 1
SYMMETRY Interchangeable
INVARIANTS
    SessionsTypeOK
    AdmissionExact
    NewestIsReachable
    ActsOnlyApproved
CHECK_DEADLOCK FALSE
