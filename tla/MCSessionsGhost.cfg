\* A reply that fails after the registration leaves a device online for ever.
SPECIFICATION FairSpec
CONSTANTS
    c1 = c1
    c2 = c2
    c3 = c3
    d1 = d1
    d2 = d2
    i1 = i1
    i2 = i2
    Conn <- Two
    Device = {d1, d2}
    Ip = {i1}
    IpOf <- OneAddress
    MaxTotal = 2
    MaxPerIp = 2
    MaxUnauthenticated = 2
    Faults = {"writer"}
    MaxCommands = 1
INVARIANTS
    OnlineIsConnected
CHECK_DEADLOCK FALSE
