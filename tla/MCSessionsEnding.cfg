\* Liveness: a replaced connection and a revoked device are gone in the end,
\* lost kicks and broken sockets included.
SPECIFICATION FairSpec
CONSTANTS
    c1 = c1
    c2 = c2
    c3 = c3
    d1 = d1
    d2 = d2
    i1 = i1
    i2 = i2
    Conn <- Two
    Device = {d1, d2}
    Ip = {i1}
    IpOf <- OneAddress
    MaxTotal = 2
    MaxPerIp = 2
    MaxUnauthenticated = 2
    Faults = {"writer", "order"}
    MaxCommands = 1
PROPERTIES
    ReplacedEnds
    CutOff
CHECK_DEADLOCK FALSE
