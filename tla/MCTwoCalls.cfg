SPECIFICATION Spec
CONSTANTS
    a = a
    b = b
    u1 = u1
    u2 = u2
    k1 = k1
    k2 = k2
    Calls = {a, b}
    Channels = {0}
    MaxSeq = 0
    Users = {u1, u2}
    Conns = {k1}
    NoCall = NoCall
    NoUser = NoUser
    NoConn = NoConn
    FaultKinds = {"ensure", "evict", "drop"}
    MaxFaults = 1
    MaxCallsPerConn = 1
    PassLimit = 2
SYMMETRY Interchangeable
INVARIANT AttributedToToken
