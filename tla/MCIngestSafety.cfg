SPECIFICATION Spec
CONSTANTS
    a = a
    b = b
    u1 = u1
    u2 = u2
    k1 = k1
    k2 = k2
    Calls = {a}
    Channels = {0}
    MaxSeq = 1
    Users = {u1}
    Conns = {k1, k2}
    NoCall = NoCall
    NoUser = NoUser
    NoConn = NoConn
    FaultKinds = {"ensure", "store", "finish", "evict", "crash", "drop", "restart", "revoke"}
    MaxFaults = 2
    MaxCallsPerConn = 1
    PassLimit = 4
SYMMETRY Interchangeable
CHECK_DEADLOCK FALSE
INVARIANT TypeOK
INVARIANT NoSilentLoss
INVARIANT PromisedIsDurable
INVARIANT EnqueuedOnce
PROPERTY PromisesKept
PROPERTY ImplementsLedger
