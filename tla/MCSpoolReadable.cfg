SPECIFICATION Spec
CONSTANTS
    t1 = t1
    t2 = t2
    Tokens = {t1, t2}
    NoToken = NoToken
    MaxCert = 2
    MaxRequest = 1
    MaxFault = 0
    Sessions = {1}
    BackoffCap = 1
    MaxAttempt = 0
    HealthyRun = 1
    QueueCap = 1
INVARIANTS SpoolStaysReadable
