SPECIFICATION LiveSpec
CONSTANTS
    t1 = t1
    t2 = t2
    Tokens = {t1}
    NoToken = NoToken
    MaxCert = 1
    MaxRequest = 1
    MaxFault = 1
    Sessions = {1, 2}
    BackoffCap = 1
    MaxAttempt = 0
    HealthyRun = 1
    QueueCap = 1
PROPERTIES SessionServed TokenUsed
