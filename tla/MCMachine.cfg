SPECIFICATION Spec
CONSTANTS
    t1 = t1
    t2 = t2
    Tokens = {t1, t2}
    NoToken = NoToken
    MaxCert = 2
    MaxRequest = 2
    MaxFault = 2
    Sessions = {1}
    BackoffCap = 2
    MaxAttempt = 1
    HealthyRun = 3
    QueueCap = 1
INVARIANTS IdentityHasCredential AgentKeyMatches LockedOutOnlyByLostAnswer RunningIsWatched
SYMMETRY TokenSymmetry
