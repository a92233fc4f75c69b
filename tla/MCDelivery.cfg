SPECIFICATION FairSpec
CONSTANTS
    a = a
    x = x
    r = r
    p1 = p1
    far = far
    amount = amount
    NoCall = NoCall
    NoAmount = NoAmount
    Calls = {a}
    Strays = {x}
    Gateways = {g1}
    g1 = g1
    Procs = {p1}
    Channels = {far}
    Rules = {r}
    JudgeRules = {r}
    Amounts = {amount}
    Decisions = {""}
    Batch = 1
    MaxInFlight = 2
    MaxDeliver = 2
    MaxStored = 2
    MaxFaults = 1
    MaxActs = 1
PROPERTY ImplementsDuty
INVARIANT NeverStranded
INVARIANT AckedIsRecorded
INVARIANT DeadLetteredUnlessKilled
INVARIANT ReplacedUnlessHandled
PROPERTY HumanDecisionsKept
PROPERTY FinalizedIsSettled
CHECK_DEADLOCK FALSE
