SPECIFICATION Spec
CONSTANTS
    a = a
    b = b
    u1 = u1
    u2 = u2
    Calls = {a, b}
    Users = {u1, u2}
    NoCall = NoCall
    NoUser = NoUser
    Confirm = 1
    ArmedTimeout = 4
    Hangup = 1
    WrapTime = 2
    Debounce = 1
    SegLen = 3
    PrerollMax = 2
    TrailingGrace = 1
    MaxSeq = 1
    MaxSkew = 0
    FailKinds = {"read", "begin", "push", "end"}
SYMMETRY Interchangeable
INVARIANT NumbersConsecutive
INVARIANT OneTransitionPerStep
INVARIANT ConfirmedBySpeech
INVARIANT OpeningWordsKept
INVARIANT InCallIsRecorded
INVARIANT LastSeqIsHighest
PROPERTY HoldKeepsOneCall
