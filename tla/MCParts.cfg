CONSTANTS
    capture = capture
    worker = worker
    agent1 = agent1
    agent2 = agent2
    Emitter = {capture, worker}
    FieldOf <- Fields
    QueueCapacity = 2
    MaxBatch = 2
    MaxEmit = 3
    Client = {agent1, agent2}
    MaxInstances = 2
    MaxOpen = 2
    PrefixBytes = 1
    MaxFrame = 3
    MaxRestart = 1
    Frame = 2
    BufLen = 2
    Ratio = 2
    Taps = 1
    MaxPacket = 2
    MaxSample = 6
    Config = {"office", "branch"}
    Policies = {"p1", "p2"}
    Nothing = "nothing"
    Corrupt = "corrupt"
    Default = "default"
    MaxSync = 4
    MaxLevel = 2
    Margin = 1
    Onset = 2
    Hangover = 2
    Window = 3
    MaxFrames = 6
SPECIFICATION Spec
SYMMETRY Agents
INVARIANTS HolesAreSaid RequestsHonoured SamplesInOrder ConfigKept VoicedIsSpeech RulesRight
CHECK_DEADLOCK FALSE
