SPECIFICATION SessionsSpec
CONSTANTS
    Actions = {"x", "y"}
    Worlds <- MCWorlds
    MaxStates = 5
    MaxTransitions = 5
    MaxDepth = 3
    MaxFaults = 1
    MaxLaunches = 2
    Scripts <- MCScripts
    StableSamples = 3
    Slack = 1
    MaxSamples = 5
    Attempts = 2
    MaxCalls = 2
    MaxRequests = 4
INVARIANTS
    ExplorationIsTrue
    HonestReport
    OneServer
    SettledIsFinal
    ErrorsAreOwn
    OneSession
PROPERTIES
    GenerationMoves
    EveryCallEnds
CHECK_DEADLOCK FALSE
