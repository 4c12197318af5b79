CONSTANTS
    Failures <- Distinct
    Length = 3
    Attempts = 3
    Budget = 4
    Configs <- SmallConfigs
    Pids = {p1, p2}
    Installed <- SmallInstalled
    MaxRuns = 3
    MaxFaults = 1
    MaxCrashes = 1
    OpaquePages <- MCPages
    Environments <- MCEnvironments
    OpaqueTraces <- MCTraces
    OpaqueBudgets = {3, 6}
    FreshAttempts = 2
    MaxReplaySteps = 2
    SourceTraces <- MCSourceTraces
    Sites <- MCSites
    Contexts <- MCContexts
    Bounds <- MCBounds
    Scenarios <- MCScenarios
    StatesOf <- MCStatesOf
    InitialState <- MCInitialState
    Operations <- MCOperations
    Transitioned <- MCTransitioned
    Violating <- MCViolating
SPECIFICATION ComponentsSpec
SYMMETRY SymmetricPids
INVARIANTS
    ReplaysJustify
    OneMinimal
    ReportsAreExact
    OnlyVerified
    LosesNothing
    SuccessSettles
CHECK_DEADLOCK FALSE
