CONSTANTS
    N = 3
    Paths <- MCPaths
    Wildcard = Wildcard
    Manifests <- MCManifests
    MaxConcurrency = 2
    HelperKinds = {}
    ExitKinds = {"exit0", "exit1"}
SPECIFICATION Spec
INVARIANTS
    ResourceExclusion
    RunsAfterDependencies
    NeverDeadlocked
    WorkConserving
PROPERTIES
    ImplementsStageGraph
CHECK_DEADLOCK FALSE
