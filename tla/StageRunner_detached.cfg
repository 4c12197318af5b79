CONSTANTS
    N = 3
    Paths <- MCPaths
    Wildcard = Wildcard
    Manifests <- FewManifests
    MaxConcurrency = 2
    HelperKinds = {"detached"}
    ExitKinds = {"exit0", "exit1"}
SPECIFICATION Spec
INVARIANTS
    ResourceExclusion
CHECK_DEADLOCK FALSE
