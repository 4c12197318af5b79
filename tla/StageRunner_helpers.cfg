CONSTANTS
    N = 3
    Paths <- MCPaths
    Wildcard = Wildcard
    Manifests <- FewManifests
    MaxConcurrency = 2
    HelperKinds = {"quiet", "piped"}
    ExitKinds = {"exit0", "exit1"}
SPECIFICATION Spec
INVARIANTS
    SchedulerInv
    VerdictIsHonest
PROPERTIES
    NoSignalAfterSettled
    Terminates
CHECK_DEADLOCK FALSE
