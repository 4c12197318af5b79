SPECIFICATION HarnessSpec
CONSTANTS
    Machine <- AllMachines
    Properties <- MCProperties
    MaxDepth = 3
    ShrinkBudget = 4
    Cases = 2
    MaxStates = 3
    N = 3
    BuildStage = 2
    Projects <- MCProjectsAsked
    Requests <- MCRequests
    Versions = {1, 2, 3}
    Installed = {1, 2, 3}
    Current = 2
    Packages <- MCPackages
    Project = 0
    Workspaces <- MCWorkspaces
    Sources = {1, 2, 3, 4}
    Parent <- MCParent
    MaxCommands = 2
    MaxDeeds = 2
    Corpora <- MCCorpora
    Traits <- MCTraits
    Checkout <- MCCheckout
    Results <- MCResults
    Gate <- MCGate
    MaxSummaries = 2
    ProjectVersions <- MCProjectVersions
    Reviewers = {r1, r2}
    MaxWrites = 3
    Apps <- MCApps
    MaxProbes = 3
    Pages <- MCPages
SYMMETRY SymmetricReviewers
INVARIANTS
    ReportIsTrue
    ClosesWhatItOpens
    VerdictIsEarned
    DenialsHold
    BuildsAreOrdered
    ReviewGoverns
    LossesAreExact
    CoverageIsEarned
    
PROPERTIES
    LocalMinima
    SearchEnds
    FailuresKept
    ImplementsStageGraph
    MaterializesSafely
    RestoresWhatItCan
    AggregateIsWhole
    PassesOnMerit
CHECK_DEADLOCK FALSE
