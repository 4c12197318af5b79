------------------------------- MODULE MCHarness -------------------------------
(***************************************************************************)
(* Components that share no state, checked in one run: a behaviour is of   *)
(* one of them, the others stay as they began.                             *)
(***************************************************************************)
EXTENDS MCCoreRunner, SequentialRunner, MCProjects, MCPropertyPacks, MCActionInventory

VARIABLE about

\* What a component that is not the subject begins as.
IdleMachine == CHOOSE m \in TwoWayClients : TRUE
IdleOptions == [mode |-> "strict", bootstrap |-> TRUE]
IdleProject == CHOOSE p \in Projects : p.review = "none"
IdleRequest == CHOOSE r \in Requests : r.prepare
IdleWorkspace == CHOOSE w \in Workspaces : w.builders = Packages
IdleSources == CHOOSE p \in ProjectVersions : TRUE
IdleApp == CHOOSE a \in Apps : TRUE
IdlePage == CHOOSE p \in Pages : Len(p) = 1

Subjects == {"core", "sequential", "campaign", "workspace", "corpus", "benchmark",
             "review", "packs", "inventory"}

HarnessInit ==
    /\ about \in Subjects
    /\ (IF about = "benchmark" THEN TRUE ELSE content = 1) /\ BenchmarkInit
    /\ (IF about = "review" THEN TRUE ELSE sources = IdleSources) /\ ReviewInit
    /\ (IF about = "corpus" THEN TRUE ELSE disk = [n \in Sources |-> Absent]) /\ CorpusInit
    /\ (IF about = "sequential" THEN TRUE ELSE dependsOn = [s \in Stages |-> {}] /\ options = IdleOptions)
    /\ Init
    /\ (IF about = "packs" THEN TRUE ELSE app = IdleApp) /\ PacksInit
    /\ (IF about = "inventory" THEN TRUE ELSE shown = IdlePage) /\ InventoryInit
    /\ IF about = "core" THEN CoreInit ELSE machine = IdleMachine /\ RunInit
    /\ (IF about = "campaign" THEN TRUE ELSE project = IdleProject /\ request = IdleRequest) /\ CampaignInit
    /\ (IF about = "workspace" THEN TRUE ELSE workspace = IdleWorkspace) /\ WorkspaceInit

\* A report is cleared before the next one is made, which does not depend on it: the
\* transitions left out have the effect of one taken from the same state without it.
BenchmarkSteps ==
    IF report = Nothing THEN BenchmarkNext
    ELSE RunShard \/ LoseSummary \/ EditCorpus \/ KeepBaseline

HarnessNext ==
    /\ UNCHANGED about
    /\ \/ /\ about = "core" /\ RunNext
          /\ UNCHANGED <<sequentialVars, campaignVars, workspaceVars, corpusVars, benchmarkVars,
                         reviewVars, packsVars, inventoryVars>>
       \/ /\ about = "sequential" /\ Next
          /\ UNCHANGED <<runVars, campaignVars, workspaceVars, corpusVars, benchmarkVars,
                         reviewVars, packsVars, inventoryVars>>
       \/ /\ about = "campaign" /\ CampaignNext
          /\ UNCHANGED <<runVars, sequentialVars, workspaceVars, corpusVars, benchmarkVars,
                         reviewVars, packsVars, inventoryVars>>
       \/ /\ about = "workspace" /\ WorkspaceNext
          /\ UNCHANGED <<runVars, sequentialVars, campaignVars, corpusVars, benchmarkVars,
                         reviewVars, packsVars, inventoryVars>>
       \/ /\ about = "corpus" /\ CorpusNext
          /\ UNCHANGED <<runVars, sequentialVars, campaignVars, workspaceVars, benchmarkVars,
                         reviewVars, packsVars, inventoryVars>>
       \/ /\ about = "benchmark" /\ BenchmarkSteps
          /\ UNCHANGED <<runVars, sequentialVars, campaignVars, workspaceVars, corpusVars,
                         reviewVars, packsVars, inventoryVars>>
       \/ /\ about = "review" /\ ReviewNext
          /\ UNCHANGED <<runVars, sequentialVars, campaignVars, workspaceVars, corpusVars,
                         benchmarkVars, packsVars, inventoryVars>>
       \/ /\ about = "packs" /\ PacksNext
          /\ UNCHANGED <<runVars, sequentialVars, campaignVars, workspaceVars, corpusVars,
                         benchmarkVars, reviewVars, inventoryVars>>
       \/ /\ about = "inventory" /\ InventoryNext
          /\ UNCHANGED <<runVars, sequentialVars, campaignVars, workspaceVars, corpusVars,
                         benchmarkVars, reviewVars, packsVars>>

HarnessSpec ==
    HarnessInit /\ [][HarnessNext]_<<runVars, sequentialVars, campaignVars, workspaceVars,
        corpusVars, benchmarkVars, reviewVars, packsVars, inventoryVars, about>>
===============================================================================
