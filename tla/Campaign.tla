------------------------------- MODULE Campaign -------------------------------
(***************************************************************************)
(* One campaign on an unknown project (protocol/web-project-campaign.mjs): *)
(* it is inspected, a Node runtime is chosen, what is missing is prepared  *)
(* and the inferred manifest is run, or a human is asked for at the first  *)
(* step that cannot be taken safely.  A range of Node versions is a        *)
(* sequence of alternatives, each a set of versions; ranges the engine     *)
(* cannot read are left out, the inspection asks for a review of them.     *)
(***************************************************************************)
EXTENDS Integers, Sequences, FiniteSets, FiniteSetsExt

CONSTANTS
    Projects,   \* records, of the fields named in CampaignInit
    Requests,   \* [prepare, offline, enforced : BOOLEAN]: the options of the call
    Versions, Installed, Current   \* of Node: all, those found, the one that runs

\* The codes of the reviews an inspection may ask for, "none" when it asks for none.
Reviews ==
    {"none", "project_unavailable", "inspection_failed", "inference_review_required",
     "server_review_required", "node_requirement_ambiguous"}

ASSUME CampaignAssumption ==
    /\ Versions \subseteq Nat \ {0} /\ Installed \subseteq Versions /\ Current \in Installed
    /\ IsFiniteSet(Installed)
    /\ \A p \in Projects :
         p.review \in Reviews /\ {p.range, p.hidden} \subseteq Seq(SUBSET Versions)
    /\ \A r \in Requests : {r.prepare, r.offline, r.enforced} \subseteq BOOLEAN

VARIABLES
    project, request,
    phase,     \* the step the campaign takes next
    node,      \* the version chosen, 0 before
    manager,   \* the last probe of the package manager's runtime
    deps,      \* the last look at the installed dependencies
    calls,     \* the commands of the target run so far, in order
    verdict

campaignVars == <<project, request, phase, node, manager, deps, calls, verdict>>

CampaignInit ==
    /\ project \in Projects     \* review, install, build, served, declared, range,
                                \* hidden, workspace, moon
    /\ request \in Requests
    /\ phase = "inspect" /\ node = 0 /\ manager = "unknown" /\ deps = "unknown"
    /\ calls = <<>> /\ verdict = [status |-> "none"]

-----------------------------------------------------------------------------
InRange(range, v) == range = <<>> \/ \E i \in DOMAIN range : v \in range[i]
OpenEnded(range) == \A i \in DOMAIN range : \A v \in range[i] : \A w \in Versions : w >= v => w \in range[i]

\* resolveNodeRuntime, without a preferred version; 0 when none is compatible.
Select(range) ==
    LET fit == {v \in Installed : InRange(range, v)}
    IN IF range = <<>> THEN Current
       ELSE IF fit = {} THEN 0
       ELSE IF OpenEnded(range) THEN Min(fit)
       ELSE IF Current \in fit THEN Current
       ELSE Max(fit)

\* Two ranges are written one after the other, so that the last alternative of one
\* and the first of the other become one.
Combine(a, b) ==
    IF a = <<>> THEN b
    ELSE SubSeq(a, 1, Len(a) - 1) \o <<a[Len(a)] \cap b[1]>> \o Tail(b)

Called(what, network, end) ==
    calls' = Append(calls, [what |-> what, network |-> network, node |-> node, end |-> end])

-----------------------------------------------------------------------------
NotRun == [status |-> "none", exit |-> "none"]
Unreached == [build |-> NotRun, browser |-> NotRun]
Completed == {"pass", "quality_gate_failed"}
Blamed == IF project.declared THEN "failed" ELSE "unknown"

\* A slip: a timeout is taken for a failure of the target.
ViabilityHasty(code, stages) ==
    CASE code \in {"prepare_failed", "prepare_timeout"} -> "failed"
      [] OTHER -> "unknown"

\* classifyCampaignTargetViability: whether the target itself is broken.
Viability(code, stages) ==
    IF code = "none" THEN "qualified"
    ELSE IF stages.build.exit = "nonzero" THEN Blamed
    ELSE CASE code = "prepare_failed" -> "failed"
           [] code = "workspace_prepare_failed" ->
                IF phase = "workspace" /\ project.workspace = "javascript" THEN "failed" ELSE "unknown"
           [] code \in {"project_build_failed", "server_readiness_failed"} -> Blamed
           [] code = "campaign_stage_timeout" ->
                IF stages.browser.status = "timeout" THEN "qualified" ELSE "unknown"
           [] OTHER -> IF stages.browser.status \notin {"none", "blocked"} THEN "qualified" ELSE "unknown"

Conclude(code, stages) ==
    /\ phase' = "done"
    /\ verdict' = [status |-> IF code = "none" THEN "completed" ELSE "intervention-required",
                   code |-> code, viability |-> Viability(code, stages), stages |-> stages]

Intervene(code) == Conclude(code, Unreached)
Go(p) == phase' = p /\ UNCHANGED verdict

-----------------------------------------------------------------------------
\* What the inspection leaves open is asked before anything of the target runs.
Inspect ==
    /\ phase = "inspect"
    /\ IF project.review = "none" THEN Go("runtime") ELSE Intervene(project.review)
    /\ UNCHANGED <<project, request, node, manager, deps, calls>>

\* What probePackageManagerRuntime and webProjectDependencyReadiness may find.
ManagerFound == {"ready", "prepare-required", "unavailable"}
DepsFound ==
    IF project.install /\ (project.build \/ project.served) THEN {"ready", "missing", "unknown"} ELSE {"ready"}

ProbeRuntime == manager' \in ManagerFound /\ deps' \in DepsFound

ChooseRuntime ==
    /\ phase = "runtime" /\ node' = Select(project.range)
    /\ IF node' = 0
       THEN Intervene("node_runtime_required") /\ UNCHANGED <<manager, deps>>
       ELSE /\ ProbeRuntime
            /\ IF project.install /\ manager' = "unavailable"
               THEN Intervene("package_manager_runtime_unavailable")
               ELSE IF manager' # "prepare-required" /\ deps' # "missing" THEN Go("ready")
               ELSE IF request.prepare THEN Go("prepare") ELSE Intervene("prepare_required")
    /\ UNCHANGED <<project, request, calls>>

\* A slip: the answer to the first install is not asked for another range.
PrepareOnce ==
    /\ phase = "prepare" /\ project.install
    /\ \E end \in {"ok", "failed", "timeout"} :
         /\ Called("install", TRUE, end)
         /\ IF end = "ok" THEN Go("recheck") ELSE Intervene("prepare_failed")
    /\ UNCHANGED <<project, request, node, manager, deps>>

\* prepareWebProject: a failed install may name the range a dependency asks for.
Install(end, named) ==
    /\ Called("install", ~request.offline, end)
    /\ named => end = "failed" /\ project.hidden # <<>>

\* Where the install named a range, another runtime is looked for, once.
PrepareProject ==
    /\ phase \in {"prepare", "prepare-again"}
    /\ IF ~project.install THEN Go("recheck") /\ UNCHANGED <<node, calls>>
       ELSE \E end \in {"ok", "failed", "timeout"}, named \in BOOLEAN :
              /\ Install(end, named)
              /\ LET other == Select(Combine(project.range, project.hidden))
                     again == named /\ phase = "prepare"
                 IN /\ node' = IF again THEN other ELSE node
                    /\ CASE again /\ other = 0 -> Intervene("node_runtime_required")
                         [] again /\ other \notin {0, node} -> Go("prepare-again")
                         [] end = "ok" -> Go("recheck")
                         [] OTHER -> Intervene(IF end = "timeout" THEN "prepare_timeout"
                                                                  ELSE "prepare_failed")
    /\ UNCHANGED <<project, request, manager, deps>>

Recheck ==
    /\ phase = "recheck" /\ ProbeRuntime /\ Go("ready")
    /\ UNCHANGED <<project, request, node, calls>>

CheckReady ==
    /\ phase = "ready"
    /\ IF project.install /\ manager # "ready" THEN Intervene("package_manager_prepare_incomplete")
       ELSE IF deps = "missing" THEN Intervene("dependency_prepare_incomplete")
       ELSE Go("workspace")
    /\ UNCHANGED <<project, request, node, manager, deps, calls>>

\* compileWebProjectManifestV2, which throws at what is still to be reviewed.
CompileManifest == Go("sandbox") \/ Intervene("compile_review_required")

\* prepareWebProjectWorkspace, and the compilation of the manifest after it.
PrepareWorkspace ==
    /\ phase = "workspace"
    /\ IF project.workspace \in {"none", "refused"} THEN UNCHANGED calls
       ELSE IF request.prepare
            THEN \E end \in {"ok", "failed", "timeout", "absent"} : Called("workspace", FALSE, end)
            ELSE UNCHANGED calls
    /\ IF project.workspace = "refused" THEN Intervene("workspace_review_required")
       ELSE IF project.workspace # "none" /\ ~request.prepare THEN Intervene("workspace_prepare_required")
       ELSE IF calls' # calls /\ calls'[Len(calls')].end # "ok" THEN Intervene("workspace_prepare_failed")
       ELSE CompileManifest
    /\ UNCHANGED <<project, request, node, manager, deps>>

\* prepareMoonWorkspaceForSandbox: build; when the registry lacks a module, update it
\* and build again.
MoonBuild(end) == Called("moon build", TRUE, end)

PrepareSandbox ==
    /\ phase = "sandbox"
    /\ IF project.moon /\ request.enforced
       THEN IF ~request.prepare THEN Intervene("workspace_prepare_required") /\ UNCHANGED calls
            ELSE \E end \in {"ok", "failed", "timeout", "unlisted"} :
                   /\ MoonBuild(end)
                   /\ CASE end = "ok" -> Go("run")
                        [] end = "unlisted" -> Go("moon-update")
                        [] OTHER -> Intervene("workspace_prepare_failed")
       ELSE Go("run") /\ UNCHANGED calls
    /\ UNCHANGED <<project, request, node, manager, deps>>

UpdateRegistry ==
    /\ phase = "moon-update"
    /\ \E end \in {"ok", "failed", "timeout"} :
         /\ Called("moon update", TRUE, end)
         /\ IF end = "ok" THEN Go("moon-again") ELSE Intervene("workspace_prepare_failed")
    /\ UNCHANGED <<project, request, node, manager, deps>>

BuildAgain ==
    /\ phase = "moon-again"
    /\ \E end \in {"ok", "failed", "timeout"} :
         /\ MoonBuild(end)
         /\ IF end = "ok" THEN Go("run") ELSE Intervene("workspace_prepare_failed")
    /\ UNCHANGED <<project, request, node, manager, deps>>

-----------------------------------------------------------------------------
\* The two stages of a compiled manifest; the browser stage depends on the build.
Builds ==
    IF project.build
    THEN {[status |-> "pass", exit |-> "zero"], [status |-> "quality_gate_failed", exit |-> "nonzero"],
          [status |-> "execution_failed", exit |-> "nonzero"],
          [status |-> "execution_failed", exit |-> "none"], [status |-> "timeout", exit |-> "none"]}
    ELSE {NotRun}
Browsers(build) ==
    IF build.status \in {"pass", "none"}
    THEN {[status |-> s, exit |-> "any"] :
            s \in {"pass", "quality_gate_failed", "usage_error", "unready", "timeout"}}
    ELSE {[status |-> "blocked", exit |-> "none"]}

\* classifyCampaignStageIntervention: of the stages that did not complete, the first
\* that was not blocked, else the first.
StageCode(stages) ==
    LET broken == stages.build.status \notin Completed \cup {"none"}
        primary == IF broken THEN stages.build ELSE stages.browser
    IN IF ~broken /\ primary.status \in Completed THEN "none"
       ELSE IF primary.status = "timeout" THEN "campaign_stage_timeout"
       ELSE IF broken THEN "project_build_failed"
       ELSE IF primary.status = "unready" THEN "server_readiness_failed"
       ELSE "browser_stage_failed"

RunProject ==
    /\ phase = "run"
    /\ \/ Intervene("campaign_execution_failed") /\ UNCHANGED calls
       \/ \E build \in Builds : \E browser \in Browsers(build) :
            LET stages == [build |-> build, browser |-> browser]
            IN /\ Called("run", request.enforced /\ request.prepare /\ ~request.offline, build.status)
               /\ Conclude(StageCode(stages), stages)
    /\ UNCHANGED <<project, request, node, manager, deps>>

CampaignNext ==
    \/ Inspect \/ ChooseRuntime \/ PrepareProject \/ Recheck \/ CheckReady
    \/ PrepareWorkspace \/ PrepareSandbox \/ UpdateRegistry \/ BuildAgain \/ RunProject

CampaignSpec == CampaignInit /\ [][CampaignNext]_campaignVars

-----------------------------------------------------------------------------
OfKind(what) == {i \in DOMAIN calls : calls[i].what = what}
SingleRanges == Len(project.range) <= 1 /\ Len(project.hidden) <= 1

\* The campaign went on after an install that failed, because it named a range.
Negotiated == \E i \in OfKind("install") : calls[i].end # "ok"

\* The runtime fits the project's range; after a negotiation it fits this and the range
\* the install named, if each is of one alternative (see Combine).
RuntimeFits ==
    IF Negotiated THEN SingleRanges => InRange(project.range, node) /\ InRange(project.hidden, node)
    ELSE InRange(project.range, node)

\* A completed campaign ran the project on what it had prepared: every stage ran, the
\* dependencies were there, and the runtime of the run is the one of the last install
\* and fits the ranges it was chosen for.
CompletedOnPrepared ==
    verdict.status = "completed" =>
        /\ verdict.stages.browser.status \in Completed
        /\ project.build => verdict.stages.build.status = "pass"
        /\ deps # "missing" /\ (project.install => manager = "ready")
        /\ \A i \in OfKind("install") : calls[i].end = "ok" => calls[i].node = node
        /\ OfKind("install") # {} => calls[Max(OfKind("install"))].end = "ok"
        /\ RuntimeFits

\* What the caller denied is not done: without prepare nothing of the target runs before
\* its stages, and none with the network open; offline, no install and no stage has it.
DenialsHold ==
    /\ ~request.prepare => \A i \in DOMAIN calls : calls[i].what = "run" /\ ~calls[i].network
    /\ request.offline => \A i \in OfKind("install") \cup OfKind("run") : ~calls[i].network
    /\ project.review # "none" => calls = <<>>

\* A campaign reports that it reached the browser only when it did, and blames the target
\* of what it did not complete only when a command of the target did not succeed.
ViabilityIsEarned ==
    phase = "done" =>
        /\ verdict.viability = "qualified" => verdict.stages.browser.status \notin {"none", "blocked"}
        /\ verdict.viability = "failed" =>
             \/ \E i \in DOMAIN calls : calls[i].what # "run" /\ calls[i].end \notin {"ok", "timeout"}
             \/ \E i \in OfKind("workspace") : calls[i].end = "timeout"
             \/ project.declared /\ verdict.stages.build.status \notin {"pass", "none", "timeout"}
             \/ project.declared /\ verdict.stages.browser.status = "unready"

\* What a campaign says of a target it did: completed or not, and to be blamed or not.
VerdictIsEarned == CompletedOnPrepared /\ ViabilityIsEarned
===============================================================================
