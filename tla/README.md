# Proped: a TLA+ model of the exploration tool

Proped explores user interfaces deterministically: a MoonBit core walks a model
client, a set of Node modules drives real Web projects (building them, serving
them, exploring them in a browser, replaying and shrinking what was found), and
a Rust command line prepares the runtimes all of that needs. This directory
holds TLA+ models of the parts whose behaviour is hard to test, the TLC
configurations that check them and proofs about some of them.

Paths below are those of the repository (`protocol/x.mjs`, `src/core.mbt`,
`crates/proped-cli/src/setup.rs`).

1. [Inventory](#1-inventory)
2. [Modules](#2-modules)
3. [What the runs check](#3-what-the-runs-check)
4. [Bounds](#4-bounds)
5. [Fairness](#5-fairness)
6. [What is proved](#6-what-is-proved)
7. [Disagreements found](#7-disagreements-found)
8. [Not modelled](#8-not-modelled)
9. [Plan](#9-plan)

## 1. Inventory

| Component | State it keeps | Operations | Hard behaviour | What makes it correct |
|---|---|---|---|---|
| **Core** `src/core.mbt`: runner, replay, shrinker | the report (states, transitions, failures, diagnostics, observations), the walk of a case, the locals of `shrink_trace` | visit, act, `append_failure`, delete / replace a message, replay | a candidate trace may be unreachable; ids may be ambiguous; shrink functions may run in circles; limits bite in the middle of a case | the graph is closed; counterexamples are reachable, shown and never lost; the search ends at a local minimum |
| **Stage runner** `protocol/web-project-runner.mjs` | pending, running, active resources, results | scan, start, block, await, record; mount and unmount an overlay | concurrent stages, conflicting directories, results in any order, exceptions anywhere | exclusion, dependency order, no deadlock, no needless wait, one final verdict per stage; what is opened is closed, but for what a failing call leaves |
| **Process trees** `protocol/web-process-tree.mjs` | the closure of one promise: pid, timer, error, settled | spawn, kill the group, time out, overflow, "close" | a timeout races the exit; helpers outlive their parent | the verdict is honest, no signal after settling |
| **Command server** `protocol/web-command-server.mjs` | child, `current`, generation, selected URL | start, poll, restart, stop, abandon | an old process keeps the port; the root exits before its helpers | the answer comes from the new launch; a stop lets survive only what it could not see |
| **Coverage-guided exploration** `protocol/web-coverage-guided-exploration.mjs`, **environment checkpoints** `protocol/environment-checkpoints.mjs` | graph of states, executed edges, failures, current trace, baseline | select, reset, restore, replay, execute, checkpoint | the application moves by itself; side effects leak between siblings; calls fail | the graph and the report are true |
| **Replay gate, finding groups, actionable findings** `protocol/web-exploration-replay-gate.mjs`, `web-replay-gate.mjs`, `web-actionable-finding.mjs`, `web-finding-group.mjs` | results of the campaigns, the groups left, the trace being shrunk | replay, promote, group, delete, verify | flaky findings, budgets that run out between the two passes | what is promoted reproduced, what is called minimal is |
| **Network and timer schedules** `protocol/network-timer-schedule.mjs` | a virtual runtime: requests, retries, callbacks, generations; the queue of the search | type, fire, deliver, fail, explore, shrink | answers of two generations in any order | no false accusation, no schedule missed, shortest reports |
| **Managed setup** `crates/proped-cli/src/setup.rs` | directories below a shared root, per process staging and backups | check, download, fill, verify, promote by renames, probe | concurrent setups, crashes, pids used again | only verified directories are promoted, a healthy one is never lost |
| **Driver protocol server** `protocol/jsonl-server.mjs`, `ui-driver-v1.mjs`, over the Playwright driver | negotiated, disposed; the browser, context and page of the driver | hello, reset, execute, dispose, shutdown, each with a timeout | a dispatch goes on after its request was answered | every request is answered; what lives is what the driver holds |
| **Browser driver** `web/playwright-browser/generic-browser-driver.mjs`, **semantic quiescence** `protocol/semantic-quiescence.mjs` | pending requests, recorded errors, the last settle | reset, execute, reload, go back, restart, snapshot; sample, settle | the page goes on by itself, leaves for another document, never rests | what is called settled is; errors belong to their page and call; every call ends |
| **Action inventory** the same driver's descriptions, discovery and locators | none between two inventories | describe, discover, count | three filters in a row | what a person can do is offered or told, but for two known gaps |
| **Property packs** `protocol/web-generic-property-packs.mjs`, **server hooks** `protocol/web-server-hooks.mjs` | what the probes found and executed | reset, probe, reload, restart, compare | state in three places, of which two survive a reload and one a restart | a loss that is reported is one, one that can be seen is reported |
| **Multi-context scheduler** `protocol/web-multi-context-scheduler.mjs` | the states known with their traces, the limits met | explore, replay a schedule | limits in the middle of a state | reports replay, flags are true |
| **Replay across modes** `protocol/cross-mode-replay.mjs`, **opaque replay** `protocol/opaque-web-*.mjs` | a trace, the budget of replays, the export | map an action id; minimise, confirm, export, replay, observe | ambiguous ids; state outside of the page | what is reported stands on the target; a minimal trace is one |
| **Campaigns** `protocol/web-project-campaign.mjs` with inspection, doctor, runtimes, preparation (`web-project-*.mjs`) | the runtime chosen, the last probes | inspect, choose, prepare, check, build the workspace, run | failures and timeouts of each command; a second choice of the runtime | the verdict is earned; what the caller denied is not done |
| **Workspace builds** `protocol/web-project-workspace-prebuild.mjs` | the frames of a walk | visit, leave, build | cycles | dependencies are built first, and nothing else |
| **Corpus** `protocol/web-project-corpus-materialize.mjs` | checkouts, a staging directory, ignored files noted | materialize, verify, run, restore | crashes; others' changes; one restore of several fails | a checkout is whole or absent; nobody's work is lost; what Git can restore is restored |
| **Benchmarks** `protocol/web-project-benchmark*.mjs`, `-baseline.mjs`, `-corpus.mjs` | summaries of shards, a baseline | run, shard, aggregate, gate | summaries lost, doubled, of another corpus | an aggregate is what one benchmark would report; the gates pass on merit |
| **Semantic review** `protocol/web-volatility-miner.mjs`, `web-semantic-*.mjs`, `web-approved-semantics-runtime.mjs` | review, plan, hints, manifest: four files | mine, review, decide, compile, apply, run | two reviewers on one file; the project changes | only the approved acts, never on state of the user |
| Flow graph and atlas `src/flow.mbt`, `atlas.mbt`, `flow_atlas.mbt`, `atlas_html.mbt` | none | rank, break cycles, lay out, print | cycles | see [section 8](#8-not-modelled) |
| Archive extraction `crates/proped-cli/src/archive/` | files below a directory | create, link, reject | order of entries | see [section 8](#8-not-modelled) |
| Sandbox profiles, command lines, external harnesses, mutation benchmarks, incidents, releases, disclosure checks | none, or one pass | parse, validate, print | | see [section 8](#8-not-modelled) |

How they interact. A corpus names targets and their checkouts; a benchmark
prepares the checkouts, runs one campaign per target and restores them. A
campaign prepares a project and hands a manifest to a stage runner. The stage
runner starts each stage through `spawnIsolated`; its stages are commands of
their own, among them the browser stage, which starts the project's server with
the command server, explores it through a browser driver (with a restart between
checks), runs the property packs, hands the failures to the replay gate, and the
promoted ones to the analysis or to another mode's replay. What was approved in
a semantic review comes with the manifest. The core is independent: it is called
with a client in the same program. The setup is run by the user before, and
beside, any of this; what it promotes is what the others start. They share no
memory; they interact by calls, by processes and signals, by files and ports.

## 2. Modules

| Module | Models | State and actions |
|---|---|---|
| `StageGraph` | the promise of a run, whichever runner executes it | one action `Report(s)`: a verdict after all dependencies, blocked exactly by those that did not pass, and final |
| `ProcessTree` | `spawnIsolated` | `tree[c]` is the closure of one call: phase of the promise, main process, helpers by kind, exit, error, timer. `Timeout`, `Overflow`, `Close` are its callbacks; `StartHelper`, `HelperExits`, `MainExits` are the command's |
| `StageRunner` | `runWebProjectConcurrent` | instantiates `ProcessTree` with the stages as children. `pending`, `running`, `activeResources`, `byId` are the code's; the `for` loop is one action per stage and outcome (`ScanSkip`, `ScanBlocked`, `ScanFull`, `ScanStart`), since processes go on meanwhile; `Settle`, `Complete`, `Abort` are the code after it |
| `SequentialRunner` | `runWebProject` | what becomes of the overlay and of each command's private directory, network modes of the attempts; any call may throw, one that makes a directory also after it was made, and a removal may fail |
| `Machines` | a model client, `replay_failure`, trace keys | operators on a record of tables: `update`, `actions`, `shrink`, ids, fingerprints, properties; `IsMachine` says that they are total |
| `Shrinker` | `shrink_trace` | `job` holds its locals; one action per candidate evaluated |
| `CoreRunner` | `run_validated`, `append_failure` | extends `Shrinker`: a failing property makes the walk start a job and wait for it. The pseudo-random index is any index |
| `CommandServer` | `startWebCommandServer` and `stopChild` | processes of each launch (root, a helper in its group, a stray out of it) with the parent each has while that lives; any of them starts others and leaves at any time, also during a stop. The port, the polling loop, the two steps of a stop; `loose` is a history of what a stop could not see |
| `WebExplorer` | `exploreWebCoverageGuided`, the checkpoints | one action per driver call; the application is a record of tables and may change by itself between iterations |
| `FindingReplay` | gate, promotion, grouping, shrinking | a trace is the set of positions kept; `shows` says which traces reproduce, `fickle` which findings may fail to |
| `VirtualSchedule` | the virtual network and timer runtime | a function from a runtime and an action to a runtime, and the property codes of a step |
| `ScheduleExplorer` | `exploreSchedules`, `shrinkSchedule` | breadth-first queue over `VirtualSchedule`, then one shrink per code |
| `ManagedSetup` | `run_setup` | one action per file-system call another process or a crash can come between |
| `DriverHost` | the request loop of `serveJsonl` with its driver | `tasks[n]` is the dispatch of request n at the `await` it has reached. `Request`, `TimesOut`; `Closed`, `Launched`, `ContextMade`, `PageReady`, `Disposed`, `Rejected` are the ends of its awaits |
| `BrowserSession` | `GenericPlaywrightBrowserDriver` and the settle loop | `page` moves by `PageStep`, with the listeners that `createContext` put on it; the calls go through `Hook`, `ResetPage`, `Load`, `Before`, `Act`, `BeginSample`, `EndSample`, `Snapshot`, one action per await |
| `ActionInventory` | `domDescriptors`, `discoverAccessibleActions`, the locators | `Take` is an inventory of the page shown: every role, an element without a name, a list without options |
| `PropertyPacks` | the packs and the server hooks they use | a pack is a sequence of probes; an application keeps what an action changes on the server, in the storage or in the page |
| `ContextScheduler` | `exploreMultiContextSchedules`, `replay...` | a breadth-first queue; the scenario's functions are constants |
| `OpaqueReplay` | `opaque-web-replay-v1.mjs`, the observation and the export | one action per replay; `environment` is what the application keeps outside of the page |
| `CrossModeReplay` | `cross-mode-replay.mjs`, `stable-action-id` mapping | one action per target action; an id is what it says, the scopes it is in, and its spelling |
| `Campaign` | `runWebProjectCampaign` | one action per step, in the code's order: `Inspect`, `ChooseRuntime`, `PrepareProject`, `Recheck`, `CheckReady`, `PrepareWorkspace`, `PrepareSandbox`, `UpdateRegistry`, `BuildAgain`, `RunProject`. `calls` are the commands of the target run so far |
| `WorkspaceOrder` | `web-project-workspace-prebuild.mjs` | `path` are the frames of the depth-first walk: `VisitDependency`, `Leave`, then `Build` |
| `Corpus` | materialization and the restoring benchmark | one action per Git command that may fail, or after which the process may die (`Die`). `RestoreSource` puts back one source, whole or half way. `OthersWork` and `TargetWrites` change what is on the disk, ignored paths included |
| `Benchmark` | summaries, shards, gates | `BenchmarkCorpus`, `RunShard`, `Aggregate`, `KeepBaseline`; `LoseSummary` and `EditCorpus` are others'. The gate asks all the code's does, the breadth of the corpus included |
| `SemanticReview` | mining, review, plan, hints, manifest | one action per command on the four files; `ReadPlan` and `Decide` are the two halves of a decision |
| `StageRunnerProofs`, `SessionsProofs`, `WebExplorerProofs`, `CoreProofs`, `ComponentsProofs`, `ScheduleProofs`, `CampaignProofs`, `SemanticReviewProofs` | | the proofs ([section 6](#6-what-is-proved)) |
| `MC*` | | small clients, manifests, applications and bounds. `MCComponents` (six subjects), `MCHarness` (nine) and `MCSessions` (four) each run components that share nothing as one specification, one component per behaviour |

Operators beside a definition ("A slip: ...") are plausible mistakes
in that piece of code; with one put in place, some property of a run is
violated. They belong to no specification.

Data are abstracted to what the properties tell apart: messages, traces, paths
and fingerprints are members of small sets, and the contents of a directory are
one of "absent", "old", "partial", "bad", "ready".

## 3. What the runs check

Every run is `tlc -config X.cfg Module` in this directory.

| Run | Specification | Properties |
|---|---|---|
| `stages_safety` (`MCStageRunner`, `StageRunner_safety.cfg`) | `StageRunner` without helpers, the manifests of the bounds | `ResourceExclusion`, `RunsAfterDependencies`, `NeverDeadlocked`, `WorkConserving` (while the scheduler awaits, a ready stage finds every slot taken or one of its resources, and none that can only be blocked is left without its verdict), `ImplementsStageGraph` |
| `stages_helpers` (`StageRunner_helpers.cfg`) | with helpers in the process group | `SchedulerInv` (the invariant of the proofs), `VerdictIsHonest`, `NoSignalAfterSettled`, `Terminates`: the report is final and nothing is alive behind it |
| `components` (`MCComponents`, `Components.cfg`) | findings, schedules, setup, opaque replay, cross-mode replay, contexts | `ReplaysJustify`, `OneMinimal`, `ReportsAreExact`, `OnlyVerified`, `LosesNothing`, `SuccessSettles` |
| `harness` (`MCHarness`, `Harness.cfg`) | core, sequential runner, campaign, workspace, corpus, benchmark, review, packs, inventory | `ReportIsTrue`, `LocalMinima`, `SearchEnds`, `FailuresKept`; `ClosesWhatItOpens`, `ImplementsStageGraph`; `VerdictIsEarned`, `DenialsHold`; `BuildsAreOrdered`; `MaterializesSafely`, `RestoresWhatItCan`; `AggregateIsWhole`, `PassesOnMerit`; `ReviewGoverns`; `LossesAreExact`, `CoverageIsEarned`; `DropsAreKnown` |
| `sessions` (`MCSessions`, `Sessions.cfg`) | exploration, command server, browser session, driver host | `ExplorationIsTrue`, `HonestReport`; `OneServer`, `GenerationMoves`; `SettledIsFinal`, `ErrorsAreOwn`; `OneSession`; `EveryCallEnds` |
| `stages_detached`, `core_steps`, `server_leak`, `findings_classes`, `packs_mutate`, `inventory_disabled`, `driver_release` | | each violates one property a document or a test states ([section 7](#7-disagreements-found)) |

A property that is a conjunction of named parts:

| Property | Its parts |
|---|---|
| `ReportIsTrue` | `WalkIsClosed`, `CounterexamplesShown`, `WalkDeterministic` |
| `FailuresKept` | `FailureNeverLost`, `FailuresImprove`: a failure once found stays in the report, and its counterexample is replaced by a shorter one only |
| `ClosesWhatItOpens` | `LeftOnlyByFailure` (a directory stays only where its removal failed, or the call that made it threw), `InPlace` (what a command works in is there until it is over), `NetworkOpensOnce` |
| `VerdictIsEarned` | `CompletedOnPrepared`: a completed campaign ran on what its last preparation left, with the runtime that was prepared, which fits the ranges it was chosen for (`RuntimeFits`: the project's, and after a failed install also the one that install named); `ViabilityIsEarned`: it blames a target only for a command of the target |
| `MaterializesSafely` | a group appears whole or not at all, and nothing others left is written over |
| `RestoresWhatItCan` | `LeavesNoTrace`, `RestoresTheOthers` |
| `ReviewGoverns` | `OnlyTheApproved`, `StateIsNeverReplaced`, `VerdictIsOfTheDomain` |
| `LossesAreExact` | `PacksTypeOK`, `LossesAreReal`, `FindsTheLoss` |
| `ExplorationIsTrue` | `GraphIsTrue`, `FailuresReplay`, `SteadyReplays` |
| `OneServer` | `OnlyLooseSurvive`: what outlives a stop was not shown below the root by `ps`, or was started since, and is in the root's group only where the root had an exit code; `AnswerIsFresh` |
| `EveryCallEnds` | `ExplorationEnds`, `CallsReturn`, `CallsEnd`, `RequestsAnswered` |
| `ReplaysJustify` | `PromotionIsJust`, `ShrinksTheStable` (findings), `OpaqueFaithful`, `CrossModeStands` (a target trace stands without its source; a mapping does not depend on the other actions offered) |
| `OneMinimal` | `FindingIsMinimal`, `OpaqueMinimal` |
| `ReportsAreExact` | `SchedulesExact` (no false accusation, no schedule missed, shortest reports), `InterleavingsExact` (traces replay and are shortest; each limit flag says what it cut off) |
| `LosesNothing` | `UndisturbedSucceeds`, `ReadyReused`, `OldRestored` |

Type invariants are the first conjunct of a safety invariant where a module has
one (`WalkIsClosed` of `CoreRunner`, `OnlyVerified` of `ManagedSetup`,
`LossesAreExact` of `PropertyPacks`, ...).

`CHECK_DEADLOCK FALSE` stands in every configuration because every modelled
program ends: a report is returned, a call throws, a setup exits. Where the end
itself is at stake there is a property for it (`NeverDeadlocked`, `Terminates`,
`EveryCallEnds`, `SearchEnds`).

The abstract specification `StageGraph` is implemented by both stage runners
under a refinement mapping: `ImplementsStageGraph` is a property of two runs.

## 4. Bounds

* **Stages**: three stages, at most two at a time. Five dependency graphs
  (independent, a pair, chain, fork, join) times the declarations of resources
  out of "undeclared", "none", `dist` and `dist/client`: of stages that may
  change places one order, of a stage that never runs beside another "none", of
  the two of the pair the same. Three stages are the least with which a stage may be passed over while another starts, and
  with which one of two dependencies fails. With helpers, a directory inside
  another and undeclared resources: the declarations that differ in kind.
* **Shrinker**: three messages, two of which may share an id (two that do may
  be at the two ends of a chain of smaller messages), traces of up to three, a budget of four evaluations, so that it runs out in each of the two
  loops and also suffices.
* **Core**: depth 3, two cases, three states, the budget of the shrinker; in
  `core_steps` depth 2 and budget three. The limit on states is met by the walk
  and by a counterexample, and a second case meets a property that has failed before. Two families of clients exist for one
  question each: properties of transitions, and two ways to a failure.
* **Server**: two launches, hence one restart, with three processes each: the
  least with which a process has a parent other than the root that may die first.
* **Exploration**: two actions, five states, five transitions, depth three, one
  failing call or change of the application's own. The applications are all
  combinations of a few effects (flip, save, load, a coin), resets (fresh,
  resuming, writing) and offers, and for stateless drivers counters with jumps.
* **Findings**: three failures, two in one group, traces of three actions, three
  campaigns, four evaluations: the budget runs out in the deletions and in the
  pass that verifies them.
* **Schedules**: corpora of one and two queries, one and two generations, retry
  budgets 0 and 1, no fault, each fault and all, depths 0 and 5, limits of 5 and
  2000 transitions. Depth 6 was checked as well.
* **Setup**: two pids, three setups, one failing call, one crash, three contents
  of the root, in which each part is once absent, once of another release and once
  ready. All 27 contents were checked once (12.7 million states). The
  pids are symmetric. With three pids at once `SuccessSettles` only says that
  nothing is missing: of three overlapping setups one may find absent what the
  third has moved away, and put an outdated directory back in its place.

* **Browser session**: three stable samples (the stage's own number) of at most
  five, a page that lets at most one fingerprint pass between two steps of its
  own, two attempts at a navigation race (four in the code), two calls. The pages
  rest, throw, load data, and leave for another document which asks and throws.
  Two attempts suffice for one retry that works and one that does not.
* **Driver host**: four requests: a hello, a reset that may overrun, a dispose
  and what comes after.
* **Campaigns**: three versions of Node, all installed; ranges that are absent,
  open-ended, or two alternatives; every end of every command.
* **Workspace**: a project and three packages, every dependency graph between
  them and every choice of those with a build script: with three packages a
  cycle may be of two of which one has no script, and a build may be needed by
  way of a package that has none.
* **Corpus**: two groups, one with a source nested in a nested source; two
  commands and two deeds of others or of targets, so that a checkout made by the
  first command can be changed and be used by a second. The checkouts may be there
  at the beginning, with an ignored path each; targets may add another.
* **Benchmarks**: three targets, two in one checkout, and three contents of the
  corpus: one the gate has nothing to say of, one that gains a target and lacks a
  topology, one that lacks a repository and has lines of an adapter; two summaries at a time, which suffice to be complete, doubled, stale or
  missing. An unsharded benchmark is only run while there are no summaries, and
  `MCHarness` clears a report before the next one is made, which does not depend on it.
* **Semantic review**: two versions of a project, two reviewers (symmetric),
  three writes: a plan, a decision read before and written after another.
* **Packs**: applications by what they offer, where they keep it, whether the
  server forgets, has a hook, can be restarted and shows its state; three probes,
  so that one application has a mutation of each family among them.
* **Opaque replay**: four pages on two environments (pages that keep nothing, one
  that changes what it keeps, one that then behaves differently), traces of up to
  three actions, budgets of three and six replays, two fresh attempts, exports of
  up to two steps. **Cross-mode**: sites of three states over seven inventories
  with exact, relaxed, doubled, scoped and malformed ids. **Contexts**: three
  scenarios of two contexts under every combination of small and large bounds.

`MaxLaunches`, `MaxFaults`, `MaxRuns`, `MaxCrashes`, `MaxCalls`, `MaxRequests`,
`MaxCommands`, `MaxDeeds`, `MaxSummaries`, `MaxWrites` and `Slack` bound the
environment and have no counterpart in the code; `MaxStates`, `MaxTransitions`,
`MaxDepth`, `ShrinkBudget`, `Budget`, `MaxConcurrency`, `StableSamples`,
`MaxSamples`, `Attempts`, `FreshAttempts`, `MaxReplaySteps` and `MaxProbes` are
the code's own options or constants, at small values.

Three properties were once stated more strongly than the code is, and these bounds
did not show it; the attempt at a proof did. A stage that can only be blocked gets
its verdict while there is a free slot: with every slot taken the scan ends before
it, which takes four stages to see. And of two setups that succeed the parts stay
ready, of three they need not. And a report that passes has a reproduced target only
where the gate asks for one: with `minReplay` at 0 it may have none. `WorkConserving`,
`SuccessSettles` and `PassesOnMerit` are now what the code does, for every number of
stages and of processes and for every gate.

## 5. Fairness

Safety is checked without relying on it.

* `StageRunner`: weak fairness of the scheduler (one thread of the event loop
  that goes on whenever it can), of each armed timer, and of "close" once the
  main process is dead and nobody holds the pipes (Node delivers it). Nothing is
  assumed of the commands: a stage that never ends is ended by its timeout.
  `Terminates` is checked with helpers in the group; a helper out of the group
  that inherits the pipes keeps "close" away for ever, and the timeout does not
  end that: no run claims otherwise.
* `SequentialRunner`, `WebExplorer`: weak fairness of the program's own steps
  (one thread, calls that return or throw). Changes of the application's own
  are not fair.
* `CommandServer`: timers fire and every fetch ends, steps of a restart or stop
  under way are taken; commands owe nothing and the caller need not restart or
  stop. The code sets no timeout on a fetch: that fetches end is an assumption.
* `BrowserSession`: weak fairness of the driver (one call that awaits its own
  steps) and of the page's steps. The latter is what lets a sample end that
  waits for a navigation to arrive; a page that never rests is still allowed,
  since its script may be longer than the samples.
* `DriverHost`: weak fairness of the timer of a request and of nothing else: a
  request is answered however its dispatch fares.
* `Shrinker`: none. `SearchEnds` is a property of steps, a measure that cannot
  go on for ever.

## 6. What is proved

TLAPS checks all eight proof modules with no step left open.

**`StageRunnerProofs`**, for every number of stages, every set of valid
manifests, every limit on concurrency, under `RunnerAssumption` and
`ProcessAssumption` (what `validateStage` and `declaredResources` ensure).
`BookkeepingCorrect`, `ExclusionHolds`, `DependenciesHold`, `LimitHolds` and
`ReportIsOver` also assume `InGroup`: no command leaves a helper outside its
process group. Without it the exclusion is false, as the run `stages_detached`
shows. The others need it nowhere: they speak of the scheduler, not of what
lives.

* `TypeCorrect`: `Spec => []TypeOK`.
* `BookkeepingCorrect`: `Spec => []SchedulerInv`. `ResourceExclusion` is not
  inductive: it speaks of processes, the scheduler decides by its own variables.
  `SchedulerInv` ties the two: what is alive belongs to a running stage
  (`AliveIsRunning`), active resources are exactly those of the running stages
  (`ResourcesTaken`), which are pairwise compatible and unblocked. The step that
  needs thought is `Complete`: taking away the resources of one stage must not
  take those of another, which holds because running stages are compatible and
  so share none; a lemma derives compatibility from the conflict check. The part
  of it that does not speak of processes (`Bookkeeping`) is an invariant by
  itself, without `InGroup`.
* `ExclusionHolds`, `DependenciesHold`, `LimitHolds` follow from it.
* `NoDeadlock`: the "scheduler deadlock" exception is never thrown. It needs an
  invariant of the scan (`ScanInv`): while nothing is running and nothing has
  progressed, every stage passed over so far waits for a stage without a result,
  so the first pending stage cannot be passed over.
* `NothingWaitsNeedlessly`: `WorkConserving`. What the scan knows of each stage
  it has passed (`ScanKept`) has to hold until it awaits, although stages passed
  later start and take resources in between: starting only takes more.
* `ReportIsOver`: when the report is written no process of a stage lives.
* `VerdictsAreHonest`, `SettledStaysQuiet`: the two promises of `ProcessTree`, of
  every tree and every race of exit, close and timer (`PromiseInv`).
* `RunnerImplementsGraph`: `Spec => ImplementsStageGraph`, step by step: the end
  of a process is the step of the graph that gives the verdict, a stage blocked
  in the scan is the graph's blocking, all other steps leave the graph alone.

**`CoreProofs`**, of the runner, the replay and the shrinker of the core. For any
clients whose functions are total (`MachineAssumption`: `update`, `actions` and
`shrink` answer for every model and message, and answer with models and messages),
whose sets of models and messages may be infinite, any properties, and any bounds
`RunConfig::validate` lets pass (`ShrinkAssumption`, `RunAssumption`):

* `ShrinkerEndsMinimal`: `ShrinkSpec => LocalMinima /\ SearchEnds`, of a search given
  any trace that fails, also one the walk would not find.
* `SearchesEndMinimal`: `RunSpec => LocalMinima /\ SearchEnds`, of the searches a run starts.
* `ReportsAreTrue`: `RunSpec => []ReportIsTrue`.
* `FailuresAreKept`: `RunSpec => FailuresKept`.

`JobInv` is the invariant of a search. Its loops skip a candidate whose key they
have seen, so that a message that would still fail might be passed over. It is
not: the traces seen that fail are those the search came through (`CameThrough`),
and none of them is shorter than the one at hand, nor, by a measure that the shrink
functions lower, smaller at any place (`NotBelow`). `Deleted` and `Replaced` say that what is
behind the place of the search was seen. That messages of one id are replayed alike
(`ReplayOfKey`) is what makes a key as good as its trace.

`RunInv` has four parts. `WalkTyped` counts the steps: a case adds no more than
`max_depth`. `GraphInv` says what the walk shows when: while a case goes on there is room
left and its first model is shown, and a step leads to what is shown, has failed, or
leads to the model about to be visited, whose snapshot the next visit adds since there
was room. `ReportInv` holds a trace for each failure that replays to it, through states
that are shown (`Witnessed`). `FollowInv` is about clients whose ids name one message each: the
replay of the walk's trace takes the same steps as the walk, so a failure the walk
met is one the search is given, keeps and reports; where ids are shared the replay may
take another message, the search starts from a trace that does not fail, and the
failure is dropped, which is why `FailureNeverLost` asks for unique ids.

The proof of `MessageMinimal` failed for a reason: the property took any measure
on messages that smaller messages lower to exclude that skipped candidates matter.
The search tells candidates apart by ids, and where a message shares its id with
a smaller one of a smaller one it comes back to a trace it has seen, although every
shrink function goes down. The measure is one on ids now (`ShrinksDescend`), and the
instance has such a client (`Ids` in `MCShrinker`), with which TLC refutes the former
property. `Replay` and `Snapshots` were folds; they are recursive functions now,
unfolded message by message (`ReplaysAre`, `ReplayGoesOn`, `SnapshotsAre`).

**`CampaignProofs`**, of the sequential runner that a campaign ends with (for the
campaigns themselves see below), for any plan, under the module's assumptions:

* `RunnerClosesWhatItOpens`: `Spec => []ClosesWhatItOpens`. Every call may throw,
  and a removal may fail; the invariant (`SequentialInv`) says that the overlay is
  held until the run ends (`Confined`), that the directory of a command is held
  exactly by the attempt at the cursor and stays only where the run was thrown out
  (`Profiled`), and that a retry follows an attempt without the network where the
  run allows one (`Attempting`). That one directory stays at most follows, as an
  overlay is of strict runs only and private directories of constrained ones.
* `SequentialImplementsGraph`: the sequential runner implements the same
  `StageGraph`; `Ordered` says that dependencies come earlier in the manifest, so
  that exactly the stages behind the cursor have a verdict.

**`WebExplorerProofs`**, for any set of actions, any applications, any bounds,
under `WorldAssumption` (a reset depends on the environment only; what a steady
driver does is a function of where it is):

* `ExplorerKnows`: the invariant `ExplorerInv`. `GraphInv` says of every state
  that it has a path of recorded transitions from the first (`NodesChained`) on
  which no violation ends, that its trace leads to it, and in a steady
  application that going along the trace shows what was seen (`Retraceable`);
  `TriedOnce` that an edge tried has no transition yet, which makes the new
  transition new and so keeps the beginnings of all other paths from being
  violations; `Accounted` that an edge executed was given up, is being tried or
  is recorded; `AtSource` where the application is at each step of an iteration;
  `CurrentOK` what the stateless driver may still believe of the place it left.
* `ExplorationAlwaysTrue`, `ReportAlwaysHonest`: `[]ExplorationIsTrue` and
  `[]HonestReport` follow. Where a trace leads is a recursive function (`Along`);
  that it is defined, agrees on prefixes and has one place at most in a steady
  application is shown by the absence of a smallest counterexample (`UpTo`), as
  the library's induction theorems cannot be instantiated.

**`ComponentsProofs`**, of the managed setup (for the other components see below),
for any number of processes, runs, failing calls and crashes, under `SetupAssumption` (what is in place at the beginning is absent,
unready or ready):

* `PromotesVerified`: `SetupSpec => []OnlyVerified`. A rename moves whatever is
  staged, so `OnlyVerified` is not inductive; `SetupInv` adds that a process
  between verification and promotion still has the directory it verified
  (`staging` carries its pid, no other process writes there, and a failing call
  leaves that part of the program) and that a backup only holds what was in
  place, as it may be moved back.
* `SetupLosesNothing`: `[]LosesNothing`, from `AloneInv`, which follows a setup
  that runs alone from what it found to what it has put in place.
* `SuccessAlwaysSettles`: `[]SuccessSettles`, from `TogetherInv`: what one setup
  has found ready is in its place, or somebody is about to put something there;
  and where no more than two run, the one that comes too late to put its own in
  place finds the other's, which nobody takes away (`TooLate`).

**`SessionsProofs`**, of a driver behind its server and of the sessions of a
browser. For any number of requests, under `HostAssumption`:

* `SessionHolds`: `HostSpec => []OneSession`. That what lives is what the driver
  holds is not inductive: a dispatch goes on with the browser or the context it
  has been waiting for. `HostInv` adds that only the awaited request has a
  dispatch (`OneTask`), that the await it is at is on what the driver holds, and
  that behind the await of `close` no context is left (`Awaited`). The step that
  needs thought is the making of a context: the driver forgets the one it held,
  which is sound only because `close` came first, or there was none; and a call
  that rejects may leave the driver with a context that is gone, never without
  one that lives.
  As in the property, all of this is claimed only while no request was answered
  ahead of its dispatch: `driver_release` shows what happens afterwards.

For any pages, numbers of samples and attempts, and any number of calls, under
`SessionAssumption` (a page asks before it is answered and leaves before it
arrives; nothing else is said of what it does):

* `SettledStays`: `SessionSpec => []SettledIsFinal`. `SessionInv` counts: a page
  that has nothing pending and looks as at the last of `stable` samples has let as
  many fingerprints pass, or all that its slack allows (`Rested`), after which it
  may only wait for an answer, and has none to wait for (`PatientRests`). Between
  the read of the pending requests and its fingerprint the page may still ask,
  without a trace in either: that sample is believed, and is why two more samples
  than the slack are needed and not one. That a call of `execute` may find a page
  in the middle of its script, so that what the action starts joins what is
  pending, is `AppendedCounts`.
* `ErrorsAlwaysOwn`: `SessionSpec => []ErrorsAreOwn`, from `Recorded`: what is
  recorded is of this context, and what is recorded after the count that `execute`
  took is of this call.

The model keeps `exceptionDiagnostics` as a list of its own (`traced`), as the code
does, and no longer as a part of the console's entries.

The same module has the managed server command. For any number of launches, helpers
and strays:

* `OneServerAlways`: `[]OneServer`. `OnlyLooseSurvive` alone is not inductive: a
  launch is stopped only when its group was killed. `ServerInv` adds that while a
  launch is being stopped whatever lives of it is its root, will be killed by its
  pid, or has come loose (`Accounted`), and that a root with an exit code is dead
  (`Known`). Nothing is assumed of `ps`, nor of who starts whom and when.
* `GenerationsMove`: the action property `GenerationMoves`.

**`ComponentsProofs`**, of the findings, the opaque replays, the replays of
another mode and the interleavings of contexts, each by itself and in the behaviours
of `MCComponents`. Under `FindingAssumption`, `OpaqueAssumption`, `CrossAssumption`
and `SchedulerAssumption` (groups are of one strength; pages, sites and scenarios are
closed under their actions; there are two fresh runs at least; bounds are positive),
for any failures and campaigns, pages, sites, scenarios and traces of any length:

* `ReplaysAlwaysJustify`: `ComponentsSpec => []ReplaysJustify`, of failures of which
  no two share a class (`ClassesDiffer`): of others it is false, as the run
  `findings_classes` shows.
* `AlwaysOneMinimal`: `ComponentsSpec => []OneMinimal`, with no such hypothesis.
* `FindingAlwaysMinimal`, `OpaqueAlwaysFaithful`, `CrossModeAlwaysStands`: the same
  of each specification by itself.
* `InterleavingsAlwaysExact`: `ContextSpec => []InterleavingsExact`, the half of
  `ReportsAreExact` that is about contexts, for any scenario, finite or not, and
  any bounds. The other half, and the whole, are in `ScheduleProofs`.

`FindingInv` says which failures every campaign has replayed (`GateInv`), and of the
trace that is shrunk that it shows the failure and that no deletion tried since the
last one kept shows it (`ShrinkInv`). In the search the place of an action is the number
of those kept before it, which moves with each deletion: `RankIs`. `OpaqueInv` says where
the build is (`BuildInv`), that a fresh run is a replay in an environment the build may
begin in (`FreshInv`), and what became of the export (`ExportInv`). The step that
needs thought is that one replay tells of all (`ReachingIs`): it does where each begins
from a checkpoint, or where the page keeps nothing (`PureReplay`). `CrossInv` follows
the target trace of a round: replayed by exact ids from where the round began, it
leads where the round is (`ShownFrom`). That the mapping is firm is a matter of what
it amounts to (`MapIs`): an exact action, or the one whose scopes fit best, which
remains so among fewer actions and in another order (`MapStays`).
The references `ReplayOpaque` and `ShowsFrom` were folds; they are recursive functions
now, which these lemmas unfold action by action (`RunsAre`, `ShownAre`).

`ContextInv` is that of a breadth-first search. The states in line are in the order
of their depths, which differ by one at the most, and none expanded is deeper than
the one in expansion (`LineInv`); what the operations tried led to is known, one
step deeper at the most, unless there was no room, and what it violated is noted
(`CoverInv`); the depth bound is told when, and only when, a state at it had
operations (`DepthInv`); a trace leads to its state, and no shorter one does
(`TraceInv`). That a state which is new is one that no fewer operations reach is
`NearAreKnown`: all that fewer reach is known, by induction on their number over
the reference `ReachedIn`. The operations of a state still to try are a set of
places there, tried in the order of the loops (`First`).

**`ScheduleProofs`**, of the virtual applications and the search of their
schedules. For any corpora, numbers of generations, retries, faults and bounds, under
`ScheduleAssumption` (bounds and the retry budget are naturals; the corpus has its
queries at numbered places):

* `SchedulesAlwaysExact`: `ScheduleSpec => []SchedulesExact`. Without faults nothing
  is reported; unless the transitions ran out, all states within the bounds are seen
  and every violation a schedule of them shows is reported, as is the depth bound;
  each report replays, and no shorter schedule shows it.
* `ReportsAlwaysExact`: `ComponentsSpec => []ReportsAreExact`, of contexts and
  schedules alike.

The argument has two parts. Of the runtime, `Typed` says that timers and commits
refer to requests there are, and `Clean`, of an application without faults, what
its methods keep: one callback for a request at most (`AnsweredOnce`), attempts of
a generation that differ (`AttemptsDiffer`), timers of different owners
(`TimersWait`, `OwnersDiffer`), retries within the budget (`BudgetHeld`), commits in
ascending generations (`CommitsAscend`) of which the last is the one shown
(`LastShown`). Every action keeps it (`ExecuteKeeps`), and from it follows that no
property code is reported (`CleanShowsNothing`).

Of the search, `ScheduleInv` says that the traces in line lead to the states
beside them, that their lengths differ by one at the most and that no shorter
trace leads there (`QueueInv`); that every step of a state extended was seen, and
when the depth flag is set (`SeenInv`); and that a first failure is shown by no
shorter schedule (`FailureInv`), so that the shrinking of it finds nothing to delete
(`NothingToDelete`). As for contexts, all rests on `NearSeen`: what can be reached
in as few steps as the shortest trace in line has was seen, by induction on the
number over `Within`. The actions a state offers are a set, of which the search
tries the one `Least` in the order of the loops first; no proof depends on which
that is.

**`CampaignProofs`**, of campaigns, of the builds they order, of the checkouts of
a corpus and of the reports made of them. For any projects, Node versions and ends of commands, under
`CampaignAssumption`:

* `DenialsAlwaysHold`: `CampaignSpec => []DenialsHold`. `CampaignInv` says of
  each command called so far what the options allow of it (`Allowed`), and of
  the step that comes next that it is not behind the question whether to
  prepare when that was denied, nor past the inspection when there is something
  to review (`Restrained`): the commands themselves do not say where they were
  called from.
* `VerdictAlwaysEarned`: `CampaignSpec => []VerdictIsEarned`. `EarnedInv` says at
  each step that the runtime chosen fits the range (`Fits`), that the installs
  that succeeded ran on it and the last did succeed (`InstallsKept`), and what the
  probes found (`Found`). After an install that named a range, `Fits` is about both
  ranges, where each has one alternative (see [section 7](#7-disagreements-found)). It needs that the versions installed are finitely many (the code
  lists directories), so that the smallest that fits exists.

The proof of `VerdictAlwaysEarned` failed at first because a `CASE` had arms
that overlap, of which TLA+ may take any where the code takes the first; such
`CASE`s of `Campaign`, `DriverHost`, `Corpus` and `PropertyPacks` are now chains
of `IF`. TLC takes the first arm, so no run had shown it.

For any finite number of packages and any dependencies between them, cycles
included, under `WorkspaceAssumption`:

* `BuildsAlwaysOrdered`: `WorkspaceSpec => []BuildsAreOrdered`. `OrderInv` says
  of the walk that each package on its path is needed by the one before it
  (`PathDepends`), that what a package still on the path needs is left, on the
  path or still to visit (`WalkCovers`), that the order holds each package left
  that has a build script, once (`OrderIsOf`), and, where no package needs
  itself, that the packages left are closed under dependencies and built in
  order (`LeftIsClosed`, `DependenciesFirst`). The property is about `Reach`, which
  adds dependencies as often as there are packages: that this suffices, so that
  `Reach` is the least set closed under dependencies, is proved by counting.

For any corpora, results and thresholds, under `BenchmarkAssumption` (a corpus
has targets, rates are in percent: the code refuses others):

* `AggregatesAreWhole`: `BenchmarkSpec => AggregateIsWhole`, from
  `BenchmarkTypeOK`: a summary has one result of each target of its shard, and no
  shard has half of a checkout.
* `ReportsPassOnMerit`: `BenchmarkSpec => PassesOnMerit`. The lemmas are about the
  rates: where no regression is allowed nobody who had something may be without
  it, and a rate above 0 is somebody's. Where promotion and the gate disagree it is
  about the breadth of the corpus (`Broad`) and nothing else: every rate, and the
  lines of adapters, are met by a corpus that may be promoted.

For any sources, nested to any depth, and any number of commands, deaths of the
process and deeds of others, under `CorpusAssumption` (the sources are finitely
many, and a nested source comes after the one that declares it):

* `MaterializationIsSafe`: `CorpusSpec => MaterializesSafely`, an action property.
* `RestorationIsDone`: `CorpusSpec => RestoresWhatItCan`: an invariant, that no
  group which could be restored is left unless a Git command failed in it, and what
  a step may not do, which is to report a benchmark that left a checkout changed or
  an ignored path that was not there before. Of what was noted and a target removed
  nothing is claimed.

Both rest on `CorpusInv`. `Placed`: where there is no checkout there is nothing, nor
is there anything in what would be nested in it. `MakesInPlace`: a group that is
updated where it stands is there, and a source about to be checked out has
nothing to lose, for it was found clean and nobody else's step is between the two.
`Kept`: while targets run and are restored, what is on the disk is a checkout or
gone. `Tried`: a group the restoration is done with, and each source tried of the
one at hand, is as pinned with no new ignored path, or its failure is told; if it
is not whole it is excused, by what is gone, by declarations, or by a Git command
that failed. `OneGroup` is
the lemma both need, that each source is in exactly one group, by taking the
least source for which it fails. `Around` is the least set closed under
parents, where it used to be a recursive function, so that one can reason about it.

**`SemanticReviewProofs`**, of what a review lets act, of the actions a page
offers and of the property packs. For any versions of the project, any number
of reviewers and of writes, under `ReviewAssumption`:

* `ReviewAlwaysGoverns`: `ReviewSpec => []ReviewGoverns`. The property is about
  what acts; what acts was compiled from a plan, which a reviewer may have
  written over from an old copy. `ReviewInv` follows the approvals through all
  of the files: whatever is approved in the plan, in any reviewer's copy, in the
  hints, in the manifest or in the last run is backed by an approval at its risk
  (`Backed`). Lemmas about the candidates give the rest: a normalizer that
  replaces something is on no path that bears state, and one property only can
  be executed.

The same module holds the theorems about what is probed without a review. For
every page, under `InventoryAssumption`:

* `DropsAlwaysKnown`: `InventorySpec => []DropsAreKnown`. What can be done with a
  control is stated apart from what discovery makes of its role, so the theorem has
  to relate the two (`RoleActionsCover`). Each action is made once or shared
  (`OneOrMore`, on the finite set of elements of one target), located or told
  (`MadeIsLocated`, `ActionTells`); every option of a list is an action of its own.

For any applications, probes and packs in any order, under `PacksAssumption` and
`AppsAssumption` (ids are unique; what is typed into a text box and Enter in it
are of one family, which comes from its name, and Enter is a bounded mutation):

* `LossesAlwaysExact`: `PacksSpec => []LossesAreExact`.
* `CoverageAlwaysEarned`: `PacksSpec => []CoverageIsEarned`.

Both rest on `PacksInv`: the probes to come are of one action or two that the
application offers, and a mutation is never of destructive actions only
(`Probing`); what was seen says of the application what coverage takes it for
(`SeenIsTrue`). `DidAllIs` says that a place changes when, and only when, an
action that changes it was done, and `ReloadLoss`, `RestartLoss` and
`ForgetsIsSeen` draw from it what the comparisons of a probe show. `InOrderIs`
proves that sorting by id puts an action of the set at every place, by the least
rank nothing has.

The proof of `CoverageAlwaysEarned` needed the assumption about text boxes, which
led back to the code: the instance had typed text of no family, a form took the
press of its type where the code looks for the first type of each press, an
invalid one included, and a probe that failed half way had executed nothing. All
three are now as in the code.

Only model-checked: what needs liveness and fairness, which is out of reach of the
prover: `Terminates` and `EveryCallEnds`. Every other property of a passing run is
stated by a theorem.

## 7. Disagreements found

* `stages_detached`: the cleanup after a stage kills its process group only. A
  helper that left the group lives on beside a stage that holds the same
  directory, while `scripts/test_web_project_runner.mjs:249` asserts that
  background descendants are terminated. The command server knows of such
  helpers and collects descendants first (`protocol/web-command-server.mjs:90`).
* `core_steps`: a step that fails a transition property is recorded although
  only the states of the *shrunk* counterexample are added: the target of the
  recorded step may have no snapshot. `src/core_wbtest.mbt:528` tests that no
  transition dangles at the state limit.
* `server_leak`: when the root has exited with a code, `stopChild` neither finds
  its helpers (no living ancestor) nor signals its group; the comment at
  `protocol/web-command-server.mjs:90` says helpers cannot escape the managed
  lifecycle.
* `findings_classes`: stability is asked of a class, not of a trace: of two
  failures of one class the second campaign may reproduce the one and the third
  the other, and the class is promoted; `CHANGES.md:33` speaks of "the exact
  discovered trace across all fresh attempts".
* `packs_mutate`: `invalidOperationSequence`
  (`protocol/web-generic-property-packs.mjs:278`) presses Enter in a form where
  no mutation is allowed; `docs/WEB_DRIVER_PROTOCOL.md:80` says that mutations
  remain denied unless the manifest selects them.
* `inventory_disabled`: the press actions
  (`web/playwright-browser/generic-browser-driver.mjs:521`) are offered for
  hidden and disabled text boxes too; `docs/WEB_DRIVER_PROTOCOL.md:71` says these
  are excluded.
* `driver_release`: a reset that outlives its timeout (`protocol/jsonl-server.mjs:40`)
  and goes on after a dispose leaves a context behind;
  `docs/WEB_DRIVER_PROTOCOL.md:22` says that dispose releases browser contexts.

Seen while modelling, and part of the models as they are:

* A campaign says "unknown" of a target whose install timed out, but blames it
  when the build of its workspace does (`Viability`). Two ranges of Node versions
  are written one after the other, which binds only the last alternative of the
  one and the first of the other (`Combine`); `RuntimeFits` asks that the runtime
  is in the project's range and in the one the install named where each has one
  alternative: with more it may be outside of either. The build of a Moon workspace
  opens the network offline too (`MoonBuild`).
* A nested source with changes keeps its whole group from being restored when
  another is declared in it (`EnterRestore`). A nested clone that was interrupted
  counts as changed and is refused from then on. A crash in the middle of a
  benchmark leaves its checkouts as the targets left them.
* The restoration removes ignored paths that are new. One that was noted and that a
  target removed or wrote to is not brought back, and no verification notices; an
  ignored directory is one path, what is in it is not looked at. A Git command that
  fails is told, and the next group is tried; Git that cannot be started ends the
  call.
* A stop of the server lets live, besides what `server_leak` shows: a descendant
  out of the group one of whose ancestors has exited (it has another parent by
  then), everything out of the group when `ps` fails, and what is started after `ps`
  was asked. Such a process may keep the port and answer for the next launch.
* A directory stays when its removal fails, which is not reported, or when the call
  that made it throws afterwards: `createStrictSandboxWorkspaceOverlay` and the preparation
  of a constrained command make it before they fill it.
* A control without a name, and a list none of whose options can be read, are
  passed over without a diagnostic (`protocol/accessible-action-discovery.mjs:43`).
* A corpus may be promotable and fail its own gate, by the number of targets or
  repositories, the tags or the topologies: promotion does not ask for them.
* Where a workspace has a cycle that is tolerated (one package of it has a build
  script), builds may come out of order: `BuildsAreOrdered` asks for the order
  where there is no cycle.
* The retries of navigation races apply to an opaque page only while its frame is
  gone, not to what is read of it (`RaceRetried`).
* A settle is final only for pages whose steps follow one another quickly: two
  samples of the stable ones are lost, to the step before and to the pending
  count which is read ahead of its fingerprint.
* A cross-mode replay copies the failure class of its source and does not
  compare that of the target; two actions of the source may be mapped to one. An
  exported opaque replay does not carry its checkpoint. The multi-context
  scheduler never asks the invariant of the initial state.

## 8. Not modelled

* Text: HTML and atlas output, reports, archive and manifest parsing, argument
  parsing, hashing. These are formats; what another component relies on is in
  its assumptions (`ValidManifest` is what manifest validation ensures).
* Flow graph: ranks and cycle breaking are pure functions of a finished report.
* Archive extraction: one pass over an archive's bytes. `ManagedSetup` has its
  outcome as a step that succeeds or fails.
* Sandbox profiles: they are command lines for an external program.
  `SequentialRunner` has what becomes of the directories they need.
* Novelty scores and selector survival: functions of snapshots. `WebExplorer`
  takes any set of violating transitions and explores in any order, which covers
  every ranking. The mutation and healthy-transition benchmarks score finished
  reports; incidents are records of one finding.
* Component and server-rendering drivers render one fixture each, in process.
  The native and synthetic hosts of the driver protocol answer from tables.
* What a consumer checks of an opaque export is a validation of fixed fields.
* External harness and utility batches run commands of other repositories, and
  keep nothing from one to the next. Disclosure checks and releases are text.
* Windows' `taskkill` path of the process cleanup.
* Vendored code, demos, fixtures and experiments.

Hazards no property covers, and some that are outside of what is modelled:

* A stage promise that rejects (`protocol/web-project-runner.mjs:662`) makes the
  run throw while other stages go on; what they do then is outside the runner.
* `restartManagedServer` (`generic-browser-driver.mjs:685`) does not store its
  settle: the snapshot it returns carries an earlier one. `SettledIsFinal` leaves
  the call out.
* `withApprovedWebSemantics` (`protocol/web-project-manifest-v2.mjs:433`) adds hooks and never removes one:
  an approval withdrawn later leaves its hook in a manifest that is reused. The
  model keeps it (`Apply`), and `OnlyTheApproved` is about approvals there were.
  For the same reason a rejection that a second reviewer writes over with an older
  copy, in which the candidate is approved, is not caught by it.
* The browsers directory of the setup is not versioned
  (`crates/proped-cli/src/setup.rs:183`): the model has one release.
* An application that changes between the last snapshot and `execute`
  (`protocol/web-coverage-guided-exploration.mjs:409`); an action told by the
  first observation of its id only (`src/core.mbt:332`); `ENOBUFS` with exit code
  0; paths that alias each other through symbolic links (`resourcePathsOverlap`
  compares them as written).

## 9. Plan

What is left, in order:

1. `FlowGraph`: ranking and cycle breaking as functions against a definition on
   small graphs; `ArchiveExtraction`: no order of entries and links writes
   outside the root.
2. Two releases in `ManagedSetup`; the component drivers in `DriverHost`.

Each new component joins `MCComponents`, `MCHarness` or `MCSessions`, so that one
run answers one group of questions; a property of its own is only added for
something a test would hardly reach.
