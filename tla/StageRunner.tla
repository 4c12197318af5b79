----------------------------- MODULE StageRunner -----------------------------
(***************************************************************************)
(* runWebProjectConcurrent (protocol/web-project-runner.mjs): the stages   *)
(* of a Web project manifest, run as isolated processes, as many at a time *)
(* as maxConcurrency, the dependencies and the declared exclusive          *)
(* resources allow.  The runner is one thread: it scans the stages in      *)
(* manifest order, starting what it can, then awaits whichever running     *)
(* stage settles first.  The processes (ProcessTree) run meanwhile.        *)
(***************************************************************************)
EXTENDS Integers, FiniteSets, SequencesExt

CONSTANTS N,              \* the number of stages; 1..N is their manifest order
          Paths,          \* resource paths, as sequences of segments
          Wildcard,       \* the resource "*" of a stage that declares none
          Manifests,      \* the manifests the runner may be given
          MaxConcurrency, \* options.maxConcurrency, at least 1
          HelperKinds,    \* see ProcessTree
          ExitKinds       \* see ProcessTree

Stages == 1..N

\* declaredResources: undefined becomes ["*"], anything else is resolved paths.
Resources == (SUBSET Paths) \cup {{Wildcard}}

\* What validateStage lets through: a stage depends on earlier stages only.
ValidManifest(m) ==
    /\ m.dependsOn \in [Stages -> SUBSET Stages]
    /\ m.resources \in [Stages -> Resources]
    /\ \A s \in Stages : m.dependsOn[s] \subseteq 1..(s - 1)

ASSUME RunnerAssumption ==
    /\ N \in Nat \ {0}
    /\ MaxConcurrency \in Nat \ {0}
    /\ Wildcard \notin Paths
    /\ \A m \in Manifests : ValidManifest(m)

VARIABLES
    manifest,        \* the validated manifest, never written
    pending,         \* Set of stages not started
    running,         \* the keys of the Map of promises
    activeResources, \* Set of the resources of the running stages
    byId,            \* per stage, its result; None before it has one
    cursor,          \* the stage the for loop is at, N + 1 after the last
    progressed,      \* whether this scan started or blocked a stage
    pc,              \* where the scheduler is
    tree             \* per stage, its processes (ProcessTree)

Processes == INSTANCE ProcessTree WITH Child <- Stages

ASSUME ProcessAssumption ==
    HelperKinds \subseteq Processes!AllHelperKinds /\ ExitKinds \subseteq Processes!Exits

schedulerVars == <<pending, running, activeResources, byId, cursor, progressed, pc>>
vars == <<manifest, schedulerVars, tree>>

Executed == {"pass", "quality_gate_failed", "usage_error", "execution_failed", "timeout"}
None == [status |-> "none", blockedBy |-> {}]
Result == [status : Executed \cup {"blocked"}, blockedBy : SUBSET Stages]

\* "loop" is the head of the while, "settle" the code after the for loop;
\* "done" has returned the report, the other two have thrown.
Places == {"loop", "scan", "settle", "await", "done", "aborted", "deadlock"}

TypeOK ==
    /\ ValidManifest(manifest)
    /\ pending \subseteq Stages
    /\ running \subseteq Stages
    /\ activeResources \subseteq Paths \cup {Wildcard}
    /\ byId \in [Stages -> Result \cup {None}]
    /\ cursor \in 1..(N + 1)
    /\ progressed \in BOOLEAN
    /\ pc \in Places
    /\ Processes!TreeTypeOK

Init ==
    /\ manifest \in Manifests
    /\ pending = Stages
    /\ running = {}
    /\ activeResources = {}
    /\ byId = [s \in Stages |-> None]
    /\ cursor = 1
    /\ progressed = FALSE
    /\ pc = "loop"
    /\ Processes!TreeInit

HasResult(s) == byId[s].status # "none"
DependsOn(s) == manifest.dependsOn[s]
Declared(s) == manifest.resources[s]

\* resourcePathsOverlap: the same path, or one lies below the other.
Overlap(p, q) == IsPrefix(p, q) \/ IsPrefix(q, p)

\* A plausible slip: paths are compared by name only.
ConflictByName(r) ==
    IF Wildcard \in r THEN running # {}
    ELSE Wildcard \in activeResources \/ r \cap activeResources # {}

\* resourcesConflict(resources, activeResources, running.size)
Conflict(r) ==
    IF Wildcard \in r THEN running # {}
    ELSE \E q \in activeResources : q # Wildcard => \E p \in r : Overlap(p, q)

-----------------------------------------------------------------------------

\* while (pending.size > 0 || running.size > 0)
LoopHead ==
    /\ pc = "loop"
    /\ IF pending = {} /\ running = {}
       THEN pc' = "done" /\ UNCHANGED <<cursor, progressed>>
       ELSE pc' = "scan" /\ cursor' = 1 /\ progressed' = FALSE
    /\ UNCHANGED <<manifest, pending, running, activeResources, byId, tree>>

\* The three conditions on which the for loop goes on to the next stage: it is
\* not pending, a dependency has no result, or a resource is taken.  The slips:
\* a stage is looked at before its dependencies have results; a failed quality
\* gate does not block.
ReadyUnasked(s) == s \in pending
Ready(s) == s \in pending /\ \A d \in DependsOn(s) : HasResult(d)

FailingToleratesGate(s) ==
    {d \in DependsOn(s) : byId[d].status \notin {"pass", "quality_gate_failed"}}
Failing(s) == {d \in DependsOn(s) : byId[d].status # "pass"}

\* A plausible slip: a taken resource breaks out of the loop.
ScanSkipBreaks(s) ==
    /\ pc = "scan" /\ cursor = s
    /\ Ready(s) => /\ Failing(s) = {}
                   /\ Cardinality(running) < MaxConcurrency
                   /\ Conflict(Declared(s))
    /\ cursor' = IF Ready(s) THEN N + 1 ELSE s + 1
    /\ UNCHANGED <<manifest, pending, running, activeResources, byId, progressed, pc, tree>>

ScanSkip(s) ==
    /\ pc = "scan" /\ cursor = s
    /\ Ready(s) => /\ Failing(s) = {}
                   /\ Cardinality(running) < MaxConcurrency
                   /\ Conflict(Declared(s))
    /\ cursor' = s + 1
    /\ UNCHANGED <<manifest, pending, running, activeResources, byId, progressed, pc, tree>>

\* A dependency did not pass: the stage is given its result here.
ScanBlocked(s) ==
    /\ pc = "scan" /\ cursor = s
    /\ Ready(s) /\ Failing(s) # {}
    /\ byId' = [byId EXCEPT ![s] = [status |-> "blocked", blockedBy |-> Failing(s)]]
    /\ pending' = pending \ {s}
    /\ progressed' = TRUE
    /\ cursor' = s + 1
    /\ UNCHANGED <<manifest, running, activeResources, pc, tree>>

\* running.size >= maxConcurrency breaks out of the for loop.
ScanFull(s) ==
    /\ pc = "scan" /\ cursor = s
    /\ Ready(s) /\ Failing(s) = {}
    /\ Cardinality(running) >= MaxConcurrency
    /\ pc' = "settle"
    /\ UNCHANGED <<manifest, pending, running, activeResources, byId, cursor, progressed, tree>>

\* runCallerEnforcedStage runs up to its first await inside the for loop: the
\* promise rejects when the working directory is gone by now, else the process
\* is spawned, or spawn throws and the promise resolves with the error.
StartOutcomes == {Processes!Opened, Processes!SpawnThrew,
                  [Processes!Idle EXCEPT !.phase = "rejected"]}

ScanStart(s) ==
    /\ pc = "scan" /\ cursor = s
    /\ Ready(s) /\ Failing(s) = {}
    /\ Cardinality(running) < MaxConcurrency
    /\ ~Conflict(Declared(s))
    /\ activeResources' = activeResources \cup Declared(s)
    /\ pending' = pending \ {s}
    /\ running' = running \cup {s}
    /\ progressed' = TRUE
    /\ cursor' = s + 1
    /\ \E t \in StartOutcomes : tree' = [tree EXCEPT ![s] = t]
    /\ UNCHANGED <<manifest, byId, pc>>

ScanEnd ==
    /\ pc = "scan" /\ cursor = N + 1
    /\ pc' = "settle"
    /\ UNCHANGED <<manifest, pending, running, activeResources, byId, cursor, progressed, tree>>

\* if (running.size === 0) break, throw or continue; else await the race.
Settle ==
    /\ pc = "settle"
    /\ pc' = CASE running # {}                     -> "await"
               [] running = {} /\ pending = {}     -> "done"
               [] running = {} /\ pending # {}     -> IF progressed THEN "loop" ELSE "deadlock"
    /\ UNCHANGED <<manifest, pending, running, activeResources, byId, cursor, progressed, tree>>

\* A plausible slip: the resources of a finished stage stay taken.
CompleteKeepsResources(s) ==
    /\ pc = "await" /\ s \in running
    /\ tree[s].phase = "settled"
    /\ running' = running \ {s}
    /\ byId' = [byId EXCEPT ![s] = [status |-> Processes!StageStatus(tree[s]), blockedBy |-> {}]]
    /\ pc' = "loop"
    /\ UNCHANGED <<manifest, pending, activeResources, cursor, progressed, tree>>

\* await Promise.race(running.values()) resolves with the result of stage s.
Complete(s) ==
    /\ pc = "await" /\ s \in running
    /\ tree[s].phase = "settled"
    /\ running' = running \ {s}
    /\ activeResources' = activeResources \ Declared(s)
    /\ byId' = [byId EXCEPT ![s] = [status |-> Processes!StageStatus(tree[s]), blockedBy |-> {}]]
    /\ pc' = "loop"
    /\ UNCHANGED <<manifest, pending, cursor, progressed, tree>>

\* The race rejects: the exception leaves the runner, the other stages run on.
Abort(s) ==
    /\ pc = "await" /\ s \in running
    /\ tree[s].phase = "rejected"
    /\ pc' = "aborted"
    /\ UNCHANGED <<manifest, pending, running, activeResources, byId, cursor, progressed, tree>>

\* A process, its timer or its "close" event, at any time.
ProcessStep(s) == Processes!TreeStep(s) /\ UNCHANGED <<manifest, schedulerVars>>

ScanStep(s) == ScanSkip(s) \/ ScanBlocked(s) \/ ScanFull(s) \/ ScanStart(s)

SchedulerNext ==
    \/ LoopHead
    \/ \E s \in Stages : ScanStep(s)
    \/ ScanEnd
    \/ Settle
    \/ \E s \in Stages : Complete(s) \/ Abort(s)

Next == SchedulerNext \/ \E s \in Stages : ProcessStep(s)

\* The event loop runs the scheduler when it can go on; timers fire and
\* "close" is delivered.  Nothing is assumed of the commands.
Fairness ==
    /\ WF_vars(SchedulerNext)
    /\ \A s \in Stages : /\ WF_vars(Processes!Timeout(s) /\ UNCHANGED <<manifest, schedulerVars>>)
                         /\ WF_vars(Processes!Close(s) /\ UNCHANGED <<manifest, schedulerVars>>)

Spec == Init /\ [][Next]_vars /\ Fairness

-----------------------------------------------------------------------------

\* Two sets of resources a run may not use at the same time: one is unknown,
\* or two of their paths overlap.
Compatible(r1, r2) ==
    /\ Wildcard \notin r1 \cup r2
    /\ \A p \in r1 \ {Wildcard}, q \in r2 \ {Wildcard} : ~Overlap(p, q)

StageAlive(s) == Processes!Alive(tree[s])

\* Two stages of which some process is alive never hold conflicting resources:
\* overlapping directories, or anything at all beside a stage that declares
\* nothing.
ResourceExclusion ==
    \A s, t \in Stages : s # t /\ StageAlive(s) /\ StageAlive(t) =>
        Compatible(Declared(s), Declared(t))

\* A process only ever runs after every stage its own depends on has passed.
RunsAfterDependencies ==
    \A s \in Stages : StageAlive(s) => \A d \in DependsOn(s) : byId[d].status = "pass"

\* What the scheduler's bookkeeping says of the processes, on which the exclusion
\* rests: the resources taken are those of the running stages, which are pairwise
\* compatible and whose dependencies passed; whatever is alive belongs to one of
\* them; no stage is pending, running and done at once.  With helpers out of the
\* process group it fails, as the exclusion does.
DeadOutside(t) == t.phase # "open" => t.main # "alive" /\ t.helpers = {} /\ t.timer # "armed"

ResourcesTaken == activeResources = UNION {Declared(s) : s \in running}
RunningCompatible == \A s, t \in running : s # t => Compatible(Declared(s), Declared(t))
RunningUnblocked == \A s \in running : \A d \in DependsOn(s) : byId[d].status = "pass"
RunningWithinLimit == Cardinality(running) <= MaxConcurrency
ResultsFinal ==
    /\ pending \cap running = {}
    /\ \A s \in Stages : HasResult(s) => s \notin pending \cup running
AliveIsRunning ==
    \A s \in Stages : DeadOutside(tree[s]) /\ (tree[s].phase = "open" => s \in running)

SchedulerInv ==
    /\ ResourcesTaken /\ RunningCompatible /\ RunningUnblocked
    /\ RunningWithinLimit /\ ResultsFinal /\ AliveIsRunning

\* No more than maxConcurrency stages have a process at a time.
ConcurrencyLimit == Cardinality({s \in Stages : StageAlive(s)}) <= MaxConcurrency

\* The "scheduler deadlock" exception cannot be thrown.
NeverDeadlocked == pc # "deadlock"

\* A ready stage the scheduler need not start now: every slot is taken, or a resource of
\* the stage is.
Waits(s) ==
    Ready(s) => \/ Cardinality(running) = MaxConcurrency
                \/ Failing(s) = {} /\ Conflict(Declared(s))

\* The scheduler only awaits when it could not start anything else: a ready stage is left
\* waiting for a free slot or for a resource, never by accident; and while there is a free
\* slot, no stage that can only be blocked is left without its verdict.
WorkConserving == pc = "await" => \A s \in Stages : Waits(s)

\* When the report is written, every stage has a result and no process of any
\* of them is left to change the files the report speaks of.
ReportIsFinal ==
    pc = "done" => \A s \in Stages : HasResult(s) /\ ~StageAlive(s)

\* Two promises of spawnIsolated the runner rests on (stated in ProcessTree): a
\* timeout is reported as one and a pass means exit code 0; no signal is sent once
\* the promise has settled.
VerdictIsHonest == Processes!VerdictIsHonest
NoSignalAfterSettled == Processes!NoSignalAfterSettled

\* The concurrent runner gives the verdicts the stage graph promises.
Graph == INSTANCE StageGraph WITH
            dependsOn <- manifest.dependsOn,
            status    <- [s \in Stages |-> byId[s].status],
            blockedBy <- [s \in Stages |-> byId[s].blockedBy]

ImplementsStageGraph == Graph!GraphSpec

\* Every run throws or returns a final report: timeouts end what never ends.
Terminates == <>(pc = "aborted" \/ (pc = "done" /\ ReportIsFinal))
=============================================================================
