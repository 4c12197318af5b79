-------------------------- MODULE StageRunnerProofs --------------------------
(***************************************************************************)
(* What holds of the concurrent stage runner for every manifest, every     *)
(* number of stages and every limit on concurrency, as long as commands    *)
(* leave no helper outside their process group: its type invariant, the    *)
(* inductive invariant of its bookkeeping, and from it the exclusion of    *)
(* conflicting stages, the order of dependencies and the limit itself.     *)
(***************************************************************************)
EXTENDS StageRunner, FiniteSetTheorems, TLAPS

\* No helper leaves the process group of its command.
InGroup == HelperKinds \cap Processes!OutOfGroup = {}

USE DEF Stages

-----------------------------------------------------------------------------
\* The fields of a process tree, for the steps below.
LEMMA TreeFields ==
    ASSUME NEW t \in Processes!Trees
    PROVE  /\ t.phase \in Processes!Phases /\ t.main \in {"none", "alive", "exited"}
           /\ t.helpers \subseteq HelperKinds
           /\ t.exit \in Processes!Exits \cup {"none"}
           /\ t.error \in {"none", "ENOBUFS", "ETIMEDOUT", "spawn"}
           /\ t.timer \in {"off", "armed", "fired"}
  BY DEF Processes!Trees

\* Killing the group of a tree gives a tree, with the same promise.
LEMMA KillGroupType ==
    ASSUME NEW t \in Processes!Trees
    PROVE  /\ Processes!KillGroup(t) \in Processes!Trees
           /\ Processes!KillGroup(t).phase = t.phase
           /\ Processes!KillGroup(t).timer = t.timer
           /\ Processes!KillGroup(t).error = t.error
           /\ Processes!KillGroup(t).main = "exited"
           /\ Processes!KillGroup(t).helpers = t.helpers \cap Processes!OutOfGroup
  BY DEF Processes!Trees, Processes!KillGroup, Processes!Exits

\* The trees a start of a stage may leave are trees.
LEMMA StartOutcomesType == StartOutcomes \subseteq Processes!Trees
  BY DEF StartOutcomes, Processes!Opened, Processes!SpawnThrew, Processes!Idle,
         Processes!Trees, Processes!Phases, Processes!Exits

\* A stage that was executed is given one of the executed statuses.
LEMMA StageStatusType ==
    ASSUME NEW t
    PROVE  Processes!StageStatus(t) \in Executed
  BY DEF Processes!StageStatus, Executed

\* Outside of an open promise nothing of its closure acts: the process was seen to end, or
\* there is none, and the timer is off or has fired.
Closed(t) == t.phase # "open" => t.main # "alive" /\ t.timer # "armed"

\* A timer that fired has recorded so.
Told(t) == t.timer = "fired" => t.error = "ETIMEDOUT"

\* A step of the processes of one stage gives that stage another tree, and touches no other;
\* it opens nothing, what is dead or closed stays so, a timeout that was recorded is kept,
\* and once the promise has settled only helpers come to an end.
LEMMA TreeStepShape ==
    ASSUME NEW s \in Stages, tree \in [Stages -> Processes!Trees], Processes!TreeStep(s)
    PROVE  \E u \in Processes!Trees :
              /\ tree' = [tree EXCEPT ![s] = u]
              /\ u.phase = "open" => tree[s].phase = "open"
              /\ InGroup /\ DeadOutside(tree[s]) => DeadOutside(u)
              /\ Closed(tree[s]) => Closed(u)
              /\ Told(tree[s]) => Told(u)
              /\ Closed(tree[s]) /\ tree[s].phase = "settled" =>
                    u = [tree[s] EXCEPT !.helpers = u.helpers]
  <1> DEFINE t == tree[s]
             Goal(u) == /\ u \in Processes!Trees
                        /\ tree' = [tree EXCEPT ![s] = u]
                        /\ u.phase = "open" => t.phase = "open"
                        /\ InGroup /\ DeadOutside(t) => DeadOutside(u)
                        /\ Closed(t) => Closed(u)
                        /\ Told(t) => Told(u)
                        /\ Closed(t) /\ t.phase = "settled" => u = [t EXCEPT !.helpers = u.helpers]
  <1>0. t \in Processes!Trees
    OBVIOUS
  <1> SUFFICES \E u : Goal(u)
    OBVIOUS
  <1>1. ASSUME NEW k \in HelperKinds, Processes!StartHelper(s, k)
        PROVE  \E u : Goal(u)
    <2> DEFINE u == [t EXCEPT !.helpers = @ \cup {k}]
    <2>1. u \in Processes!Trees
      BY <1>0, TreeFields DEF Processes!Trees
    <2>2. tree' = [tree EXCEPT ![s] = u] /\ t.main = "alive"
      BY <1>1 DEF Processes!StartHelper
    <2>3. u.phase = t.phase /\ u.main = t.main /\ u.timer = t.timer /\ u.error = t.error
      BY <1>0, TreeFields DEF Processes!Trees
    <2> HIDE DEF u
    <2>4. Goal(u)
      BY <2>1, <2>2, <2>3 DEF DeadOutside, Closed, Told
    <2> QED BY <2>4
  <1>2. ASSUME NEW k \in HelperKinds, Processes!HelperExits(s, k)
        PROVE  \E u : Goal(u)
    <2> DEFINE u == [t EXCEPT !.helpers = @ \ {k}]
    <2>1. u \in Processes!Trees
      BY <1>0, TreeFields DEF Processes!Trees
    <2>2. tree' = [tree EXCEPT ![s] = u] /\ k \in t.helpers
      BY <1>2 DEF Processes!HelperExits
    <2>3. u.phase = t.phase /\ u.main = t.main /\ u.timer = t.timer /\ u.error = t.error
      BY <1>0, TreeFields DEF Processes!Trees
    <2>5. u = [t EXCEPT !.helpers = u.helpers]
      BY <1>0 DEF Processes!Trees
    <2> HIDE DEF u
    <2>4. Goal(u)
      BY <2>1, <2>2, <2>3, <2>5 DEF DeadOutside, Closed, Told
    <2> QED BY <2>4
  <1>3. ASSUME NEW e \in ExitKinds, Processes!MainExits(s, e)
        PROVE  \E u : Goal(u)
    <2> DEFINE u == [t EXCEPT !.main = "exited", !.exit = e]
    <2>1. u \in Processes!Trees
      BY <1>0, TreeFields, ProcessAssumption DEF Processes!Trees
    <2>2. tree' = [tree EXCEPT ![s] = u] /\ t.main = "alive"
      BY <1>3 DEF Processes!MainExits
    <2>3. u.phase = t.phase /\ u.main = "exited" /\ u.timer = t.timer /\ u.error = t.error
      BY <1>0, TreeFields DEF Processes!Trees
    <2> HIDE DEF u
    <2>4. Goal(u)
      BY <2>1, <2>2, <2>3 DEF DeadOutside, Closed, Told
    <2> QED BY <2>4
  <1>4. ASSUME Processes!Overflow(s)
        PROVE  \E u : Goal(u)
    <2> DEFINE g == Processes!KillGroup(t)
               u == [g EXCEPT !.error = "ENOBUFS"]
    <2>0. g \in Processes!Trees /\ g.phase = t.phase /\ g.timer = t.timer
      BY <1>0, KillGroupType
    <2> HIDE DEF g
    <2>1. u \in Processes!Trees /\ u.phase = g.phase /\ u.timer = g.timer
      BY <2>0, TreeFields DEF Processes!Trees
    <2>2. tree' = [tree EXCEPT ![s] = u] /\ t.phase = "open" /\ t.error = "none"
      BY <1>4 DEF Processes!Overflow, g
    <2> HIDE DEF u
    <2>4. Goal(u)
      BY <2>0, <2>1, <2>2 DEF DeadOutside, Closed, Told
    <2> QED BY <2>4
  <1>5. ASSUME Processes!Timeout(s)
        PROVE  \E u : Goal(u)
    <2> DEFINE g == Processes!KillGroup(t)
               u == [g EXCEPT !.error = "ETIMEDOUT", !.timer = "fired"]
    <2>0. g \in Processes!Trees /\ g.phase = t.phase /\ g.main = "exited"
      BY <1>0, KillGroupType
    <2> HIDE DEF g
    <2>1. /\ u \in Processes!Trees /\ u.phase = g.phase /\ u.main = g.main
          /\ u.timer = "fired" /\ u.error = "ETIMEDOUT"
      BY <2>0, TreeFields DEF Processes!Trees
    <2>2. tree' = [tree EXCEPT ![s] = u] /\ t.timer = "armed"
      BY <1>5 DEF Processes!Timeout, g
    <2> HIDE DEF u
    <2>4. Goal(u)
      BY <2>0, <2>1, <2>2 DEF DeadOutside, Closed, Told
    <2> QED BY <2>4
  <1>6. ASSUME Processes!Close(s)
        PROVE  \E u : Goal(u)
    <2> DEFINE g == Processes!KillGroup(t)
               u == [g EXCEPT !.phase = "settled",
                              !.timer = IF g.timer = "armed" THEN "off" ELSE g.timer]
    <2>0. /\ g \in Processes!Trees
          /\ g.main = "exited" /\ g.helpers = t.helpers \cap Processes!OutOfGroup
          /\ g.timer = t.timer /\ g.error = t.error /\ t.helpers \subseteq HelperKinds
      BY <1>0, KillGroupType, TreeFields
    <2> HIDE DEF g
    <2>1. /\ u \in Processes!Trees /\ u.phase = "settled" /\ u.timer # "armed"
          /\ u.main = g.main /\ u.helpers = g.helpers /\ u.error = g.error
          /\ u.timer = "fired" => g.timer = "fired"
      BY <2>0, TreeFields DEF Processes!Trees, Processes!Phases
    <2>2. tree' = [tree EXCEPT ![s] = u] /\ t.phase = "open"
      BY <1>6 DEF Processes!Close, g
    <2>3. InGroup => u.helpers = {}
      BY <2>0, <2>1 DEF InGroup
    <2> HIDE DEF u
    <2>4. Goal(u)
      BY <2>0, <2>1, <2>2, <2>3 DEF DeadOutside, Closed, Told
    <2> QED BY <2>4
  <1> QED BY <1>1, <1>2, <1>3, <1>4, <1>5, <1>6 DEF Processes!TreeStep

\* Nothing happens to a promise that was never made.
LEMMA IdleStaysIdle ==
    ASSUME tree \in [Stages -> Processes!Trees], NEW s \in Stages, Processes!TreeStep(s),
           Closed(tree[s]), tree[s].phase = "idle"
    PROVE  tree'[s].phase = "idle"
  <1>1. tree[s] \in Processes!Trees /\ tree[s].main # "alive" /\ tree[s].timer # "armed"
    BY DEF Closed
  <1>2. PICK k \in HelperKinds : Processes!HelperExits(s, k)
    BY <1>1 DEF Processes!TreeStep, Processes!StartHelper, Processes!MainExits, Processes!Overflow,
                Processes!Timeout, Processes!Close
  <1> QED BY <1>1, <1>2 DEF Processes!HelperExits, Processes!Trees

-----------------------------------------------------------------------------
\* The types hold at the start.
LEMMA TypeInit == Init => TypeOK
  <1> SUFFICES ASSUME Init PROVE TypeOK
    OBVIOUS
  <1>1. Processes!TreeTypeOK
    BY DEF Init, Processes!TreeInit, Processes!TreeTypeOK, Processes!Idle, Processes!Trees,
           Processes!Phases, Processes!Exits
  <1>2. ValidManifest(manifest)
    BY RunnerAssumption DEF Init
  <1>3. byId \in [Stages -> Result \cup {None}]
    BY DEF Init
  <1>4. 1 \in 1..(N + 1)
    BY RunnerAssumption
  <1> QED BY <1>1, <1>2, <1>3, <1>4 DEF Init, TypeOK, Places

\* Every step keeps them.
LEMMA TypeStep == TypeOK /\ [Next]_vars => TypeOK'
  <1> SUFFICES ASSUME TypeOK, [Next]_vars PROVE TypeOK'
    OBVIOUS
  <1> USE RunnerAssumption DEF TypeOK, Processes!TreeTypeOK, Places
  <1>0. 1 \in 1..(N + 1)
    OBVIOUS
  <1>1. CASE LoopHead
    BY <1>0, <1>1 DEF LoopHead, ValidManifest
  <1>2. ASSUME NEW s \in Stages, ScanSkip(s)
        PROVE  TypeOK'
    BY <1>2 DEF ScanSkip, ValidManifest
  <1>3. ASSUME NEW s \in Stages, ScanBlocked(s)
        PROVE  TypeOK'
    <2>1. [status |-> "blocked", blockedBy |-> Failing(s)] \in Result
      BY DEF Failing, DependsOn, ValidManifest, Result
    <2> QED BY <1>3, <2>1 DEF ScanBlocked, ValidManifest
  <1>4. ASSUME NEW s \in Stages, ScanFull(s)
        PROVE  TypeOK'
    BY <1>4 DEF ScanFull, ValidManifest
  <1>5. ASSUME NEW s \in Stages, ScanStart(s)
        PROVE  TypeOK'
    <2>1. Declared(s) \subseteq Paths \cup {Wildcard}
      BY DEF Declared, ValidManifest, Resources
    <2>2. PICK t \in StartOutcomes : tree' = [tree EXCEPT ![s] = t]
      BY <1>5 DEF ScanStart
    <2>3. t \in Processes!Trees
      BY StartOutcomesType
    <2> QED BY <1>5, <2>1, <2>2, <2>3 DEF ScanStart, ValidManifest
  <1>6. CASE ScanEnd
    BY <1>6 DEF ScanEnd, ValidManifest
  <1>7. CASE Settle
    BY <1>7 DEF Settle, ValidManifest
  <1>8. ASSUME NEW s \in Stages, Complete(s)
        PROVE  TypeOK'
    <2>1. [status |-> Processes!StageStatus(tree[s]), blockedBy |-> {}] \in Result
      BY StageStatusType DEF Result
    <2> QED BY <1>8, <2>1 DEF Complete, ValidManifest
  <1>9. ASSUME NEW s \in Stages, Abort(s)
        PROVE  TypeOK'
    BY <1>9 DEF Abort, ValidManifest
  <1>10. ASSUME NEW s \in Stages, ProcessStep(s)
         PROVE  TypeOK'
    <2>1. PICK u \in Processes!Trees : tree' = [tree EXCEPT ![s] = u]
      BY <1>10, TreeStepShape DEF ProcessStep
    <2>2. UNCHANGED <<manifest, schedulerVars>>
      BY <1>10 DEF ProcessStep
    <2> QED BY <2>1, <2>2 DEF schedulerVars, ValidManifest
  <1>11. CASE UNCHANGED vars
    BY <1>11 DEF vars, schedulerVars, ValidManifest
  <1> QED BY <1>1, <1>2, <1>3, <1>4, <1>5, <1>6, <1>7, <1>8, <1>9, <1>10, <1>11
          DEF Next, SchedulerNext, ScanStep

\* Every state of the runner is of the types TypeOK gives, for every manifest
\* and whatever the commands do.
THEOREM TypeCorrect == Spec => []TypeOK
  BY TypeInit, TypeStep, PTL DEF Spec

-----------------------------------------------------------------------------
\* What SchedulerInv says of the scheduler's own variables.  It needs nothing of the
\* commands; only AliveIsRunning does.
Bookkeeping ==
    ResourcesTaken /\ RunningCompatible /\ RunningUnblocked /\ RunningWithinLimit /\ ResultsFinal

\* The bookkeeping is right at the start.
LEMMA BookkeepingInit == Init => Bookkeeping
  <1> SUFFICES ASSUME Init PROVE Bookkeeping
    OBVIOUS
  <1>2. RunningWithinLimit
    BY FS_EmptySet, RunnerAssumption DEF Init, RunningWithinLimit
  <1>3. ResultsFinal
    BY DEF Init, ResultsFinal, HasResult, None
  <1> QED BY <1>2, <1>3
          DEF Init, Bookkeeping, ResourcesTaken, RunningCompatible, RunningUnblocked

\* A set of running stages is finite.
LEMMA FiniteStages == ASSUME NEW S \in SUBSET Stages PROVE IsFiniteSet(S)
  <1>1. IsFiniteSet(1..N)
    BY RunnerAssumption, FS_Interval
  <1> QED BY <1>1, FS_Subset

\* A path overlaps itself.
LEMMA OverlapReflexive == ASSUME NEW p \in Paths PROVE Overlap(p, p)
  BY DEF Overlap, IsPrefix

\* Conflict is exactly incompatibility with one of the running stages.
LEMMA NoConflictIsCompatible ==
    ASSUME TypeOK, ResourcesTaken, NEW s \in Stages, ~Conflict(Declared(s)),
           NEW t \in running
    PROVE  Compatible(Declared(s), Declared(t)) /\ Compatible(Declared(t), Declared(s))
  <1>1. Declared(t) \subseteq activeResources
    BY DEF ResourcesTaken
  <1>2. Wildcard \notin Declared(s)
    BY DEF Conflict
  <1>3. \A q \in activeResources : q # Wildcard /\ \A p \in Declared(s) : ~Overlap(p, q)
    BY <1>2 DEF Conflict
  <1> QED BY <1>1, <1>2, <1>3 DEF Compatible, Overlap

\* A step that leaves the scheduler's sets and the results alone keeps its bookkeeping.
LEMMA BookkeepingStutter ==
    ASSUME Bookkeeping, UNCHANGED <<manifest, pending, running, activeResources, byId>>
    PROVE  Bookkeeping'
  BY DEF Bookkeeping, ResourcesTaken, RunningCompatible, RunningUnblocked, RunningWithinLimit,
         ResultsFinal, Declared, DependsOn, HasResult

\* Blocking a pending stage touches no running one: their dependencies, which
\* have results, are not pending.
LEMMA BlockedStep ==
    ASSUME TypeOK, Bookkeeping, NEW s \in Stages, ScanBlocked(s)
    PROVE  Bookkeeping'
  <1>1. /\ s \in pending /\ pending' = pending \ {s}
        /\ byId' = [byId EXCEPT ![s] = [status |-> "blocked", blockedBy |-> Failing(s)]]
        /\ UNCHANGED <<manifest, running, activeResources>>
    BY DEF ScanBlocked, Ready
  <1>2. \A r \in Stages \ {s} : byId'[r] = byId[r]
    BY <1>1 DEF TypeOK
  <1>3. ResourcesTaken' /\ RunningCompatible' /\ RunningWithinLimit'
    BY <1>1 DEF Bookkeeping, ResourcesTaken, RunningCompatible, RunningWithinLimit, Declared
  <1>4. RunningUnblocked'
    <2> SUFFICES ASSUME NEW r \in running, NEW d \in DependsOn(r)
                 PROVE  byId'[d].status = "pass"
      BY <1>1 DEF RunningUnblocked, DependsOn
    <2>1. d \in Stages
      BY DEF TypeOK, ValidManifest, DependsOn
    <2>2. byId[d].status = "pass"
      BY DEF Bookkeeping, RunningUnblocked
    <2>3. d # s
      BY <1>1, <2>1, <2>2 DEF Bookkeeping, ResultsFinal, HasResult
    <2> QED BY <1>2, <2>1, <2>2, <2>3
  <1>5. ResultsFinal'
    <2>1. pending' \cap running' = {}
      BY <1>1 DEF Bookkeeping, ResultsFinal
    <2>2. s \notin pending' \cup running'
      BY <1>1 DEF Bookkeeping, ResultsFinal
    <2>3. ASSUME NEW r \in Stages \ {s}, HasResult(r)'
          PROVE  r \notin pending' \cup running'
      BY <1>1, <1>2, <2>3 DEF Bookkeeping, ResultsFinal, HasResult
    <2> QED BY <2>1, <2>2, <2>3 DEF ResultsFinal
  <1> QED BY <1>3, <1>4, <1>5 DEF Bookkeeping

\* Starting a stage: no running stage conflicts with it, its dependencies have
\* passed and there is a free slot.
LEMMA StartStep ==
    ASSUME TypeOK, Bookkeeping, NEW s \in Stages, ScanStart(s)
    PROVE  Bookkeeping'
  <1>1. /\ s \in pending /\ pending' = pending \ {s}
        /\ \A d \in DependsOn(s) : HasResult(d)
        /\ Failing(s) = {} /\ Cardinality(running) < MaxConcurrency
        /\ ~Conflict(Declared(s))
        /\ running' = running \cup {s}
        /\ activeResources' = activeResources \cup Declared(s)
        /\ UNCHANGED <<manifest, byId>>
    BY DEF ScanStart, Ready
  <1>2. s \notin running /\ IsFiniteSet(running)
    BY <1>1, FiniteStages DEF Bookkeeping, ResultsFinal, TypeOK
  <1>3. ResourcesTaken'
    <2>1. activeResources = UNION {Declared(t) : t \in running}
      BY DEF Bookkeeping, ResourcesTaken
    <2>2. \A t : Declared(t)' = Declared(t)
      BY <1>1 DEF Declared
    <2> QED BY <1>1, <2>1, <2>2 DEF ResourcesTaken
  <1>4. RunningCompatible'
    <2>1. \A t \in running : Compatible(Declared(s), Declared(t)) /\ Compatible(Declared(t), Declared(s))
      BY <1>1, NoConflictIsCompatible DEF Bookkeeping
    <2>2. \A t : Declared(t)' = Declared(t)
      BY <1>1 DEF Declared
    <2> QED BY <1>1, <2>1, <2>2 DEF Bookkeeping, RunningCompatible
  <1>5. RunningUnblocked'
    <2>1. \A d \in DependsOn(s) : byId[d].status = "pass"
      BY <1>1 DEF Failing
    <2> QED BY <1>1, <2>1 DEF Bookkeeping, RunningUnblocked, DependsOn
  <1>6. RunningWithinLimit'
    <2>1. Cardinality(running') = Cardinality(running) + 1 /\ Cardinality(running) \in Nat
      BY <1>1, <1>2, FS_AddElement, FS_CardinalityType
    <2> QED BY <1>1, <2>1, RunnerAssumption DEF RunningWithinLimit
  <1>7. ResultsFinal'
    BY <1>1 DEF Bookkeeping, ResultsFinal, HasResult
  <1> QED BY <1>3, <1>4, <1>5, <1>6, <1>7 DEF Bookkeeping

\* Completing a stage gives its resources back, and no others: the resources of
\* compatible stages are disjoint.
LEMMA CompleteStep ==
    ASSUME TypeOK, Bookkeeping, NEW s \in Stages, Complete(s)
    PROVE  Bookkeeping'
  <1>1. /\ s \in running
        /\ running' = running \ {s}
        /\ activeResources' = activeResources \ Declared(s)
        /\ UNCHANGED <<manifest, pending>>
    BY DEF Complete
  <1>2. PICK r \in Result : byId' = [byId EXCEPT ![s] = r]
    BY StageStatusType DEF Complete, Result
  <1>3. \A t : Declared(t)' = Declared(t) /\ DependsOn(t)' = DependsOn(t)
    BY <1>1 DEF Declared, DependsOn
  <1>4. ResourcesTaken'
    <2>1. ASSUME NEW t \in running \ {s}
          PROVE  Declared(t) \cap Declared(s) = {}
      <3>1. Compatible(Declared(t), Declared(s))
        BY <1>1 DEF Bookkeeping, RunningCompatible
      <3>2. Declared(s) \subseteq Paths \cup {Wildcard}
        BY DEF TypeOK, ValidManifest, Resources, Declared
      <3> QED BY <3>1, <3>2, OverlapReflexive DEF Compatible
    <2> QED BY <1>1, <1>3, <2>1 DEF Bookkeeping, ResourcesTaken
  <1>5. RunningCompatible'
    BY <1>1, <1>3 DEF Bookkeeping, RunningCompatible
  <1>6. RunningUnblocked'
    <2> SUFFICES ASSUME NEW t \in running, NEW d \in DependsOn(t)
                 PROVE  byId'[d].status = "pass"
      BY <1>1, <1>3 DEF RunningUnblocked
    <2>1. d \in Stages
      BY DEF TypeOK, ValidManifest, DependsOn
    <2>2. byId[d].status = "pass"
      BY DEF Bookkeeping, RunningUnblocked
    <2>3. d # s
      BY <1>1, <2>1, <2>2 DEF Bookkeeping, ResultsFinal, HasResult
    <2> QED BY <1>2, <2>1, <2>2, <2>3 DEF TypeOK
  <1>7. RunningWithinLimit'
    <2>1. IsFiniteSet(running)
      BY FiniteStages DEF TypeOK
    <2>2. Cardinality(running') <= Cardinality(running)
      BY <1>1, <2>1, FS_Subset
    <2>3. Cardinality(running) \in Nat /\ Cardinality(running') \in Nat
      BY <1>1, <2>1, FS_CardinalityType, FS_Subset
    <2> QED BY <2>2, <2>3, RunnerAssumption DEF Bookkeeping, RunningWithinLimit
  <1>8. ResultsFinal'
    <2>1. s \notin pending' \cup running'
      BY <1>1 DEF Bookkeeping, ResultsFinal
    <2>2. ASSUME NEW t \in Stages \ {s}, HasResult(t)'
          PROVE  t \notin pending' \cup running'
      BY <1>1, <1>2, <2>2 DEF Bookkeeping, ResultsFinal, HasResult, TypeOK
    <2> QED BY <1>1, <2>1, <2>2 DEF Bookkeeping, ResultsFinal
  <1> QED BY <1>4, <1>5, <1>6, <1>7, <1>8 DEF Bookkeeping

\* The bookkeeping is kept by every step, whatever the commands do.
LEMMA BookkeepingStep == TypeOK /\ Bookkeeping /\ [Next]_vars => Bookkeeping'
  <1> SUFFICES ASSUME TypeOK, Bookkeeping, [Next]_vars PROVE Bookkeeping'
    OBVIOUS
  <1>1. CASE LoopHead
    BY <1>1, BookkeepingStutter DEF LoopHead
  <1>2. ASSUME NEW s \in Stages, ScanSkip(s) \/ ScanFull(s) \/ Abort(s)
        PROVE  Bookkeeping'
    BY <1>2, BookkeepingStutter DEF ScanSkip, ScanFull, Abort
  <1>3. CASE ScanEnd \/ Settle
    BY <1>3, BookkeepingStutter DEF ScanEnd, Settle
  <1>4. CASE (\E s \in Stages : ProcessStep(s)) \/ UNCHANGED vars
    BY <1>4, BookkeepingStutter DEF ProcessStep, vars, schedulerVars
  <1> QED BY <1>1, <1>2, <1>3, <1>4, BlockedStep, StartStep, CompleteStep
          DEF Next, SchedulerNext, ScanStep

\* The bookkeeping of the scheduler is right in every state.
LEMMA AlwaysBookkeeping == Spec => []Bookkeeping
  BY TypeCorrect, BookkeepingInit, BookkeepingStep, PTL DEF Spec

\* Nothing is alive outside an open promise, and those are of running stages: a promise is
\* opened for the stage that starts, and "close" leaves nothing in the group.
LEMMA AliveStep ==
    ASSUME InGroup
    PROVE  TypeOK /\ AliveIsRunning /\ [Next]_vars => AliveIsRunning'
  <1> SUFFICES ASSUME TypeOK, AliveIsRunning, [Next]_vars PROVE AliveIsRunning'
    OBVIOUS
  <1>0. tree \in [Stages -> Processes!Trees]
    BY DEF TypeOK, Processes!TreeTypeOK
  <1>1. ASSUME NEW s \in Stages, ScanStart(s)
        PROVE  AliveIsRunning'
    <2>1. PICK t \in StartOutcomes : tree' = [tree EXCEPT ![s] = t]
      BY <1>1 DEF ScanStart
    <2>2. DeadOutside(t)
      BY DEF StartOutcomes, DeadOutside, Processes!Opened, Processes!SpawnThrew, Processes!Idle
    <2> QED BY <1>0, <1>1, <2>1, <2>2 DEF ScanStart, AliveIsRunning
  <1>2. ASSUME NEW s \in Stages, Complete(s)
        PROVE  AliveIsRunning'
    BY <1>2 DEF Complete, AliveIsRunning
  <1>3. ASSUME NEW s \in Stages, ProcessStep(s)
        PROVE  AliveIsRunning'
    <2>1. PICK u \in Processes!Trees :
                /\ tree' = [tree EXCEPT ![s] = u]
                /\ u.phase = "open" => tree[s].phase = "open"
                /\ DeadOutside(tree[s]) => DeadOutside(u)
      BY <1>0, <1>3, TreeStepShape DEF ProcessStep
    <2> QED BY <1>0, <1>3, <2>1 DEF ProcessStep, schedulerVars, AliveIsRunning
  <1>4. CASE UNCHANGED <<running, tree>>
    BY <1>4 DEF AliveIsRunning
  <1>5. ASSUME NEW s \in Stages, ScanSkip(s) \/ ScanBlocked(s) \/ ScanFull(s) \/ Abort(s)
        PROVE  UNCHANGED <<running, tree>>
    BY <1>5 DEF ScanSkip, ScanBlocked, ScanFull, Abort
  <1>6. LoopHead \/ ScanEnd \/ Settle => UNCHANGED <<running, tree>>
    BY DEF LoopHead, ScanEnd, Settle
  <1>7. CASE UNCHANGED vars
    BY <1>4, <1>7 DEF vars, schedulerVars
  <1> QED BY <1>1, <1>2, <1>3, <1>4, <1>5, <1>6, <1>7 DEF Next, SchedulerNext, ScanStep

-----------------------------------------------------------------------------
\* Why the scheduler cannot be stuck: every stage is pending, running or done,
\* and while nothing runs and the scan has not moved, no pending stage was passed
\* over; the first of them is ready, because what it depends on comes before it.
ScanInv ==
    /\ \A s \in Stages : s \in pending \cup running \/ HasResult(s)
    /\ running = {} /\ ~progressed =>
         /\ pc = "scan" => \A s \in pending : cursor <= s
         /\ pc = "settle" => pending = {}
    /\ pc # "deadlock"

LEMMA ScanInit == Init => ScanInv
  BY DEF Init, ScanInv

\* A stage depends on earlier stages.
LEMMA EarlierStages ==
    ASSUME TypeOK, NEW s \in Stages, NEW d \in DependsOn(s) PROVE d \in Stages /\ d < s
  <1>1. d \in manifest.dependsOn[s] /\ manifest.dependsOn[s] \subseteq 1..(s - 1)
    BY DEF TypeOK, ValidManifest, DependsOn
  <1>2. N \in Nat /\ s \in 1..N /\ d \in 1..(s - 1)
    BY <1>1, RunnerAssumption
  <1> QED BY <1>2

\* A pending stage the scan may pass over while nothing runs has an earlier stage
\* pending.
LEMMA PassedOver ==
    ASSUME TypeOK, Bookkeeping, ScanInv, running = {}, NEW s \in pending,
           Ready(s) => Failing(s) = {} /\ Conflict(Declared(s))
    PROVE  \E d \in pending : d < s
  <1>1. ~Conflict(Declared(s))
    BY DEF Conflict, Bookkeeping, ResourcesTaken
  <1>2. PICK d \in DependsOn(s) : ~HasResult(d)
    BY <1>1 DEF Ready
  <1>3. s \in Stages
    BY DEF TypeOK
  <1>4. d \in Stages /\ d < s
    BY <1>3, EarlierStages
  <1> QED BY <1>2, <1>4 DEF ScanInv

LEMMA ScanInvStep ==
    TypeOK /\ Bookkeeping /\ ScanInv /\ [Next]_vars => ScanInv'
  <1> SUFFICES ASSUME TypeOK, Bookkeeping, ScanInv, [Next]_vars PROVE ScanInv'
    OBVIOUS
  <1>1. CASE LoopHead
    <2>1. \A s \in pending : 1 <= s
      BY DEF TypeOK
    <2> QED BY <1>1, <2>1 DEF LoopHead, ScanInv, HasResult
  <1>2. ASSUME NEW s \in Stages, ScanSkip(s)
        PROVE  ScanInv'
    <2>1. ASSUME running = {}, ~progressed
          PROVE  \A r \in pending : s + 1 <= r
      <3>1. \A r \in pending : s <= r
        BY <1>2, <2>1 DEF ScanSkip, ScanInv
      <3>2. s \notin pending
        BY <1>2, <2>1, <3>1, PassedOver DEF ScanSkip, TypeOK
      <3> QED BY <3>1, <3>2 DEF TypeOK
    <2> QED BY <1>2, <2>1 DEF ScanSkip, ScanInv, HasResult
  <1>3. ASSUME NEW s \in Stages, ScanBlocked(s)
        PROVE  ScanInv'
    BY <1>3 DEF ScanBlocked, ScanInv, HasResult, TypeOK
  <1>4. ASSUME NEW s \in Stages, ScanFull(s)
        PROVE  ScanInv'
    BY <1>4, FS_EmptySet, RunnerAssumption DEF ScanFull, ScanInv, HasResult
  <1>5. ASSUME NEW s \in Stages, ScanStart(s)
        PROVE  ScanInv'
    BY <1>5 DEF ScanStart, ScanInv, HasResult
  <1>6. CASE ScanEnd
    BY <1>6, RunnerAssumption DEF ScanEnd, ScanInv, HasResult, TypeOK
  <1>7. CASE Settle
    BY <1>7 DEF Settle, ScanInv, HasResult
  <1>8. ASSUME NEW s \in Stages, Complete(s)
        PROVE  ScanInv'
    <2>1. Processes!StageStatus(tree[s]) # "none"
      BY StageStatusType DEF Executed
    <2> QED BY <1>8, <2>1 DEF Complete, ScanInv, HasResult, TypeOK
  <1>9. ASSUME NEW s \in Stages, Abort(s)
        PROVE  ScanInv'
    BY <1>9 DEF Abort, ScanInv, HasResult
  <1>10. ASSUME NEW s \in Stages, ProcessStep(s)
         PROVE  ScanInv'
    BY <1>10 DEF ProcessStep, schedulerVars, ScanInv, HasResult
  <1>11. CASE UNCHANGED vars
    BY <1>11 DEF vars, schedulerVars, ScanInv, HasResult
  <1> QED BY <1>1, <1>2, <1>3, <1>4, <1>5, <1>6, <1>7, <1>8, <1>9, <1>10, <1>11
          DEF Next, SchedulerNext, ScanStep

-----------------------------------------------------------------------------
\* Of the bookkeeping follows what the runner promises of the processes: what is
\* alive belongs to a running stage.
LEMMA AliveRuns ==
    ASSUME TypeOK, SchedulerInv, NEW s \in Stages, StageAlive(s)
    PROVE  s \in running
  <1>1. tree[s] \in Processes!Trees
    BY DEF TypeOK, Processes!TreeTypeOK
  <1> QED BY <1>1 DEF SchedulerInv, AliveIsRunning, DeadOutside, StageAlive, Processes!Alive

LEMMA InvImplies ==
    ASSUME TypeOK, SchedulerInv
    PROVE  ResourceExclusion /\ RunsAfterDependencies /\ ConcurrencyLimit
  <1>1. ResourceExclusion
    BY AliveRuns DEF ResourceExclusion, SchedulerInv, RunningCompatible
  <1>2. RunsAfterDependencies
    BY AliveRuns DEF RunsAfterDependencies, SchedulerInv, RunningUnblocked
  <1>3. ConcurrencyLimit
    <2> DEFINE Live == {s \in Stages : StageAlive(s)}
    <2>1. Live \subseteq running /\ IsFiniteSet(running)
      BY AliveRuns, FiniteStages DEF TypeOK
    <2>2. Cardinality(Live) <= Cardinality(running)
      BY <2>1, FS_Subset
    <2>3. Cardinality(Live) \in Nat /\ Cardinality(running) \in Nat
      BY <2>1, FS_Subset, FS_CardinalityType
    <2>4. Cardinality(Live) <= MaxConcurrency
      BY <2>2, <2>3, RunnerAssumption DEF SchedulerInv, RunningWithinLimit
    <2> QED BY <2>4 DEF ConcurrencyLimit
  <1> QED BY <1>1, <1>2, <1>3

\* The bookkeeping of the scheduler is right in every state, when commands leave
\* no helper outside their process group.
THEOREM BookkeepingCorrect == ASSUME InGroup PROVE Spec => []SchedulerInv
  <1>1. Init => AliveIsRunning
    BY DEF Init, Processes!TreeInit, Processes!Idle, AliveIsRunning, DeadOutside
  <1>2. Bookkeeping /\ AliveIsRunning => SchedulerInv
    BY DEF Bookkeeping, SchedulerInv
  <1> QED BY <1>1, <1>2, TypeCorrect, AlwaysBookkeeping, AliveStep, PTL DEF Spec

\* Two stages of which some process is alive never hold overlapping resources,
\* for every manifest, when commands leave no helper outside their group.
THEOREM ExclusionHolds == ASSUME InGroup PROVE Spec => []ResourceExclusion
  BY TypeCorrect, BookkeepingCorrect, InvImplies, PTL

\* A process only ever runs after the stages its own depends on have passed.
THEOREM DependenciesHold == ASSUME InGroup PROVE Spec => []RunsAfterDependencies
  BY TypeCorrect, BookkeepingCorrect, InvImplies, PTL

\* No more stages than maxConcurrency have a process at a time.
THEOREM LimitHolds == ASSUME InGroup PROVE Spec => []ConcurrencyLimit
  BY TypeCorrect, BookkeepingCorrect, InvImplies, PTL

\* The exception "web project runner scheduler deadlock" is never thrown.
THEOREM NoDeadlock == Spec => []NeverDeadlocked
  <1>1. ScanInv => NeverDeadlocked
    BY DEF ScanInv, NeverDeadlocked
  <1> QED BY <1>1, TypeCorrect, AlwaysBookkeeping, ScanInit, ScanInvStep, PTL DEF Spec

-----------------------------------------------------------------------------
\* Why nothing waits needlessly: every stage the scan has passed must wait.  It stays so
\* while the scan goes on, which only takes resources and slots and gives results to stages
\* behind those it has passed; these are no dependencies of theirs.
ScanKept ==
    /\ pc = "scan" => \A s \in Stages : s < cursor => Waits(s)
    /\ pc \in {"settle", "await"} => \A s \in Stages : Waits(s)

\* What must wait still must when nothing it is told by has changed.
LEMMA WaitsStutter ==
    ASSUME UNCHANGED <<manifest, pending, running, activeResources, byId>>, NEW s, Waits(s)
    PROVE  Waits(s)'
  BY DEF Waits, Ready, Failing, HasResult, DependsOn, Conflict, Declared

LEMMA ScanKeptStep == TypeOK /\ Bookkeeping /\ ScanKept /\ [Next]_vars => ScanKept'
  <1> SUFFICES ASSUME TypeOK, Bookkeeping, ScanKept, [Next]_vars PROVE ScanKept'
    OBVIOUS
  <1>1. CASE LoopHead
    BY <1>1 DEF LoopHead, ScanKept
  <1>2. ASSUME NEW s \in Stages, ScanSkip(s)
        PROVE  ScanKept'
    <2>1. pc = "scan" /\ cursor = s /\ cursor' = s + 1 /\ pc' = pc
          /\ UNCHANGED <<manifest, pending, running, activeResources, byId>>
      BY <1>2 DEF ScanSkip
    <2>2. Waits(s)
      BY <1>2 DEF ScanSkip, Waits
    <2>3. ASSUME NEW t \in Stages, t < cursor' PROVE Waits(t)
      <3>1. t < s \/ t = s
        BY <2>1, <2>3, RunnerAssumption
      <3> QED BY <2>1, <2>2, <3>1 DEF ScanKept
    <2> QED BY <2>1, <2>3, WaitsStutter DEF ScanKept
  <1>3. ASSUME NEW s \in Stages, ScanBlocked(s)
        PROVE  ScanKept'
    <2>1. /\ pc = "scan" /\ cursor = s /\ cursor' = s + 1 /\ pc' = pc /\ pending' = pending \ {s}
          /\ \A r \in Stages \ {s} : byId'[r] = byId[r]
          /\ UNCHANGED <<manifest, running, activeResources>>
      BY <1>3 DEF ScanBlocked, TypeOK
    <2>2. ASSUME NEW t \in Stages, t < cursor' PROVE Waits(t)'
      <3>1. CASE t = s
        BY <2>1, <3>1 DEF Waits, Ready
      <3>2. CASE t # s
        <4>1. t < s /\ Waits(t)
          BY <2>1, <2>2, <3>2, RunnerAssumption DEF ScanKept
        <4>2. ASSUME NEW d \in DependsOn(t) PROVE byId'[d] = byId[d]
          BY <2>1, <4>1, EarlierStages, RunnerAssumption
        <4>3. Failing(t)' = Failing(t) /\ (Ready(t)' => Ready(t))
          BY <2>1, <4>2 DEF Failing, Ready, HasResult, DependsOn
        <4>4. Conflict(Declared(t))' = Conflict(Declared(t))
          BY <2>1 DEF Conflict, Declared
        <4> QED BY <2>1, <4>1, <4>3, <4>4 DEF Waits
      <3> QED BY <3>1, <3>2
    <2> QED BY <2>1, <2>2 DEF ScanKept
  <1>4. ASSUME NEW s \in Stages, ScanFull(s)
        PROVE  ScanKept'
    <2>1. Cardinality(running) >= MaxConcurrency /\ pc' = "settle"
          /\ UNCHANGED <<manifest, pending, running, activeResources, byId>>
      BY <1>4 DEF ScanFull
    <2>2. IsFiniteSet(running)
      BY FiniteStages DEF TypeOK
    <2>3. Cardinality(running) = MaxConcurrency
      BY <2>1, <2>2, FS_CardinalityType, RunnerAssumption DEF Bookkeeping, RunningWithinLimit
    <2>4. \A t \in Stages : Waits(t)
      BY <2>3 DEF Waits
    <2> QED BY <2>1, <2>4, WaitsStutter DEF ScanKept
  <1>5. ASSUME NEW s \in Stages, ScanStart(s)
        PROVE  ScanKept'
    <2>1. /\ pc = "scan" /\ cursor = s /\ cursor' = s + 1 /\ pc' = pc /\ pending' = pending \ {s}
          /\ running' = running \cup {s} /\ activeResources' = activeResources \cup Declared(s)
          /\ Cardinality(running) < MaxConcurrency
          /\ UNCHANGED <<manifest, byId>>
      BY <1>5 DEF ScanStart
    <2>2. ASSUME NEW t \in Stages, t < cursor' PROVE Waits(t)'
      <3>1. CASE t = s
        BY <2>1, <3>1 DEF Waits, Ready
      <3>2. CASE t # s
        <4>1. t < s /\ Waits(t)
          BY <2>1, <2>2, <3>2, RunnerAssumption DEF ScanKept
        <4>2. Failing(t)' = Failing(t) /\ (Ready(t)' => Ready(t))
          BY <2>1 DEF Failing, Ready, HasResult, DependsOn
        <4>3. Cardinality(running) # MaxConcurrency
          <5>1. IsFiniteSet(running)
            BY FiniteStages DEF TypeOK
          <5> QED BY <2>1, <5>1, FS_CardinalityType, RunnerAssumption
        <4>4. Conflict(Declared(t)) => Conflict(Declared(t))'
          BY <2>1 DEF Conflict, Declared
        <4> QED BY <4>1, <4>2, <4>3, <4>4 DEF Waits
      <3> QED BY <3>1, <3>2
    <2> QED BY <2>1, <2>2 DEF ScanKept
  <1>6. CASE ScanEnd
    <2>1. \A s \in Stages : s < cursor
      BY <1>6, RunnerAssumption DEF ScanEnd
    <2> QED BY <1>6, <2>1, WaitsStutter DEF ScanEnd, ScanKept
  <1>7. CASE Settle
    BY <1>7, WaitsStutter DEF Settle, ScanKept
  <1>8. ASSUME NEW s \in Stages, Complete(s) \/ Abort(s)
        PROVE  ScanKept'
    BY <1>8 DEF Complete, Abort, ScanKept
  <1>9. CASE (\E s \in Stages : ProcessStep(s)) \/ UNCHANGED vars
    <2>1. UNCHANGED <<manifest, pending, running, activeResources, byId, cursor, pc>>
      BY <1>9 DEF ProcessStep, vars, schedulerVars
    <2> QED BY <2>1, WaitsStutter DEF ScanKept
  <1> QED BY <1>1, <1>2, <1>3, <1>4, <1>5, <1>6, <1>7, <1>8, <1>9
          DEF Next, SchedulerNext, ScanStep

\* The scheduler never awaits while a stage could be started, and with a free slot no stage
\* that can only be blocked is left without its verdict.
THEOREM NothingWaitsNeedlessly == Spec => []WorkConserving
  <1>1. Init => ScanKept
    BY DEF Init, ScanKept
  <1>2. ScanKept => WorkConserving
    BY DEF ScanKept, WorkConserving
  <1> QED BY <1>1, <1>2, TypeCorrect, AlwaysBookkeeping, ScanKeptStep, PTL DEF Spec

-----------------------------------------------------------------------------
\* What is returned as the report is over: nothing is pending or running.
Returned == pc = "done" => pending = {} /\ running = {}

\* The loop is left only when nothing is pending or running.
LEMMA ReturnedStep == TypeOK /\ Returned /\ [Next]_vars => Returned'
  <1> SUFFICES ASSUME TypeOK, Returned, [Next]_vars PROVE Returned'
    OBVIOUS
  <1>1. CASE LoopHead \/ ScanEnd \/ Settle
    BY <1>1 DEF LoopHead, ScanEnd, Settle, Returned
  <1>2. ASSUME NEW s \in Stages, ScanStep(s)
        PROVE  Returned'
    BY <1>2 DEF ScanStep, ScanSkip, ScanBlocked, ScanFull, ScanStart, Returned
  <1>3. ASSUME NEW s \in Stages, Complete(s) \/ Abort(s)
        PROVE  Returned'
    BY <1>3 DEF Complete, Abort, Returned
  <1>4. CASE (\E s \in Stages : ProcessStep(s)) \/ UNCHANGED vars
    BY <1>4 DEF ProcessStep, vars, schedulerVars, Returned
  <1> QED BY <1>1, <1>2, <1>3, <1>4 DEF Next, SchedulerNext

\* When the report is returned every stage has a result and nothing of any stage is alive
\* that could still change the files the report speaks of, when commands leave no helper
\* outside their process group.
THEOREM ReportIsOver == ASSUME InGroup PROVE Spec => []ReportIsFinal
  <1>1. Init => Returned
    BY DEF Init, Returned
  <1>2. TypeOK /\ SchedulerInv /\ ScanInv /\ Returned => ReportIsFinal
    BY AliveRuns DEF ScanInv, Returned, ReportIsFinal
  <1> QED BY <1>1, <1>2, TypeCorrect, BookkeepingCorrect, AlwaysBookkeeping, ScanInit, ScanInvStep,
             ReturnedStep, PTL DEF Spec

-----------------------------------------------------------------------------
\* What holds of every promise: what is not open is closed, a timeout is told, and a stage
\* that is pending has none.
PromiseInv ==
    /\ \A s \in Stages : Closed(tree[s]) /\ Told(tree[s])
    /\ \A s \in pending : tree[s].phase = "idle"

\* Every step keeps it; a settled promise changes only in its helpers.
LEMMA PromiseStep ==
    TypeOK /\ PromiseInv /\ [Next]_vars =>
        /\ PromiseInv'
        /\ \A s \in Stages : tree[s].phase = "settled" =>
              tree'[s] = [tree[s] EXCEPT !.helpers = tree'[s].helpers]
  <1> DEFINE Kept == \A s \in Stages : tree[s].phase = "settled" =>
                        tree'[s] = [tree[s] EXCEPT !.helpers = tree'[s].helpers]
  <1> SUFFICES ASSUME TypeOK, PromiseInv, [Next]_vars PROVE PromiseInv' /\ Kept
    OBVIOUS
  <1>0. tree \in [Stages -> Processes!Trees]
    BY DEF TypeOK, Processes!TreeTypeOK
  <1>1. CASE UNCHANGED tree /\ pending' \subseteq pending
    <2>1. \A s \in Stages : [tree[s] EXCEPT !.helpers = tree[s].helpers] = tree[s]
      BY <1>0 DEF Processes!Trees
    <2> QED BY <1>1, <2>1 DEF PromiseInv
  <1>2. ASSUME NEW s \in Stages, ScanStart(s)
        PROVE  PromiseInv' /\ Kept
    <2>1. PICK t \in StartOutcomes : tree' = [tree EXCEPT ![s] = t]
      BY <1>2 DEF ScanStart
    <2>2. Closed(t) /\ Told(t)
      BY DEF StartOutcomes, Closed, Told, Processes!Opened, Processes!SpawnThrew, Processes!Idle
    <2>3. s \in pending /\ pending' = pending \ {s} /\ tree[s].phase = "idle"
      BY <1>2 DEF ScanStart, Ready, PromiseInv
    <2>4. \A r \in Stages \ {s} : tree'[r] = tree[r]
      BY <1>0, <2>1
    <2>5. \A r \in Stages : [tree[r] EXCEPT !.helpers = tree[r].helpers] = tree[r]
      BY <1>0 DEF Processes!Trees
    <2>6. PromiseInv'
      <3>1. tree'[s] = t
        BY <1>0, <2>1
      <3>2. pending' \subseteq Stages
        BY <2>3 DEF TypeOK
      <3> QED BY <2>2, <2>3, <2>4, <3>1, <3>2 DEF PromiseInv
    <2> QED BY <2>3, <2>4, <2>5, <2>6
  <1>3. ASSUME NEW s \in Stages, ProcessStep(s)
        PROVE  PromiseInv' /\ Kept
    <2>1. PICK u \in Processes!Trees :
                /\ tree' = [tree EXCEPT ![s] = u]
                /\ u.phase = "open" => tree[s].phase = "open"
                /\ Closed(tree[s]) => Closed(u)
                /\ Told(tree[s]) => Told(u)
                /\ Closed(tree[s]) /\ tree[s].phase = "settled" =>
                      u = [tree[s] EXCEPT !.helpers = u.helpers]
      BY <1>0, <1>3, TreeStepShape DEF ProcessStep
    <2>2. tree'[s] = u /\ \A r \in Stages \ {s} : tree'[r] = tree[r]
      BY <1>0, <2>1
    <2>3. pending' = pending
      BY <1>3 DEF ProcessStep, schedulerVars
    <2>4. \A r \in Stages : [tree[r] EXCEPT !.helpers = tree[r].helpers] = tree[r]
      BY <1>0 DEF Processes!Trees
    <2>5. tree[s].phase = "idle" => u.phase = "idle"
      <3>1. Closed(tree[s]) /\ Processes!TreeStep(s)
        BY <1>3 DEF PromiseInv, ProcessStep
      <3> QED BY <1>0, <2>2, <3>1, IdleStaysIdle
    <2>6. Kept
      BY <2>1, <2>2, <2>4 DEF PromiseInv
    <2>7. PromiseInv'
      <3>1. pending \subseteq Stages
        BY DEF TypeOK
      <3> QED BY <2>1, <2>2, <2>3, <2>5, <3>1 DEF PromiseInv
    <2> QED BY <2>6, <2>7
  <1>4. ASSUME NEW s \in Stages, ScanSkip(s) \/ ScanBlocked(s) \/ ScanFull(s) \/ Complete(s) \/ Abort(s)
        PROVE  UNCHANGED tree /\ pending' \subseteq pending
    BY <1>4 DEF ScanSkip, ScanBlocked, ScanFull, Complete, Abort
  <1>5. CASE LoopHead \/ ScanEnd \/ Settle
    BY <1>1, <1>5 DEF LoopHead, ScanEnd, Settle
  <1>6. CASE UNCHANGED vars
    BY <1>1, <1>6 DEF vars, schedulerVars
  <1> HIDE DEF Kept
  <1> QED BY <1>1, <1>2, <1>3, <1>4, <1>5, <1>6 DEF Next, SchedulerNext, ScanStep

\* No promise: nothing of its processes has anything to do.
LEMMA PromiseInit == Init => PromiseInv
  BY DEF Init, Processes!TreeInit, Processes!Idle, PromiseInv, Closed, Told

\* The verdict of a stage that timed out is a timeout, whatever its process exited with, and
\* only an exit code of 0 passes.
THEOREM VerdictsAreHonest == Spec => []VerdictIsHonest
  <1>1. PromiseInv => VerdictIsHonest
    BY DEF PromiseInv, Told, VerdictIsHonest, Processes!VerdictIsHonest, Processes!StageStatus,
           Processes!Outcome
  <1> QED BY <1>1, TypeCorrect, PromiseInit, PromiseStep, PTL DEF Spec

\* Once a promise has settled neither its timer nor its listeners act: no signal is sent to a
\* group whose id may be another's by then.
THEOREM SettledStaysQuiet == Spec => NoSignalAfterSettled
  <1> DEFINE Quiet == \A c \in Stages : tree[c].phase = "settled" =>
                         tree'[c] = [tree[c] EXCEPT !.helpers = tree'[c].helpers]
  <1>1. TypeOK /\ PromiseInv /\ [Next]_vars => [Quiet]_tree
    BY PromiseStep
  <1>2. TypeOK /\ PromiseInv /\ [Next]_vars => PromiseInv'
    BY PromiseStep
  <1>3. NoSignalAfterSettled <=> [][Quiet]_tree
    BY DEF NoSignalAfterSettled, Processes!NoSignalAfterSettled
  <1> HIDE DEF Quiet
  <1> QED BY <1>1, <1>2, <1>3, TypeCorrect, PromiseInit, PTL DEF Spec

-----------------------------------------------------------------------------
\* What the stage graph sees of the results.
StatusOf == [s \in Stages |-> byId[s].status]
BlockersOf == [s \in Stages |-> byId[s].blockedBy]

\* A step that gives a stage its result, as the graph sees it.
LEMMA ResultSeen ==
    ASSUME TypeOK, NEW s \in Stages, NEW r \in Result, byId' = [byId EXCEPT ![s] = r]
    PROVE  /\ StatusOf' = [StatusOf EXCEPT ![s] = r.status]
           /\ BlockersOf' = [BlockersOf EXCEPT ![s] = r.blockedBy]
  BY DEF TypeOK, StatusOf, BlockersOf

\* What is given a result by the scheduler is reported by the graph: its dependencies have
\* theirs, and it is blocked exactly when one of them did not pass.
LEMMA ReportsResult ==
    ASSUME TypeOK, NEW s \in Stages, NEW r \in Result, byId' = [byId EXCEPT ![s] = r],
           UNCHANGED manifest, ~HasResult(s), \A d \in DependsOn(s) : HasResult(d),
           r.status = "blocked" <=> Failing(s) # {}, r.blockedBy = Failing(s)
    PROVE  Graph!Report(s)
  <1>1. DependsOn(s) = manifest.dependsOn[s] /\ DependsOn(s) \subseteq Stages
    BY DEF TypeOK, ValidManifest, DependsOn
  <1>2. Graph!Failing(s) = Failing(s)
    BY <1>1 DEF Graph!Failing, Failing
  <1>3. r.status \in Graph!Statuses
    BY DEF Result, Executed, Graph!Statuses, Graph!Executed
  <1>4. StatusOf[s] = "none" /\ \A d \in DependsOn(s) : StatusOf[d] # "none"
    BY <1>1 DEF StatusOf, HasResult
  <1>5. /\ StatusOf' = [StatusOf EXCEPT ![s] = r.status]
        /\ BlockersOf' = [BlockersOf EXCEPT ![s] = r.blockedBy]
    BY ResultSeen, Zenon
  <1>6. r.blockedBy = Graph!Failing(s) /\ (r.status = "blocked" <=> Graph!Failing(s) # {})
    BY <1>2
  <1> QED BY <1>1, <1>3, <1>4, <1>5, <1>6 DEF Graph!Report, StatusOf, BlockersOf

\* Every step reports the result of one stage, or the graph sees nothing of it.
LEMMA GraphStep ==
    TypeOK /\ Bookkeeping /\ [Next]_vars => [Graph!GraphNext]_(Graph!graphVars)
  <1> SUFFICES ASSUME TypeOK, Bookkeeping, [Next]_vars
               PROVE  [Graph!GraphNext]_(Graph!graphVars)
    OBVIOUS
  <1>1. CASE UNCHANGED <<manifest, byId>>
    BY <1>1 DEF Graph!graphVars
  <1>2. ASSUME NEW s \in Stages, ScanBlocked(s)
        PROVE  Graph!GraphNext
    <2> DEFINE r == [status |-> "blocked", blockedBy |-> Failing(s)]
    <2>1. r \in Result
      BY DEF Failing, DependsOn, ValidManifest, Result, TypeOK
    <2>2. /\ byId' = [byId EXCEPT ![s] = r] /\ UNCHANGED manifest
          /\ s \in pending /\ \A d \in DependsOn(s) : HasResult(d)
          /\ Failing(s) # {}
      BY <1>2 DEF ScanBlocked, Ready
    <2>3. ~HasResult(s)
      BY <2>2 DEF Bookkeeping, ResultsFinal
    <2>4. r.status = "blocked" /\ r.blockedBy = Failing(s)
      OBVIOUS
    <2> HIDE DEF r
    <2>5. Graph!Report(s)
      BY <2>1, <2>2, <2>3, <2>4, ReportsResult
    <2> QED BY <2>5 DEF Graph!GraphNext, Graph!Stages
  <1>3. ASSUME NEW s \in Stages, Complete(s)
        PROVE  Graph!GraphNext
    <2> DEFINE r == [status |-> Processes!StageStatus(tree[s]), blockedBy |-> {}]
    <2>1. r \in Result /\ r.status \in Executed
      BY StageStatusType DEF Result
    <2>2. byId' = [byId EXCEPT ![s] = r] /\ UNCHANGED manifest /\ s \in running
      BY <1>3 DEF Complete
    <2>3. ~HasResult(s)
      BY <2>2 DEF Bookkeeping, ResultsFinal
    <2>4. \A d \in DependsOn(s) : byId[d].status = "pass"
      BY <2>2 DEF Bookkeeping, RunningUnblocked
    <2>5. Failing(s) = {} /\ \A d \in DependsOn(s) : HasResult(d)
      BY <2>4 DEF Failing, HasResult
    <2>6. r.status # "blocked" /\ r.blockedBy = {}
      BY <2>1 DEF Executed
    <2> HIDE DEF r
    <2>7. Graph!Report(s)
      BY <2>1, <2>2, <2>3, <2>5, <2>6, ReportsResult
    <2> QED BY <2>7 DEF Graph!GraphNext, Graph!Stages
  <1>4. ASSUME NEW s \in Stages, ScanSkip(s) \/ ScanFull(s) \/ ScanStart(s) \/ Abort(s) \/ ProcessStep(s)
        PROVE  UNCHANGED <<manifest, byId>>
    BY <1>4 DEF ScanSkip, ScanFull, ScanStart, Abort, ProcessStep, schedulerVars
  <1>5. LoopHead \/ ScanEnd \/ Settle => UNCHANGED <<manifest, byId>>
    BY DEF LoopHead, ScanEnd, Settle
  <1>6. CASE UNCHANGED vars
    BY <1>1, <1>6 DEF vars, schedulerVars
  <1> QED BY <1>1, <1>2, <1>3, <1>4, <1>5, <1>6 DEF Next, SchedulerNext, ScanStep

\* The concurrent runner gives every stage one verdict, after all it depends on, blocked
\* exactly by those that did not pass, and final: whatever the manifest, the order in which
\* stages end and what their commands do.
THEOREM RunnerImplementsGraph == Spec => ImplementsStageGraph
  <1>1. Init => Graph!GraphInit
    <2> SUFFICES ASSUME Init PROVE Graph!GraphInit
      OBVIOUS
    <2>1. ValidManifest(manifest)
      BY RunnerAssumption DEF Init
    <2>2. StatusOf = [s \in Stages |-> "none"] /\ BlockersOf = [s \in Stages |-> {}]
      BY DEF Init, StatusOf, BlockersOf, None
    <2> QED BY <2>1, <2>2 DEF ValidManifest, Graph!GraphInit, Graph!Stages, StatusOf, BlockersOf
  <1> QED BY <1>1, TypeCorrect, AlwaysBookkeeping, GraphStep, PTL
          DEF Spec, ImplementsStageGraph, Graph!GraphSpec
=============================================================================
