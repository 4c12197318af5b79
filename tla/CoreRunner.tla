----------------------------- MODULE CoreRunner ------------------------------
(***************************************************************************)
(* run_validated (src/core.mbt): cases of a random walk over the machine   *)
(* collect a graph of states and transitions; a failing property stops its *)
(* case, and its shrunk counterexample joins the report.  The              *)
(* pseudo-random index is any index of the available actions.              *)
(***************************************************************************)
EXTENDS Shrinker

CONSTANTS Cases,         \* config.cases
          MaxStates      \* config.max_states

\* RunConfig::validate.
ASSUME RunAssumption == Cases \in Nat /\ MaxStates \in Nat \ {0}

\* The report's and the walk's state: which case runs, how deep its walk is, the
\* walk's model and trace, and whether it visits a state, acts or shrinks.
VARIABLES states, transitions, steps, failures, diagnostics, observed,
          case, depth, model, trace, at

reported == <<states, transitions, steps, failures, diagnostics, observed>>
walk == <<case, depth, model, trace, at>>
runVars == <<machine, job, reported, walk>>

State == DOMAIN machine.fingerprint
PropertyIndex == DOMAIN Properties

-----------------------------------------------------------------------------
\* add_model_snapshot, one model after another: the first model of an id gives
\* its snapshot, a later one that looks different is diagnosed.
SnapshotOf(x, d) == [id |-> machine.fingerprint[x], view |-> machine.view[x], depth |-> d]

Snapshot(snapshots, x, d) ==
    IF \E i \in DOMAIN snapshots : snapshots[i].id = machine.fingerprint[x] THEN snapshots
    ELSE Append(snapshots, SnapshotOf(x, d))

SnapshotsOf(snapshots, models) ==
    LET kept[d \in 0 .. Len(models)] ==
            IF d = 0 THEN snapshots ELSE Snapshot(kept[d - 1], models[d], d - 1)
    IN kept

Snapshots(snapshots, models) == SnapshotsOf(snapshots, models)[Len(models)]

StateCollision(id) == [kind |-> "StateIdentityCollision", identity |-> id]
ActionCollision(id) == [kind |-> "ActionIdentityCollision", identity |-> id]
BudgetSpent(p) == [kind |-> "ShrinkBudgetExceeded", identity |-> p]

\* The ids under which the report now holds another view than one of the models.
StateCollisions(snapshots, models) ==
    {StateCollision(s.id) : s \in {s \in ToSet(snapshots) :
        \E x \in ToSet(models) : machine.fingerprint[x] = s.id /\ machine.view[x] # s.view}}

\* observe_action: what is observed first under an id is kept, and compared with
\* what is observed later.
Observe(kept, t) ==
    IF \E o \in kept : o.actionId = t.actionId THEN kept ELSE kept \cup {t}

Observations(kept, ts) == FoldLeft(Observe, kept, ts)

ActionCollisions(kept, ts) ==
    {ActionCollision(t.actionId) : t \in {t \in ToSet(ts) :
        \E o \in Observations(kept, ts) :
            /\ o.actionId = t.actionId
            /\ o.action # t.action \/ (o.from = t.from /\ o.to # t.to)}}

\* A slip: only the first step under the id is compared.
StepCollisionsFirst(t) ==
    LET i == SelectInSeq(transitions, LAMBDA o : o.actionId = t.actionId)
    IN IF i # 0 /\ transitions[i].from = t.from /\ transitions[i].to # t.to
       THEN {ActionCollision(t.actionId)} ELSE {}

\* observe_transition_identity: the walk's own step against all earlier ones.
StepCollisions(t) ==
    {ActionCollision(t.actionId) : o \in {o \in ToSet(transitions) :
        o.from = t.from /\ o.actionId = t.actionId /\ o.to # t.to}}

-----------------------------------------------------------------------------
RunInit ==
    /\ machine \in Machine /\ job = IdleJob
    /\ states = <<>> /\ transitions = <<>> /\ steps = 0
    /\ failures = <<>> /\ diagnostics = {} /\ observed = {}
    /\ case = 1 /\ depth = 0 /\ model = machine.initial /\ trace = <<>> /\ at = "visit"

\* The case is over: the next one starts from the initial model.
NextCase ==
    /\ case' = case + 1 /\ depth' = 0 /\ model' = machine.initial /\ trace' = <<>>
    /\ at' = "visit"

\* The depth loop of the case is left, or not entered.
EndCase ==
    /\ case <= Cases /\ at = "visit"
    /\ Len(states) >= MaxStates
    /\ NextCase /\ UNCHANGED <<machine, job, reported>>

\* The first property in order that fails is shrunk, the others are not asked.
FailsFirst(failing, i) ==
    Properties[i] \in failing /\ \A j \in 1 .. i - 1 : Properties[j] \notin failing
StateFailures(x) == {p \in ToSet(Properties) : StateFails(machine, p, x)}
StepFailures(x, a) == {p \in ToSet(Properties) : StepFails(machine, p, x, a)}

\* The head of the depth loop, up to the choice of an action.
Visit ==
    /\ case <= Cases /\ at = "visit" /\ Len(states) < MaxStates
    /\ states' = Snapshot(states, model, depth)
    /\ diagnostics' = diagnostics \cup StateCollisions(states', <<model>>)
    /\ \/ \E i \in PropertyIndex :
             /\ FailsFirst(StateFailures(model), i)
             /\ job' = StartJob(Properties[i], trace) /\ at' = "shrink"
             /\ UNCHANGED <<case, depth, model, trace>>
       \/ /\ StateFailures(model) = {}
          /\ IF depth = MaxDepth \/ Len(states') >= MaxStates \/ machine.actions[model] = <<>>
             THEN NextCase ELSE at' = "act" /\ UNCHANGED <<case, depth, model, trace>>
          /\ UNCHANGED job
    /\ UNCHANGED <<machine, transitions, steps, failures, observed>>

\* Every available action is observed, one of them is taken.
Act(k) ==
    /\ at = "act" /\ k \in DOMAIN machine.actions[model]
    /\ LET offered == machine.actions[model]
           seen == [j \in DOMAIN offered |-> Transition(machine, model, offered[j])]
           next == machine.update[<<model, offered[k]>>]
       IN /\ observed' = Observations(observed, seen)
          /\ diagnostics' = diagnostics \cup ActionCollisions(observed, seen)
                                        \cup StepCollisions(seen[k])
          /\ transitions' = Append(transitions, seen[k])
          /\ steps' = steps + 1
          /\ trace' = Append(trace, offered[k])
          /\ model' = next
          /\ \/ \E i \in PropertyIndex :
                   /\ FailsFirst(StepFailures(model, offered[k]), i)
                   /\ job' = StartJob(Properties[i], trace') /\ at' = "shrink"
                   /\ UNCHANGED depth
             \/ /\ StepFailures(model, offered[k]) = {}
                /\ at' = "visit" /\ depth' = depth + 1
                /\ UNCHANGED job
    /\ UNCHANGED <<machine, states, failures, case>>

Shrink ==
    /\ at = "shrink" /\ ShrinkStep
    /\ UNCHANGED <<machine, reported, walk>>

-----------------------------------------------------------------------------
\* A slip: only the first failure of a report is recorded.
RecordedFirst(failure) == IF failures = <<>> THEN <<failure>> ELSE failures

\* record_minimal_failure: one failure per property, the one of fewest steps.
Recorded(failure) ==
    LET i == SelectInSeq(failures, LAMBDA f : f.property = failure.property)
    IN IF i = 0 THEN Append(failures, failure)
       ELSE IF Len(failure.steps) < Len(failures[i].steps)
       THEN ReplaceAt(failures, i, failure) ELSE failures

\* append_failure after the shrinker: the counterexample is replayed, its states
\* join the graph whatever their number, its steps are observed, and the failure
\* is recorded.  A trace whose replay does not fail is dropped without a word.
AppendFailure ==
    /\ at = "shrink" /\ job.phase = "done"
    /\ LET r == Replay(machine, job.property, job.current)
           failed == r.verdict = "fail"
           spent == IF job.exhausted THEN {BudgetSpent(job.property)} ELSE {}
           last == Last(r.models)
       IN IF ~failed THEN /\ diagnostics' = diagnostics \cup spent
                          /\ UNCHANGED <<states, observed, failures>>
          ELSE /\ states' = Snapshots(states, r.models)
               /\ observed' = Observations(observed, r.steps)
               /\ diagnostics' = diagnostics \cup spent
                     \cup StateCollisions(states', r.models)
                     \cup ActionCollisions(observed, r.steps)
               /\ failures' = Recorded([property |-> job.property, steps |-> r.steps,
                                        state |-> machine.fingerprint[last]])
    /\ job' = IdleJob /\ NextCase
    /\ UNCHANGED <<machine, transitions, steps>>

RunNext ==
    \/ Visit \/ EndCase \/ Shrink \/ AppendFailure
    \/ \E k \in DOMAIN machine.actions[model] : Act(k)

RunSpec == RunInit /\ [][RunNext]_runVars

-----------------------------------------------------------------------------
\* The shape of the state.  The walk stays within max_states; the counterexamples
\* of the last case may go over it, by no more than their length.
RunTypeOK ==
    /\ Len(states) <= MaxStates + MaxDepth
    /\ failures = <<>> => Len(states) <= MaxStates
    /\ \A i \in DOMAIN states : states[i].depth \in 0 .. MaxDepth
    /\ \A t \in ToSet(transitions) : t.actionId \in Range(machine.id)
    /\ \A f \in ToSet(failures) : f.property \in ToSet(Properties) /\ Len(f.steps) <= MaxDepth
    /\ steps = Len(transitions) /\ steps <= Cases * MaxDepth
    /\ case \in 1 .. Cases + 1 /\ depth \in 0 .. MaxDepth
    /\ model \in State /\ trace \in TracesUpTo(MaxDepth)
    /\ at \in {"visit", "act", "shrink"}
    /\ job.phase \in JobPhases /\ (job.phase = "idle" <=> at # "shrink")

UniqueIds == \A a, b \in Message : machine.id[a] = machine.id[b] => a = b
Shown(id) == \E s \in ToSet(states) : s.id = id
Diagnosed(diagnostic) == diagnostic \in diagnostics
BetweenCases == at = "visit" /\ depth = 0

\* The graph has no step that leads to a state it does not show, however a case
\* ended ("state limit stops before recording a dangling transition").
NoDanglingTransition ==
    BetweenCases => \A t \in ToSet(transitions) : Shown(t.from) /\ Shown(t.to)

\* So much of it holds of every client: only a step that itself failed a property
\* of transitions may lead to a state that is not shown.
WalkIsClosed ==
    /\ RunTypeOK
    /\ BetweenCases => \A t \in ToSet(transitions) :
        /\ Shown(t.from)
        /\ \/ Shown(t.to)
           \/ \E x \in State, a \in Message :
                 Transition(machine, x, a) = t /\ StepFailures(x, a) # {}

\* Every state of a reported counterexample is shown, by the snapshot of a model
\* that looks the same unless a collision of its id is diagnosed ("transition
\* failure target is included in state snapshots").
CounterexamplesShown ==
    \A f \in ToSet(failures) :
        /\ Shown(f.state)
        /\ \E t \in TracesUpTo(MaxDepth) :
              LET r == Replay(machine, f.property, t)
              IN /\ r.verdict = "fail" /\ r.steps = f.steps
                 /\ \A x \in ToSet(r.models) :
                       \E s \in ToSet(states) :
                          /\ s.id = machine.fingerprint[x]
                          /\ s.view = machine.view[x] \/ Diagnosed(StateCollision(s.id))

\* A client that names each message by an id of its own loses no failure: a case
\* that met a failing property leaves a counterexample of it.
FailureNeverLost ==
    [][UniqueIds /\ at = "shrink" /\ at' = "visit" =>
         \E f \in ToSet(failures') : f.property = job.property]_runVars

\* Later cases only improve the report: each property keeps its one failure,
\* whose counterexample never becomes longer.
FailuresImprove ==
    [][\A i \in DOMAIN failures :
         /\ i \in DOMAIN failures' /\ failures'[i].property = failures[i].property
         /\ Len(failures'[i].steps) <= Len(failures[i].steps)
         /\ \A j \in DOMAIN failures' : failures'[j].property = failures[i].property => j = i]_runVars

\* The recorded walk is deterministic, one id leads from one state to one state,
\* unless the collision is diagnosed.
WalkDeterministic ==
    \A t, u \in ToSet(transitions) :
        t.from = u.from /\ t.actionId = u.actionId /\ t.to # u.to
            => Diagnosed(ActionCollision(t.actionId))

\* What the report shows of the walk is there and is what the client does.
ReportIsTrue == WalkIsClosed /\ CounterexamplesShown /\ WalkDeterministic

\* What the walk found stays in the report, and only gets better.
FailuresKept == FailureNeverLost /\ FailuresImprove
=============================================================================
