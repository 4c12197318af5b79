--------------------------- MODULE ContextScheduler ----------------------------
(***************************************************************************)
(* exploreMultiContextSchedules (protocol/web-multi-context-scheduler.mjs):*)
(* the interleavings of the operations of several contexts on one shared   *)
(* state, breadth first, within three bounds; and the replay of a failing  *)
(* one.  The scenario is the caller's: its functions are parameters.       *)
(***************************************************************************)
EXTENDS Integers, Sequences, FiniteSets

CONSTANTS
    Contexts,               \* a sequence, in the order they are tried
    Bounds,                 \* records: maxDepth, maxTransitions, maxStates
    Scenarios,
    StatesOf(_),            \* the states a scenario may be in
    InitialState(_),        \* of a scenario
    Operations(_, _, _),    \* scenario, state, context: its actions in the order of their ids
    Transitioned(_, _, _, _),
    Violating(_, _)         \* the states the scenario's invariant rejects

ASSUME SchedulerAssumption ==
    /\ DOMAIN Contexts \subseteq Nat
    /\ \A b \in Bounds : b.maxDepth \in Nat \ {0} /\ b.maxTransitions \in Nat \ {0} /\ b.maxStates \in Nat \ {0}
    /\ \A s \in Scenarios :
         /\ InitialState(s) \in StatesOf(s)
         /\ \A x \in StatesOf(s), i \in DOMAIN Contexts :
              /\ DOMAIN Operations(s, x, Contexts[i]) \subseteq Nat
              /\ \A k \in DOMAIN Operations(s, x, Contexts[i]) :
                   Transitioned(s, x, Contexts[i], Operations(s, x, Contexts[i])[k]) \in StatesOf(s)

VARIABLES
    scenario, bounds,
    known,          \* the states found, each with the trace that found it
    line,           \* the states to expand
    expanding, left,\* the state in expansion and the places of the operations still to try
    tried,          \* the number of transitions
    violations,     \* the failures found, each a trace
    limits,         \* the bounds reached: "depth", "transitions", "states"
    contextAt       \* "queue", "expand", "done"

contextVars == <<scenario, bounds, known, line, expanding, left, tried, violations, limits, contextAt>>

Depth(x) == Len(known[x])

\* The operations of a state, context by context: a place is that of a context and
\* that of an action of it.
Places(s, x) == UNION {{i} \X DOMAIN Operations(s, x, Contexts[i]) : i \in DOMAIN Contexts}
OperationAt(s, x, p) == <<Contexts[p[1]], Operations(s, x, Contexts[p[1]])[p[2]]>>
OperationsOf(s, x) == {OperationAt(s, x, p) : p \in Places(s, x)}
First(places) == CHOOSE p \in places : \A q \in places : p[1] < q[1] \/ (p[1] = q[1] /\ p[2] <= q[2])

After(s, x, op) == Transitioned(s, x, op[1], op[2])

ContextInit ==
    /\ scenario \in Scenarios /\ bounds \in Bounds
    /\ known = [x \in {InitialState(scenario)} |-> <<>>] /\ line = <<InitialState(scenario)>>
    /\ expanding = InitialState(scenario) /\ left = {} /\ tried = 0
    /\ violations = {} /\ limits = {} /\ contextAt = "queue"

\* The next state; one at the depth bound is not expanded.
TakeState ==
    /\ contextAt = "queue" /\ line # <<>>
    /\ line' = Tail(line)
    /\ IF Depth(Head(line)) >= bounds.maxDepth
       THEN /\ limits' = limits \cup IF OperationsOf(scenario, Head(line)) = {} THEN {} ELSE {"depth"}
            /\ UNCHANGED <<expanding, left, contextAt>>
       ELSE /\ expanding' = Head(line) /\ left' = Places(scenario, Head(line)) /\ contextAt' = "expand"
            /\ UNCHANGED limits
    /\ UNCHANGED <<scenario, bounds, known, tried, violations>>

\* One operation: counted, what it shows noted, its state kept if it is new and there
\* is room.
TryOperation ==
    /\ contextAt = "expand" /\ left # {} /\ tried < bounds.maxTransitions
    /\ LET op == OperationAt(scenario, expanding, First(left))
           y == After(scenario, expanding, op)
           trace == Append(known[expanding], op)
       IN /\ violations' = IF Violating(scenario, y) THEN violations \cup {trace} ELSE violations
          /\ IF y \in DOMAIN known THEN UNCHANGED <<known, line, limits>>
             ELSE IF Cardinality(DOMAIN known) >= bounds.maxStates
                  THEN limits' = limits \cup {"states"} /\ UNCHANGED <<known, line>>
             ELSE /\ known' = [x \in DOMAIN known \cup {y} |-> IF x = y THEN trace ELSE known[x]]
                  /\ line' = Append(line, y) /\ UNCHANGED limits
    /\ tried' = tried + 1 /\ left' = left \ {First(left)}
    /\ UNCHANGED <<scenario, bounds, expanding, contextAt>>

StateExpanded ==
    /\ contextAt = "expand" /\ left = {} /\ contextAt' = "queue"
    /\ UNCHANGED <<scenario, bounds, known, line, expanding, left, tried, violations, limits>>

\* A slip: nobody is told that operations were left.
TransitionsEndSilently ==
    /\ contextAt = "expand" /\ left # {} /\ tried >= bounds.maxTransitions /\ contextAt' = "done"
    /\ UNCHANGED <<scenario, bounds, known, line, expanding, left, tried, violations, limits>>

\* An operation there is no transition left for ends the exploration.
TransitionsEnd ==
    /\ contextAt = "expand" /\ left # {} /\ tried >= bounds.maxTransitions
    /\ limits' = limits \cup {"transitions"} /\ contextAt' = "done"
    /\ UNCHANGED <<scenario, bounds, known, line, expanding, left, tried, violations>>

QueueEnds ==
    /\ contextAt = "queue" /\ line = <<>> /\ contextAt' = "done"
    /\ UNCHANGED <<scenario, bounds, known, line, expanding, left, tried, violations, limits>>

ContextNext == TakeState \/ TryOperation \/ StateExpanded \/ TransitionsEnd \/ QueueEnds

ContextSpec == ContextInit /\ [][ContextNext]_contextVars

\* replayMultiContextSchedule: an operation that is not offered ends the replay.
ReplayOperation(s, r, op) ==
    IF r.ok /\ op \in OperationsOf(s, r.state) THEN [r EXCEPT !.state = After(s, r.state, op)]
    ELSE [r EXCEPT !.ok = FALSE]
ReplayedAlong(s, trace) ==
    LET replayed[k \in 0 .. Len(trace)] ==
          IF k = 0 THEN [ok |-> TRUE, state |-> InitialState(s)]
          ELSE ReplayOperation(s, replayed[k - 1], trace[k])
    IN replayed
ReplaySchedule(s, trace) == ReplayedAlong(s, trace)[Len(trace)]

-----------------------------------------------------------------------------
\* The reference: what n operations reach, whatever the order.
Successors(s, x) == {After(s, x, op) : op \in OperationsOf(s, x)}
ReachedIn(s, n) ==
    LET reach[k \in 0 .. n] == IF k = 0 THEN {InitialState(s)}
                               ELSE reach[k - 1] \cup UNION {Successors(s, x) : x \in reach[k - 1]}
    IN reach[n]

\* Every state kept is one its trace reaches, and none is reached sooner; every failure
\* replays, and shows in its last state.
InterleavingsReplay ==
    contextAt = "done" =>
        /\ \A x \in DOMAIN known : /\ ReplaySchedule(scenario, known[x]) = [ok |-> TRUE, state |-> x]
                                   /\ Depth(x) > 0 => x \notin ReachedIn(scenario, Depth(x) - 1)
        /\ \A t \in violations : ReplaySchedule(scenario, t).ok /\ Violating(scenario, ReplaySchedule(scenario, t).state)

\* What the three flags say is so: without the limits of transitions and states every
\* interleaving within the depth was seen, and the depth bound is told exactly when it
\* cut something off; with no flag at all there is nothing further.  Room for more
\* states costs no failure of the states kept.
LimitsAreTrue ==
    contextAt = "done" =>
        /\ limits \cap {"transitions", "states"} = {} =>
             /\ DOMAIN known = ReachedIn(scenario, bounds.maxDepth)
             /\ "depth" \in limits <=>
                  \E x \in DOMAIN known : Depth(x) = bounds.maxDepth /\ OperationsOf(scenario, x) # {}
        /\ limits = {} => UNION {Successors(scenario, x) : x \in DOMAIN known} \subseteq DOMAIN known
        /\ "transitions" \notin limits =>
             \A x \in DOMAIN known : Depth(x) < bounds.maxDepth =>
                 \A op \in OperationsOf(scenario, x) :
                     Violating(scenario, After(scenario, x, op)) => Append(known[x], op) \in violations

InterleavingsExact == InterleavingsReplay /\ LimitsAreTrue
===============================================================================
