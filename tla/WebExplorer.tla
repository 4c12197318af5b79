----------------------------- MODULE WebExplorer ------------------------------
(***************************************************************************)
(* exploreWebCoverageGuided (protocol/web-coverage-guided-exploration.mjs) *)
(* and the environment checkpoints it uses: a driver resets a web          *)
(* application, lists its actions and executes one.  The explorer keeps    *)
(* the states it has seen, goes back to one by replaying its trace, tries  *)
(* an action nobody tried there, and records where it led.  A driver with  *)
(* checkpoints also saves and restores what survives a reset.              *)
(***************************************************************************)
EXTENDS Integers, Sequences, FiniteSets, SequencesExt

CONSTANTS
    Actions,
    Worlds,           \* the applications explored, see WorldAssumption
    MaxStates, MaxTransitions, MaxDepth,
    MaxFaults         \* bounds the driver calls that fail and the late changes

\* An application lives in pairs <<runtime, environment>>.  `boot` is what a
\* reset makes of them, whatever ran before; `offers` the actions it shows, `step` the
\* pairs an action may lead to, `bad` where it violates a property, `late` what it may
\* turn into by itself, `seen` the fingerprint of a runtime; `checkpoints` tells whether
\* the driver has checkpoint and restoreCheckpoint; `steady` says that it does what the
\* protocol asks for.
WellFormed(w) ==
    LET places == DOMAIN w.offers
    IN /\ places = {l[1] : l \in places} \X {l[2] : l \in places}
       /\ \A l \in places :
            /\ w.boot[l] \in places /\ w.offers[l] \subseteq Actions /\ w.late[l] \subseteq places
            /\ \A a \in w.offers[l] : w.step[<<l, a>>] \subseteq places /\ w.step[<<l, a>>] # {}
            /\ \A k \in places : k[2] = l[2] => w.boot[k] = w.boot[l]
       /\ w.start \in places /\ w.steady \in BOOLEAN /\ w.checkpoints \in BOOLEAN

\* A reset leaves the environment alone, and what an action does is a function of where
\* it is executed.  What a stateless driver explores has no environment, and does not
\* change by itself unless that shows.
Steady(w) ==
    LET places == DOMAIN w.offers
    IN /\ \A l \in places :
            /\ w.boot[l][2] = l[2]
            /\ \A a \in w.offers[l] : \A m, n \in w.step[<<l, a>>] : m = n
       /\ w.checkpoints \/ \A k, l \in places :
            /\ k[2] = l[2]
            /\ w.late[l] = {} \/ (w.seen[k[1]] = w.seen[l[1]] => k = l)

ASSUME WorldAssumption ==
    /\ \A w \in Worlds : WellFormed(w) /\ (w.steady => Steady(w))
    /\ MaxStates \in Nat \ {0} /\ MaxTransitions \in Nat \ {0} /\ MaxDepth \in Nat \ {0}
    /\ MaxFaults \in Nat

VARIABLES
    world,        \* the application
    live,         \* where it is
    baseline,     \* initialEnvironment
    nodes,        \* stateByIdentity, in the order of discovery
    executed,     \* executedEdges
    transitions,  \* the transition graph, in the order recorded
    failures,     \* the traces of violations with their checkpointReplay
    dropped,      \* the edges given up with a diagnostic
    pc, job,      \* the iteration's place, edge and progress in the replay
    current,      \* currentTrace, currentFingerprint and currentInventory
    faults

app == <<world, live>>
graph == <<nodes, transitions, failures>>
vars == <<app, baseline, graph, executed, dropped, pc, job, current, faults>>

CheckpointAware == world.checkpoints
Reset(l) == world.boot[l]
Offers(l) == world.offers[l]
Fault == faults < MaxFaults /\ faults' = faults + 1

\* extendedStateIdentity: the fingerprint, with the environment's identity if the
\* driver tells it.
Identity(l) == IF CheckpointAware THEN <<world.seen[l[1]], l[2]>> ELSE <<world.seen[l[1]]>>

\* checkpointTransition, and the transition of a stateless driver.
Evidence(l, a, m) == [from |-> Identity(l), action |-> a, to |-> Identity(m)]

Forgotten == [known |-> FALSE]
Remember(trace, l) ==
    IF CheckpointAware THEN Forgotten
    ELSE [known |-> TRUE, trace |-> trace, id |-> Identity(l), offers |-> Offers(l)]

NewNode(l, trace, evidence) ==
    [id |-> Identity(l), env |-> l[2], trace |-> trace, evidence |-> evidence, offers |-> Offers(l)]
Source == nodes[job.node]
NoJob == [node |-> 0, at |-> 0]

\* The edges to try, above the depth limit.  The explorer ranks them by novelty;
\* here any may be next.
Frontier == {e \in (DOMAIN nodes) \X Actions :
               /\ Len(nodes[e[1]].trace) < MaxDepth
               /\ e[2] \in nodes[e[1]].offers /\ <<nodes[e[1]].id, e[2]>> \notin executed}

ExplorerInit ==
    /\ world \in Worlds /\ live = world.start
    /\ baseline = live[2] /\ nodes = <<>> /\ executed = {} /\ transitions = <<>>
    /\ failures = {} /\ dropped = {} /\ pc = "init" /\ job = NoJob
    /\ current = Forgotten /\ faults = 0

Begin ==
    /\ pc = "init" /\ pc' = "select"
    /\ live' = Reset(live) /\ baseline' = live'[2]
    /\ nodes' = << NewNode(live', <<>>, <<>>) >>
    /\ current' = Remember(<<>>, live')
    /\ UNCHANGED <<world, executed, transitions, failures, dropped, job, faults>>

-----------------------------------------------------------------------------
\* One iteration: the edge is marked executed before anything is tried.
Goto(place) ==
    /\ pc' = place
    /\ UNCHANGED <<baseline, graph, executed, dropped, job>>

Select ==
    /\ pc = "select" /\ Len(transitions) < MaxTransitions /\ Len(nodes) < MaxStates
    /\ \E e \in Frontier :
         /\ executed' = executed \cup {<<nodes[e[1]].id, e[2]>>}
         /\ job' = [node |-> e[1], at |-> 0, action |-> e[2]]
         /\ pc' = IF current.known /\ current.trace = nodes[e[1]].trace /\ current.id = nodes[e[1]].id
                  THEN "reuse" ELSE "prepare"
    /\ UNCHANGED <<app, baseline, graph, dropped, current, faults>>

\* A slip: no diagnostic.
GiveUpSilently ==
    /\ pc' = "select" /\ job' = NoJob
    /\ UNCHANGED <<world, baseline, graph, executed, dropped>>

GiveUp ==
    /\ dropped' = dropped \cup {<<Source.id, job.action>>}
    /\ pc' = "select" /\ job' = NoJob
    /\ UNCHANGED <<world, baseline, graph, executed>>

\* The application is still where the trace ended: no replay, unless the live
\* snapshot differs or cannot be taken.
Reuse ==
    /\ pc = "reuse"
    /\ \/ Goto(IF Identity(live) = Source.id THEN "candidate" ELSE "prepare") /\ UNCHANGED faults
       \/ Goto("prepare") /\ Fault
    /\ UNCHANGED <<app, current>>

\* The initial environment is restored, the runtime reset and what the reset
\* leaves in the environment compared; a stateless driver only resets.
PrepareCheckpoint ==
    LET restored == <<live[1], baseline>> IN
    \/ /\ live' = Reset(restored) /\ live'[2] = baseline
       /\ Goto("replay") /\ UNCHANGED <<world, current, faults>>
    \/ /\ live' = Reset(restored) /\ live'[2] # baseline
       /\ GiveUp /\ UNCHANGED <<current, faults>>
    \/ /\ live' \in {live, restored, Reset(restored)} /\ Fault
       /\ GiveUp /\ UNCHANGED current

Prepare ==
    /\ pc = "prepare"
    /\ \/ CheckpointAware /\ PrepareCheckpoint
       \/ /\ ~CheckpointAware
          /\ live' = Reset(live) /\ Goto("replay") /\ UNCHANGED <<world, current, faults>>

\* The replayed transition is compared with the recorded one, if the driver has
\* checkpoints.
Reproduces(l, a, m) ==
    CheckpointAware => Evidence(l, a, m) = Source.evidence[job.at + 1]

ReplayStep ==
    LET a == Source.trace[job.at + 1] IN
    /\ pc = "replay" /\ job.at < Len(Source.trace)
    /\ \/ a \notin Offers(live) /\ GiveUp /\ UNCHANGED <<live, faults>> /\ current' = Forgotten
       \/ /\ a \in Offers(live)
          /\ \E m \in world.step[<<live, a>>] :
               /\ live' = m
               /\ IF Reproduces(live, a, m)
                  THEN /\ job' = [job EXCEPT !.at = @ + 1]
                       /\ UNCHANGED <<world, baseline, graph, executed, dropped, pc, current>>
                  ELSE GiveUp /\ current' = Forgotten
          /\ UNCHANGED faults
       \/ /\ a \in Offers(live) /\ Fault
          /\ live' \in {live} \cup world.step[<<live, a>>]
          /\ GiveUp /\ current' = Forgotten

\* The end of the replay: with checkpoints the identity reached is compared and
\* the source's own environment restored.
Arrive ==
    /\ pc = "replay" /\ job.at = Len(Source.trace)
    /\ \/ /\ CheckpointAware => Identity(live) = Source.id
          /\ live' = IF CheckpointAware THEN <<live[1], Source.env>> ELSE live
          /\ current' = Remember(Source.trace, live)
          /\ Goto("candidate") /\ UNCHANGED <<world, faults>>
       \/ /\ CheckpointAware /\ Identity(live) # Source.id
          /\ GiveUp /\ UNCHANGED <<live, current, faults>>
       \/ /\ CheckpointAware /\ Fault
          /\ GiveUp /\ UNCHANGED <<live, current>>

\* The inventory the candidate is looked up in.
Inventory == IF current.known THEN current.offers ELSE Offers(live)

Candidate ==
    /\ pc = "candidate"
    /\ IF job.action \in Inventory
       THEN Goto("execute") ELSE GiveUp
    /\ UNCHANGED <<app, current, faults>>

\* A slip: the new state gets the environment of its source.
ExecuteKeepsEnvironment ==
    /\ pc = "execute" /\ job.action \in Offers(live)
    /\ \E m \in world.step[<<live, job.action>>] :
         LET trace == Append(Source.trace, job.action)
             transition == [from |-> Source.id, action |-> job.action, to |-> Identity(m)]
             evidence == Append(Source.evidence, transition)
         IN /\ live' = m
            /\ transitions' = Append(transitions, transition)
            /\ current' = Remember(trace, m)
            /\ nodes' = IF \E n \in ToSet(nodes) : n.id = Identity(m) THEN nodes
                        ELSE Append(nodes, [NewNode(m, trace, evidence) EXCEPT !.env = Source.env])
    /\ pc' = "select" /\ job' = NoJob
    /\ UNCHANGED <<world, baseline, failures, executed, dropped, faults>>

\* The candidate runs; its transition is recorded from the source's identity.  A
\* violation ends the branch.
Execute ==
    /\ pc = "execute" /\ job.action \in Offers(live)
    /\ \E m \in world.step[<<live, job.action>>] :
         LET trace == Append(Source.trace, job.action)
             transition == [from |-> Source.id, action |-> job.action, to |-> Identity(m)]
             evidence == Append(Source.evidence, transition)
             violates == <<live, job.action>> \in world.bad
         IN /\ live' = m
            /\ transitions' = Append(transitions, transition)
            /\ current' = Remember(trace, m)
            /\ IF violates
               THEN failures' = failures \cup {[trace |-> trace, evidence |-> evidence]} /\ UNCHANGED nodes
               ELSE /\ nodes' = IF \E n \in ToSet(nodes) : n.id = Identity(m) THEN nodes
                                ELSE Append(nodes, NewNode(m, trace, evidence))
                    /\ UNCHANGED failures
    /\ pc' = "select" /\ job' = NoJob
    /\ UNCHANGED <<world, baseline, executed, dropped, faults>>

\* execute, or the checkpoint after it, fails; the application may have moved.
ExecuteFails ==
    /\ pc = "execute"
    /\ (job.action \notin Offers(live) /\ UNCHANGED faults) \/ Fault
    /\ live' \in {live} \cup (IF job.action \in Offers(live) THEN world.step[<<live, job.action>>] ELSE {})
    /\ GiveUp /\ current' = Forgotten

-----------------------------------------------------------------------------
\* Calls nothing catches: a stateless reset, and every listing of actions but
\* the one after the source's environment is restored.
Throw ==
    /\ pc \in {"replay", "execute"} \/ (pc = "prepare" /\ ~CheckpointAware)
    /\ Fault /\ pc' = "thrown"
    /\ UNCHANGED <<app, baseline, graph, executed, dropped, job, current>>

\* A timer of the application changes it between two iterations.
Late ==
    /\ pc = "select" /\ Fault /\ live' \in world.late[live]
    /\ UNCHANGED <<world, baseline, graph, executed, dropped, pc, job, current>>

Report ==
    /\ pc = "select"
    /\ Len(transitions) >= MaxTransitions \/ Len(nodes) >= MaxStates \/ Frontier = {}
    /\ pc' = "report"
    /\ UNCHANGED <<app, baseline, graph, executed, dropped, job, current, faults>>

frontierExhausted == Frontier = {}
truncatedByStateLimit == Len(nodes) >= MaxStates /\ ~frontierExhausted
truncatedByTransitionLimit == Len(transitions) >= MaxTransitions /\ ~frontierExhausted

Iterate ==
    \/ Select \/ Reuse \/ Prepare \/ ReplayStep \/ Arrive \/ Candidate
    \/ Execute \/ ExecuteFails \/ Throw

ExplorerNext == Begin \/ Iterate \/ Late \/ Report

ExplorerSpec == ExplorerInit /\ [][ExplorerNext]_vars /\ WF_vars(Begin \/ Iterate \/ Report)

-----------------------------------------------------------------------------
\* Where the application may be after a trace from the reset in the initial
\* environment.
Start == {Reset(world.start), Reset(<<world.start[1], baseline>>)}
Moved(ls, a) == UNION {IF a \in Offers(l) THEN world.step[<<l, a>>] ELSE {} : l \in ls}
Along(trace) ==
    LET along[k \in 0 .. Len(trace)] == IF k = 0 THEN Start ELSE Moved(along[k - 1], trace[k])
    IN along
After(trace) == Along(trace)[Len(trace)]

Reaches(trace, id) == \E l \in After(trace) : Identity(l) = id

ExplorerTypeOK ==
    /\ world \in Worlds /\ live \in DOMAIN world.offers
    /\ pc \in {"init", "select", "reuse", "prepare", "replay", "candidate", "execute", "report", "thrown"}
    /\ \A i \in DOMAIN nodes : Len(nodes[i].trace) <= MaxDepth /\ nodes[i].offers \subseteq Actions
    /\ Len(nodes) <= MaxStates /\ Len(transitions) <= MaxTransitions
    /\ job.node \in 0 .. Len(nodes)
    /\ (job = NoJob) <=> pc \in {"init", "select", "report"}
    /\ faults \in 0 .. MaxFaults

\* The candidate runs where its source was.
ExecutesAtSource == pc = "execute" => Identity(live) = Source.id

\* Every state is reached by its trace.
NodesReached == \A i \in DOMAIN nodes : Reaches(nodes[i].trace, nodes[i].id)

\* Every transition is one the application makes from a state of that identity,
\* reached as the source was.
TransitionsReal ==
    \A i \in DOMAIN transitions :
       \E n \in ToSet(nodes) :
          /\ n.id = transitions[i].from
          /\ \E l \in After(n.trace) :
               /\ Identity(l) = n.id /\ transitions[i].action \in Offers(l)
               /\ \E m \in world.step[<<l, transitions[i].action>>] : Identity(m) = transitions[i].to

\* The graph is the application's: with checkpoints of any application, without
\* them of one that does the same each time and whose own changes show.  Nothing
\* one candidate does leaks into a sibling.
GraphIsTrue ==
    /\ ExplorerTypeOK
    /\ CheckpointAware \/ world.steady => NodesReached /\ TransitionsReal /\ ExecutesAtSource

\* The recorded counterexample is a path of the graph from the first state whose
\* last step violates a property and no earlier one does.
FailuresReplay ==
    \A f \in failures :
       /\ Len(f.trace) = Len(f.evidence) /\ f.evidence[1].from = nodes[1].id
       /\ \A k \in 1 .. Len(f.trace) :
            /\ f.evidence[k].action = f.trace[k]
            /\ k > 1 => f.evidence[k].from = f.evidence[k - 1].to
            /\ f.evidence[k] \in ToSet(transitions)
            /\ k < Len(f.trace) => [trace |-> SubSeq(f.trace, 1, k), evidence |-> SubSeq(f.evidence, 1, k)] \notin failures

\* The report is honest: what it calls an exhausted frontier, with no diagnostic,
\* is closed under the actions of every state above the depth limit; what it does
\* not, it calls truncated.
HonestReport ==
    pc = "report" =>
       /\ frontierExhausted \/ truncatedByStateLimit \/ truncatedByTransitionLimit
       /\ frontierExhausted /\ dropped = {} =>
            \A n \in ToSet(nodes) : Len(n.trace) < MaxDepth =>
               \A a \in n.offers :
                  \E i \in DOMAIN transitions :
                     /\ transitions[i].from = n.id /\ transitions[i].action = a
                     /\ \/ \E m \in ToSet(nodes) : m.id = transitions[i].to
                        \/ \E f \in failures : Last(f.evidence) = transitions[i]

\* A steady driver no call of which fails is never given up on: replays lead back.
SteadyReplays == world.steady /\ faults = 0 => dropped = {}

\* What the exploration holds is the application's: its graph, its counterexamples, and
\* what it gave up.
ExplorationIsTrue == GraphIsTrue /\ FailuresReplay /\ SteadyReplays

\* The exploration ends, also when every replay is given up: no edge is tried twice,
\* whatever became of the first try.
ExplorationEnds == pc # "init" ~> pc \in {"report", "thrown"}
=============================================================================
