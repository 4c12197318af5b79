-------------------------- MODULE WebExplorerProofs ---------------------------
(***************************************************************************)
(* What the coverage-guided exploration promises of any application, any   *)
(* driver and any bounds.  A trace leads from the first reset to a set of  *)
(* places, to one at most in a steady application; the graph grows by one  *)
(* path at a time, whose transition nothing recorded before, because an    *)
(* edge is tried once; and every step of an iteration keeps the            *)
(* application where the source's trace leads.  Induction along a trace is *)
(* the absence of a smallest counterexample (UpTo).                        *)
(***************************************************************************)
EXTENDS WebExplorer, SequenceTheorems, WellFoundedInduction, TLAPS

-----------------------------------------------------------------------------
\* A property of 0 that goes from each number to the next, up to n, holds up to n.
LEMMA UpTo ==
    ASSUME NEW n \in Nat, NEW S, 0 \in S, \A k \in 0 .. n - 1 : k \in S => k + 1 \in S
    PROVE  \A k \in 0 .. n : k \in S
  <1> SUFFICES ASSUME NEW j \in 0 .. n, j \notin S PROVE FALSE
    OBVIOUS
  <1> DEFINE less == OpToRel(<, Nat)
             T == {k \in 0 .. n : k \notin S}
  <1>1. T \subseteq Nat /\ T # {}
    OBVIOUS
  <1>2. PICK k \in T : \A i \in T : ~(<<i, k>> \in less)
    BY <1>1, NatLessThanWellFounded, WFMin
  <1>3. \A i \in T : <<i, k>> \in less <=> i < k
    BY <1>1 DEF OpToRel
  <1> HIDE DEF less
  <1>4. k \in 0 .. n /\ k # 0 /\ k \notin S
    BY <1>2
  <1>5. k - 1 \in 0 .. n - 1 /\ k - 1 \in 0 .. n /\ (k - 1) + 1 = k /\ k - 1 < k
    BY <1>4
  <1>6. k - 1 \notin T
    <2>1. ASSUME k - 1 \in T PROVE FALSE
      <3>1. ~(k - 1 < k)
        BY <1>2, <1>3, <2>1
      <3> QED BY <1>5, <3>1
    <2> QED BY <2>1
  <1>7. k - 1 \in S
    BY <1>5, <1>6
  <1> QED BY <1>4, <1>5, <1>7

\* The sets of places along the first n actions of t.
IsWalk(f, t, n) == f = [k \in 0 .. n |-> IF k = 0 THEN Start ELSE Moved(f[k - 1], t[k])]

\* There are such sets, however many actions there are.
LEMMA WalkExists == ASSUME NEW t, NEW n \in Nat PROVE \E f : IsWalk(f, t, n)
  <1> DEFINE S == {k \in 0 .. n : \E f : IsWalk(f, t, k)}
  <1>1. 0 \in S
    <2> DEFINE f == [k \in 0 .. 0 |-> Start]
    <2>1. f = [k \in 0 .. 0 |-> IF k = 0 THEN Start ELSE Moved(f[k - 1], t[k])]
      OBVIOUS
    <2>2. IsWalk(f, t, 0)
      BY <2>1 DEF IsWalk
    <2> HIDE DEF f
    <2> QED BY <2>2
  <1>2. ASSUME NEW k \in 0 .. n - 1, k \in S PROVE k + 1 \in S
    <2>1. PICK f : IsWalk(f, t, k)
      BY <1>2
    <2> DEFINE e(i) == IF i = 0 THEN Start ELSE Moved(f[i - 1], t[i])
               g == [i \in 0 .. k + 1 |-> e(i)]
    <2>2. \A i \in 0 .. k : f[i] = g[i]
      BY <2>1 DEF IsWalk
    <2>3. \A i \in 0 .. k + 1 : i # 0 => i - 1 \in 0 .. k
      BY <1>2
    <2> DEFINE h == [i \in 0 .. k + 1 |-> IF i = 0 THEN Start ELSE Moved(g[i - 1], t[i])]
    <2>4. \A i \in 0 .. k + 1 : g[i] = h[i]
      BY <2>2, <2>3
    <2>5. g = h
      BY <2>4
    <2>6. IsWalk(g, t, k + 1)
      BY <2>5 DEF IsWalk
    <2> QED BY <1>2, <2>6
  <1> HIDE DEF S
  <1>3. n \in S
    BY <1>1, <1>2, UpTo
  <1> QED BY <1>3 DEF S

\* The places along a trace: those of the start, then those each action leads to.
LEMMA AlongSteps ==
    ASSUME NEW t \in Seq(Actions)
    PROVE  /\ Along(t)[0] = Start
           /\ \A k \in 1 .. Len(t) : Along(t)[k] = Moved(Along(t)[k - 1], t[k])
  <1>1. Len(t) \in Nat
    OBVIOUS
  <1>2. \E f : IsWalk(f, t, Len(t))
    BY <1>1, WalkExists
  <1>3. Along(t) = CHOOSE f : IsWalk(f, t, Len(t))
    BY DEF Along, IsWalk
  <1>4. IsWalk(Along(t), t, Len(t))
    BY <1>2, <1>3
  <1> QED BY <1>1, <1>4 DEF IsWalk

\* A longer trace goes where the shorter one did first.
LEMMA AlongPrefix ==
    ASSUME NEW t \in Seq(Actions), NEW a \in Actions
    PROVE  \A k \in 0 .. Len(t) : Along(Append(t, a))[k] = Along(t)[k]
  <1> DEFINE u == Append(t, a)
             S == {k \in 0 .. Len(t) : Along(u)[k] = Along(t)[k]}
  <1>1. u \in Seq(Actions) /\ Len(u) = Len(t) + 1 /\ Len(t) \in Nat /\ \A k \in 1 .. Len(t) : u[k] = t[k]
    OBVIOUS
  <1> HIDE DEF u
  <1>2. 0 \in S
    BY <1>1, AlongSteps
  <1>3. ASSUME NEW k \in 0 .. Len(t) - 1, k \in S PROVE k + 1 \in S
    <2>1. k + 1 \in 1 .. Len(t) /\ k + 1 \in 1 .. Len(u) /\ (k + 1) - 1 = k
      BY <1>1
    <2>2. /\ Along(t)[k + 1] = Moved(Along(t)[k], t[k + 1])
          /\ Along(u)[k + 1] = Moved(Along(u)[k], u[k + 1])
      BY <1>1, <2>1, AlongSteps
    <2> QED BY <1>1, <1>3, <2>1, <2>2
  <1>4. \A k \in 0 .. Len(t) : k \in S
    <2> HIDE DEF S
    <2> QED BY <1>1, <1>2, <1>3, UpTo
  <1> QED BY <1>4 DEF u

\* Nothing leads to the start, and one action more to where it moves.
LEMMA AfterSteps ==
    ASSUME NEW t \in Seq(Actions), NEW a \in Actions
    PROVE  /\ After(<<>>) = Start
           /\ After(Append(t, a)) = Moved(After(t), a)
  <1>1. After(<<>>) = Start
    BY AlongSteps, EmptySeq DEF After
  <1> DEFINE u == Append(t, a)
  <1>2. u \in Seq(Actions) /\ Len(u) = Len(t) + 1 /\ Len(t) \in Nat /\ u[Len(t) + 1] = a
    OBVIOUS
  <1>3. Along(u)[Len(t)] = Along(t)[Len(t)]
    BY <1>2, AlongPrefix
  <1> HIDE DEF u
  <1>4. Along(u)[Len(t) + 1] = Moved(Along(u)[Len(t)], a)
    <2>1. Len(t) + 1 \in 1 .. Len(u) /\ (Len(t) + 1) - 1 = Len(t)
      BY <1>2
    <2> QED BY <1>2, <2>1, AlongSteps
  <1>5. After(u) = Moved(After(t), a)
    BY <1>2, <1>3, <1>4 DEF After
  <1> QED BY <1>1, <1>5 DEF u

-----------------------------------------------------------------------------
Places == DOMAIN world.offers
Envs == {l[2] : l \in Places}
Ids == {Identity(l) : l \in Places}

\* What the assumption says of the application explored.
LEMMA WorldFacts ==
    ASSUME world \in Worlds
    PROVE  /\ \A l \in Places : /\ Reset(l) \in Places /\ Offers(l) \subseteq Actions /\ world.late[l] \subseteq Places
                                /\ \A a \in Offers(l) : world.step[<<l, a>>] \subseteq Places /\ world.step[<<l, a>>] # {}
           /\ \A k, l \in Places : k[2] = l[2] => Reset(k) = Reset(l)
           /\ \A l \in Places : l = <<l[1], l[2]>> /\ l[2] \in Envs
           /\ \A l \in Places, e \in Envs : <<l[1], e>> \in Places
           /\ world.start \in Places /\ world.steady \in BOOLEAN /\ CheckpointAware \in BOOLEAN
  <1>1. WellFormed(world)
    BY WorldAssumption
  <1>2. Places = {l[1] : l \in Places} \X Envs
    BY <1>1 DEF WellFormed, Places, Envs
  <1>3. \A l \in Places : l = <<l[1], l[2]>> /\ l[2] \in Envs
    BY <1>2
  <1>4. \A l \in Places, e \in Envs : <<l[1], e>> \in Places
    BY <1>2
  <1>5. \A l \in Places : /\ Reset(l) \in Places /\ Offers(l) \subseteq Actions /\ world.late[l] \subseteq Places
                          /\ \A a \in Offers(l) : world.step[<<l, a>>] \subseteq Places /\ world.step[<<l, a>>] # {}
    BY <1>1 DEF WellFormed, Places, Reset, Offers
  <1>6. \A k, l \in Places : k[2] = l[2] => Reset(k) = Reset(l)
    BY <1>1 DEF WellFormed, Places, Reset
  <1>7. world.start \in Places /\ world.steady \in BOOLEAN /\ CheckpointAware \in BOOLEAN
    BY <1>1 DEF WellFormed, Places, CheckpointAware
  <1> QED BY <1>3, <1>4, <1>5, <1>6, <1>7

\* And of one that is steady.
LEMMA SteadyFacts ==
    ASSUME world \in Worlds, world.steady
    PROVE  /\ \A l \in Places : /\ Reset(l)[2] = l[2]
                                /\ \A a \in Offers(l) : \A m, n \in world.step[<<l, a>>] : m = n
           /\ CheckpointAware \/ \A k, l \in Places :
                /\ k[2] = l[2]
                /\ world.late[l] = {} \/ (Identity(k) = Identity(l) => k = l)
  <1>1. Steady(world)
    BY WorldAssumption
  <1>2. \A l \in Places : /\ Reset(l)[2] = l[2]
                          /\ \A a \in Offers(l) : \A m, n \in world.step[<<l, a>>] : m = n
    BY <1>1 DEF Steady, Places, Reset, Offers
  <1>3. ASSUME ~CheckpointAware, NEW k \in Places, NEW l \in Places
        PROVE  k[2] = l[2] /\ (world.late[l] = {} \/ (world.seen[k[1]] = world.seen[l[1]] => k = l))
    BY <1>1, <1>3 DEF Steady, Places, CheckpointAware
  <1>4. ASSUME ~CheckpointAware, NEW k \in Places, NEW l \in Places, Identity(k) = Identity(l)
        PROVE  world.seen[k[1]] = world.seen[l[1]]
    BY <1>4 DEF Identity
  <1> QED BY <1>2, <1>3, <1>4

\* An action moves places to places, and one place of a steady application to one.
LEMMA MovedPlaces ==
    ASSUME world \in Worlds, NEW ls \in SUBSET Places, NEW a
    PROVE  /\ Moved(ls, a) \subseteq Places
           /\ world.steady /\ (\A l, m \in ls : l = m) => \A l, m \in Moved(ls, a) : l = m
  <1>1. \A m : m \in Moved(ls, a) <=> \E l \in ls : a \in Offers(l) /\ m \in world.step[<<l, a>>]
    BY DEF Moved
  <1>2. Moved(ls, a) \subseteq Places
    BY <1>1, WorldFacts
  <1>3. ASSUME world.steady, \A l, m \in ls : l = m, NEW x \in Moved(ls, a), NEW y \in Moved(ls, a)
        PROVE  x = y
    <2>1. PICK l \in ls : a \in Offers(l) /\ x \in world.step[<<l, a>>]
      BY <1>1, <1>3
    <2>2. PICK k \in ls : a \in Offers(k) /\ y \in world.step[<<k, a>>]
      BY <1>1, <1>3
    <2>3. k = l
      BY <1>3
    <2> QED BY <1>3, <2>1, <2>2, <2>3, SteadyFacts
  <1> QED BY <1>2, <1>3

\* The initial environment is what the first reset made of it.
BaselineOK == baseline \in Envs /\ baseline = Reset(world.start)[2]

\* So a trace leads to places, and in a steady application to one place at most.
LEMMA AlongPlaces ==
    ASSUME world \in Worlds, BaselineOK, NEW t \in Seq(Actions)
    PROVE  \A k \in 0 .. Len(t) : /\ Along(t)[k] \subseteq Places
                                  /\ world.steady => \A l, m \in Along(t)[k] : l = m
  <1> DEFINE S == {k \in 0 .. Len(t) : /\ Along(t)[k] \subseteq Places
                                       /\ world.steady => \A l, m \in Along(t)[k] : l = m}
  <1>0. Len(t) \in Nat
    OBVIOUS
  <1>1. 0 \in S
    <2> DEFINE here == <<world.start[1], baseline>>
    <2>1. world.start \in Places /\ here \in Places /\ here[2] = baseline
      BY WorldFacts DEF BaselineOK
    <2>2. Start = {Reset(world.start), Reset(here)}
      BY DEF Start
    <2> HIDE DEF here
    <2>3. Start \subseteq Places
      BY <2>1, <2>2, WorldFacts
    <2>4. ASSUME world.steady PROVE Reset(here) = Reset(world.start)
      <3>1. Reset(world.start)[2] = world.start[2]
        BY <2>1, <2>4, SteadyFacts
      <3> QED BY <2>1, <3>1, WorldFacts DEF BaselineOK
    <2>5. world.steady => \A l, m \in Start : l = m
      BY <2>2, <2>4
    <2> QED BY <1>0, <2>3, <2>5, AlongSteps
  <1>2. ASSUME NEW k \in 0 .. Len(t) - 1, k \in S PROVE k + 1 \in S
    <2>1. k + 1 \in 1 .. Len(t) /\ k + 1 \in 0 .. Len(t) /\ (k + 1) - 1 = k
      BY <1>0
    <2>2. Along(t)[k + 1] = Moved(Along(t)[k], t[k + 1])
      BY <2>1, AlongSteps
    <2>3. Along(t)[k] \in SUBSET Places /\ (world.steady => \A l, m \in Along(t)[k] : l = m)
      BY <1>2
    <2> QED BY <2>1, <2>2, <2>3, MovedPlaces
  <1>3. \A k \in 0 .. Len(t) : k \in S
    <2> HIDE DEF S
    <2> QED BY <1>0, <1>1, <1>2, UpTo
  <1> QED BY <1>3

\* Where a trace leads depends on the application and the initial environment only.
LEMMA AlongKept ==
    ASSUME UNCHANGED <<world, baseline>>
    PROVE  /\ \A t : Along(t)' = Along(t) /\ After(t)' = After(t)
           /\ \A l : Identity(l)' = Identity(l) /\ Offers(l)' = Offers(l)
           /\ Places' = Places /\ Envs' = Envs /\ Ids' = Ids
  BY DEF Along, After, Moved, Start, Reset, Offers, Identity, CheckpointAware, Places, Envs, Ids

-----------------------------------------------------------------------------
Steps == [from : Ids, action : Actions, to : Ids]
Paths == [trace : Seq(Actions), evidence : Seq(Steps)]
Nodes == [id : Ids, env : Envs, trace : Seq(Actions), evidence : Seq(Steps), offers : SUBSET Actions]

GraphShape ==
    /\ world \in Worlds /\ BaselineOK
    /\ nodes \in Seq(Nodes) /\ nodes # <<>> /\ transitions \in Seq(Steps) /\ failures \subseteq Paths
    /\ Len(nodes) <= MaxStates /\ Len(transitions) <= MaxTransitions
    /\ \A i \in DOMAIN nodes : Len(nodes[i].trace) <= MaxDepth

\* A path through the transitions recorded, from the first state.
Chained(path) ==
    /\ Len(path.evidence) = Len(path.trace)
    /\ \A k \in 1 .. Len(path.trace) :
         /\ path.evidence[k] \in ToSet(transitions) /\ path.evidence[k].action = path.trace[k]
         /\ path.evidence[k].from = IF k = 1 THEN nodes[1].id ELSE path.evidence[k - 1].to
Prefix(path, k) == [trace |-> SubSeq(path.trace, 1, k), evidence |-> SubSeq(path.evidence, 1, k)]

\* Every state has one, on which no property was violated, and so has every violation up
\* to its last step.
NodesChained ==
    \A i \in DOMAIN nodes :
       /\ Chained(nodes[i])
       /\ nodes[i].id = IF nodes[i].trace = <<>> THEN nodes[1].id ELSE nodes[i].evidence[Len(nodes[i].trace)].to
       /\ \A k \in 1 .. Len(nodes[i].trace) : Prefix(nodes[i], k) \notin failures
FailuresChained ==
    \A f \in failures :
       /\ Chained(f) /\ f.trace # <<>>
       /\ \A k \in 1 .. Len(f.trace) - 1 : Prefix(f, k) \notin failures

\* With checkpoints the environment is part of the identity.
EnvironmentsKept == CheckpointAware => \A i \in DOMAIN nodes : nodes[i].id[2] = nodes[i].env

\* A driver whose states can be gone back to.
Faithful == CheckpointAware \/ world.steady
Reached == Faithful => NodesReached /\ TransitionsReal

\* Going along the trace of a state again shows what was seen the first time.
Retraceable(node) ==
    /\ \A k \in 1 .. Len(node.trace) : \A l \in Along(node.trace)[k - 1] :
         /\ node.trace[k] \in Offers(l)
         /\ CheckpointAware =>
              \A m \in world.step[<<l, node.trace[k]>>] : node.evidence[k] = Evidence(l, node.trace[k], m)
    /\ \A l \in After(node.trace) : Identity(l) = node.id /\ Offers(l) = node.offers
SteadyNodes == world.steady => \A i \in DOMAIN nodes : Retraceable(nodes[i])

GraphInv ==
    GraphShape /\ NodesChained /\ FailuresChained /\ EnvironmentsKept /\ Reached /\ SteadyNodes

\* The steps of an iteration; a call that throws ends the exploration in one.
Trying == {"reuse", "prepare", "replay", "candidate", "execute", "thrown"}
Edge == <<Source.id, job.action>>

JobOK ==
    /\ pc \notin Trying => job = NoJob
    /\ pc \in Trying =>
         /\ job = [node |-> job.node, at |-> job.at, action |-> job.action]
         /\ job.node \in DOMAIN nodes /\ job.at \in 0 .. Len(Source.trace) /\ job.action \in Source.offers
         /\ Len(nodes) < MaxStates /\ Len(transitions) < MaxTransitions /\ Len(Source.trace) < MaxDepth
         /\ pc \in {"reuse", "prepare"} => job.at = 0

\* An edge is tried once.
TriedOnce ==
    /\ pc \in Trying => Edge \in executed
    /\ \A t \in ToSet(transitions) :
         <<t.from, t.action>> \in executed /\ (pc \in Trying => <<t.from, t.action>> # Edge)

\* And then given up, or recorded with what it led to.
Shown(t) == (\E n \in ToSet(nodes) : n.id = t.to) \/ (\E f \in failures : Last(f.evidence) = t)
Accounted ==
    \A e \in executed :
       \/ e \in dropped
       \/ pc \in Trying /\ e = Edge
       \/ \E t \in ToSet(transitions) : e = <<t.from, t.action>> /\ Shown(t)

\* Where the application is while an edge is tried.
AtSource ==
    /\ pc = "replay" /\ Faithful => live \in Along(Source.trace)[job.at]
    /\ pc \in {"candidate", "execute"} /\ Faithful => live \in After(Source.trace) /\ Identity(live) = Source.id
    /\ pc = "reuse" => current.known /\ current.trace = Source.trace /\ current.id = Source.id

\* What a stateless driver remembers: where it left the application, which may have
\* changed since only if that shows.
CurrentOK ==
    /\ current.known \in BOOLEAN /\ (CheckpointAware => ~current.known)
    /\ current.known => current.trace \in Seq(Actions) /\ Len(current.trace) <= MaxDepth
    /\ current.known /\ world.steady =>
         /\ pc \in {"select", "reuse"} =>
              live \in After(current.trace) \/ \E l \in After(current.trace) : world.late[l] # {}
         /\ \A l \in After(current.trace) : current.offers = Offers(l)
    /\ current.known /\ pc \in {"candidate", "execute"} => current.trace = Source.trace

-----------------------------------------------------------------------------
\* What is known of the graph holds as long as the graph is the same.
LEMMA GraphKept ==
    ASSUME GraphInv, UNCHANGED <<world, baseline, nodes, transitions, failures>>
    PROVE  GraphInv'
  <1>0. /\ \A t : Along(t)' = Along(t) /\ After(t)' = After(t)
        /\ \A l : Identity(l)' = Identity(l) /\ Offers(l)' = Offers(l)
        /\ Places' = Places /\ Envs' = Envs /\ Ids' = Ids
    BY AlongKept
  <1>1. GraphShape'
    <2>1. Steps' = Steps /\ Paths' = Paths /\ Nodes' = Nodes
      BY <1>0 DEF Steps, Paths, Nodes
    <2>2. BaselineOK'
      BY <1>0 DEF GraphInv, GraphShape, BaselineOK, Reset
    <2> QED BY <2>1, <2>2 DEF GraphInv, GraphShape
  <1>2. NodesChained' /\ FailuresChained' /\ EnvironmentsKept'
    <2>1. NodesChained'
      BY DEF GraphInv, NodesChained, Chained, Prefix
    <2>2. FailuresChained'
      BY DEF GraphInv, FailuresChained, Chained, Prefix
    <2>3. EnvironmentsKept'
      BY DEF GraphInv, EnvironmentsKept, CheckpointAware
    <2> QED BY <2>1, <2>2, <2>3
  <1>3. Reached'
    BY <1>0 DEF GraphInv, Reached, Faithful, CheckpointAware, NodesReached, TransitionsReal, Reaches
  <1>4. SteadyNodes'
    BY <1>0 DEF GraphInv, SteadyNodes, Retraceable, CheckpointAware, Evidence
  <1> QED BY <1>1, <1>2, <1>3, <1>4 DEF GraphInv

\* The source of an iteration is one of the states.
LEMMA SourceOK ==
    ASSUME GraphInv, JobOK, pc \in Trying
    PROVE  /\ Source \in Nodes /\ Source \in ToSet(nodes) /\ Chained(Source) /\ job.action \in Actions
           /\ Source.id = IF Source.trace = <<>> THEN nodes[1].id ELSE Source.evidence[Len(Source.trace)].to
           /\ \A k \in 1 .. Len(Source.trace) : Prefix(Source, k) \notin failures
           /\ world.steady => Retraceable(Source)
           /\ CheckpointAware => Source.id[2] = Source.env
           /\ Source.trace \in Seq(Actions) /\ Source.evidence \in Seq(Steps) /\ Len(Source.trace) \in Nat
           /\ Source.env \in Envs /\ Source.id \in Ids
  <1>1. job.node \in DOMAIN nodes /\ job.action \in Source.offers
    BY DEF JobOK
  <1>2. Source \in Nodes
    BY <1>1 DEF GraphInv, GraphShape, Source
  <1> QED BY <1>1, <1>2 DEF GraphInv, NodesChained, SteadyNodes, EnvironmentsKept, Source, Nodes, ToSet

\* A path stays one when more is recorded.
LEMMA ChainedGrows ==
    ASSUME NEW path, Chained(path), ToSet(transitions) \subseteq ToSet(transitions'), nodes'[1] = nodes[1]
    PROVE  Chained(path)'
  BY DEF Chained

\* A sequence that is extended begins as it did, and is its own longest beginning.
LEMMA Beginnings ==
    ASSUME NEW S, NEW s \in Seq(S)
    PROVE  /\ \A x \in S : \A k \in 1 .. Len(s) : SubSeq(Append(s, x), 1, k) = SubSeq(s, 1, k)
           /\ SubSeq(s, 1, Len(s)) = s
  <1>1. ASSUME NEW x \in S, NEW k \in 1 .. Len(s)
        PROVE  SubSeq(Append(s, x), 1, k) = SubSeq(s, 1, k)
    <2>1. Len(s) \in Nat /\ Append(s, x) \in Seq(S) /\ \A i \in 1 .. k : Append(s, x)[i] = s[i] /\ s[i] \in S
      OBVIOUS
    <2>2. /\ SubSeq(s, 1, k) \in Seq(S) /\ Len(SubSeq(s, 1, k)) = k
          /\ \A i \in 1 .. k : SubSeq(s, 1, k)[i] = s[i]
      BY <2>1, SubSeqProperties
    <2>3. /\ SubSeq(Append(s, x), 1, k) \in Seq(S) /\ Len(SubSeq(Append(s, x), 1, k)) = k
          /\ \A i \in 1 .. k : SubSeq(Append(s, x), 1, k)[i] = Append(s, x)[i]
      BY <2>1, SubSeqProperties
    <2> QED BY <2>1, <2>2, <2>3, SeqEqual
  <1>2. SubSeq(s, 1, Len(s)) = s
    <2>1. Len(s) \in Nat /\ \A i \in 1 .. Len(s) : s[i] \in S
      OBVIOUS
    <2>2. /\ SubSeq(s, 1, Len(s)) \in Seq(S) /\ Len(SubSeq(s, 1, Len(s))) = Len(s)
          /\ \A i \in 1 .. Len(s) : SubSeq(s, 1, Len(s))[i] = s[i]
      BY <2>1, SubSeqProperties
    <2> QED BY <2>1, <2>2, SeqEqual
  <1> QED BY <1>1, <1>2

\* No beginning of a path through the transitions recorded ends in another transition.
LEMMA PrefixIsOld ==
    ASSUME NEW path, path.trace \in Seq(Actions), path.evidence \in Seq(Steps), Chained(path),
           NEW k \in 1 .. Len(path.trace), NEW t, t \notin ToSet(transitions),
           NEW e \in Seq(Steps), t \in Steps, NEW other, other.evidence = Append(e, t)
    PROVE  Prefix(path, k) # other
  <1> SUFFICES ASSUME Prefix(path, k) = other PROVE FALSE
    OBVIOUS
  <1>1. /\ Len(path.trace) \in Nat /\ Len(path.evidence) = Len(path.trace)
        /\ path.evidence[k] \in ToSet(transitions)
    BY DEF Chained
  <1>2. SubSeq(path.evidence, 1, k) = Append(e, t)
    BY DEF Prefix
  <1>3. \A i \in 1 .. k : path.evidence[i] \in Steps
    BY <1>1
  <1>4. Len(SubSeq(path.evidence, 1, k)) = k /\ SubSeq(path.evidence, 1, k)[k] = path.evidence[k]
    BY <1>1, <1>3, SubSeqProperties
  <1>5. Len(e) \in Nat /\ Len(Append(e, t)) = Len(e) + 1 /\ Append(e, t)[Len(e) + 1] = t
    OBVIOUS
  <1> QED BY <1>1, <1>2, <1>4, <1>5

-----------------------------------------------------------------------------
\* What the candidate leads to: one transition more, and a violation, a state that is
\* known or a new one.
Trace == Append(Source.trace, job.action)
Step(m) == [from |-> Source.id, action |-> job.action, to |-> Identity(m)]
Path(m) == [trace |-> Trace, evidence |-> Append(Source.evidence, Step(m))]
Found(m) == NewNode(m, Trace, Append(Source.evidence, Step(m)))
Outcome(m) ==
    /\ job.action \in Offers(live) /\ m \in world.step[<<live, job.action>>] /\ live' = m
    /\ transitions' = Append(transitions, Step(m)) /\ current' = Remember(Trace, m)
    /\ \/ nodes' = nodes /\ failures' = failures \cup {Path(m)}
       \/ nodes' = nodes /\ failures' = failures /\ \E n \in ToSet(nodes) : n.id = Identity(m)
       \/ nodes' = Append(nodes, Found(m)) /\ failures' = failures
    /\ pc = "execute" /\ pc' = "select" /\ job' = NoJob
    /\ UNCHANGED <<world, baseline, executed, dropped, faults>>

\* That is all the action does.
LEMMA ExecuteOutcome == ASSUME Execute PROVE \E m : Outcome(m)
  <1>1. PICK m \in world.step[<<live, job.action>>] :
          /\ live' = m /\ transitions' = Append(transitions, Step(m)) /\ current' = Remember(Trace, m)
          /\ IF <<live, job.action>> \in world.bad
             THEN failures' = failures \cup {Path(m)} /\ UNCHANGED nodes
             ELSE /\ nodes' = IF \E n \in ToSet(nodes) : n.id = Identity(m) THEN nodes
                              ELSE Append(nodes, Found(m))
                  /\ UNCHANGED failures
    BY DEF Execute, Step, Trace, Path, Found
  <1>2. /\ job.action \in Offers(live) /\ pc = "execute" /\ pc' = "select" /\ job' = NoJob
        /\ UNCHANGED <<world, baseline, executed, dropped, faults>>
    BY DEF Execute
  <1>3. \/ nodes' = nodes /\ failures' = failures \cup {Path(m)}
        \/ nodes' = nodes /\ failures' = failures /\ \E n \in ToSet(nodes) : n.id = Identity(m)
        \/ nodes' = Append(nodes, Found(m)) /\ failures' = failures
    BY <1>1
  <1> QED BY <1>1, <1>2, <1>3 DEF Outcome

\* The transition is new, the path to it one longer than the source's, and what was
\* recorded stays.
LEMMA OutcomeFacts ==
    ASSUME GraphInv, JobOK, TriedOnce, live \in Places, NEW m, Outcome(m)
    PROVE  /\ m \in Places /\ Step(m) \in Steps /\ Step(m) \notin ToSet(transitions)
           /\ Trace \in Seq(Actions) /\ Len(Trace) = Len(Source.trace) + 1 /\ Len(Source.trace) \in Nat
           /\ Trace[Len(Trace)] = job.action /\ \A k \in 1 .. Len(Source.trace) : Trace[k] = Source.trace[k]
           /\ Path(m) \in Paths /\ Found(m) \in Nodes
           /\ ToSet(transitions') = ToSet(transitions) \cup {Step(m)} /\ transitions' \in Seq(Steps)
           /\ Len(transitions') = Len(transitions) + 1
           /\ nodes'[1] = nodes[1] /\ ToSet(nodes) \subseteq ToSet(nodes') /\ failures \subseteq failures'
           /\ \A i \in DOMAIN nodes' : nodes'[i] = Found(m) \/ (i \in DOMAIN nodes /\ nodes'[i] = nodes[i])
  <1>1. pc \in Trying
    BY DEF Outcome, Trying
  <1>2. /\ Source \in Nodes /\ Source.trace \in Seq(Actions) /\ Source.evidence \in Seq(Steps)
        /\ Source.id \in Ids /\ job.action \in Actions /\ Len(Source.trace) \in Nat
    BY <1>1, SourceOK
  <1>3. m \in Places
    BY WorldFacts DEF Outcome, GraphInv, GraphShape
  <1>4. Step(m) \in Steps
    BY <1>2, <1>3 DEF Step, Steps, Ids
  <1>5. Step(m) \notin ToSet(transitions)
    <2>1. <<Step(m).from, Step(m).action>> = Edge
      BY DEF Step, Edge
    <2> QED BY <1>1, <2>1 DEF TriedOnce
  <1>6. /\ Trace \in Seq(Actions) /\ Len(Trace) = Len(Source.trace) + 1
        /\ Trace[Len(Trace)] = job.action /\ \A k \in 1 .. Len(Source.trace) : Trace[k] = Source.trace[k]
    BY <1>2 DEF Trace
  <1>7. Append(Source.evidence, Step(m)) \in Seq(Steps)
    BY <1>2, <1>4
  <1>8. Path(m) \in Paths /\ Found(m) \in Nodes
    <2>1. Offers(m) \subseteq Actions /\ m[2] \in Envs /\ Identity(m) \in Ids
      BY <1>3, WorldFacts DEF GraphInv, GraphShape, Ids
    <2> QED BY <1>6, <1>7, <2>1 DEF Path, Found, NewNode, Paths, Nodes
  <1>9. /\ transitions \in Seq(Steps) /\ transitions' = Append(transitions, Step(m))
        /\ nodes \in Seq(Nodes) /\ nodes # <<>>
    BY DEF Outcome, GraphInv, GraphShape
  <1>10. /\ ToSet(transitions') = ToSet(transitions) \cup {Step(m)} /\ transitions' \in Seq(Steps)
         /\ Len(transitions') = Len(transitions) + 1
    BY <1>4, <1>9 DEF ToSet
  <1>11. nodes' = nodes \/ nodes' = Append(nodes, Found(m))
    BY DEF Outcome
  <1>12. nodes'[1] = nodes[1] /\ ToSet(nodes) \subseteq ToSet(nodes')
    <2>1. Len(nodes) \in Nat /\ 1 \in 1 .. Len(nodes)
      BY <1>9, EmptySeq
    <2> QED BY <1>8, <1>9, <1>11, <2>1 DEF ToSet
  <1>13. failures \subseteq failures'
    BY DEF Outcome
  <1>14. \A i \in DOMAIN nodes' : nodes'[i] = Found(m) \/ (i \in DOMAIN nodes /\ nodes'[i] = nodes[i])
    <2>1. CASE nodes' = nodes
      BY <2>1
    <2>2. CASE nodes' = Append(nodes, Found(m))
      <3> DEFINE n == Found(m)
      <3>1. n \in Nodes /\ nodes' = Append(nodes, n)
        BY <1>8, <2>2
      <3> HIDE DEF n
      <3>2. \A i \in DOMAIN nodes' : nodes'[i] = n \/ (i \in DOMAIN nodes /\ nodes'[i] = nodes[i])
        BY <1>9, <3>1
      <3> QED BY <3>2 DEF n
    <2> QED BY <1>11, <2>1, <2>2
  <1> QED BY <1>2, <1>3, <1>4, <1>5, <1>6, <1>8, <1>10, <1>12, <1>13, <1>14

\* The new path is a path.
LEMMA OutcomeChained ==
    ASSUME GraphInv, JobOK, TriedOnce, live \in Places, NEW m, Outcome(m),
           NEW path, path.trace = Path(m).trace, path.evidence = Path(m).evidence
    PROVE  Chained(path)' /\ path.trace # <<>>
  <1> DEFINE n == Len(Source.trace)
             trace == Trace
             evidence == Append(Source.evidence, Step(m))
  <1>1. pc \in Trying
    BY DEF Outcome, Trying
  <1>2. /\ Chained(Source) /\ Source.evidence \in Seq(Steps) /\ n \in Nat
        /\ Source.id = IF Source.trace = <<>> THEN nodes[1].id ELSE Source.evidence[n].to
    BY <1>1, SourceOK
  <1>3. /\ Step(m) \in Steps /\ nodes'[1] = nodes[1] /\ ToSet(transitions') = ToSet(transitions) \cup {Step(m)}
        /\ trace \in Seq(Actions) /\ Len(trace) = n + 1 /\ trace[n + 1] = job.action
        /\ \A k \in 1 .. n : trace[k] = Source.trace[k]
    BY OutcomeFacts
  <1>4. /\ Len(Source.evidence) = n
        /\ \A k \in 1 .. n : /\ Source.evidence[k] \in ToSet(transitions) /\ Source.evidence[k].action = Source.trace[k]
                             /\ Source.evidence[k].from = IF k = 1 THEN nodes[1].id ELSE Source.evidence[k - 1].to
    BY <1>2 DEF Chained
  <1>5. /\ Len(evidence) = n + 1 /\ evidence[n + 1] = Step(m)
        /\ \A k \in 1 .. n : evidence[k] = Source.evidence[k]
    BY <1>2, <1>3, <1>4
  <1>6. Source.trace = <<>> <=> n = 0
    BY <1>1, SourceOK, EmptySeq
  <1> HIDE DEF evidence, n, trace
  <1>7. ASSUME NEW k \in 1 .. n + 1
        PROVE  /\ evidence[k] \in ToSet(transitions') /\ evidence[k].action = trace[k]
               /\ evidence[k].from = IF k = 1 THEN nodes'[1].id ELSE evidence[k - 1].to
    <2>1. CASE k = n + 1
      <3>1. /\ evidence[k] = Step(m) /\ Step(m).action = job.action /\ Step(m).from = Source.id
        BY <1>5, <2>1 DEF Step
      <3>2. n # 0 => evidence[k - 1] = Source.evidence[n] /\ k # 1 /\ k - 1 = n
        BY <1>2, <1>5, <2>1
      <3>3. n = 0 => k = 1
        BY <2>1
      <3> QED BY <1>2, <1>3, <1>6, <2>1, <3>1, <3>2, <3>3 DEF n
    <2>2. CASE k # n + 1
      <3>1. k \in 1 .. n /\ (k # 1 => k - 1 \in 1 .. n)
        BY <1>2, <2>2
      <3>2. evidence[k] = Source.evidence[k] /\ (k # 1 => evidence[k - 1] = Source.evidence[k - 1])
        BY <1>5, <3>1
      <3> QED BY <1>3, <1>4, <3>1, <3>2
    <2> QED BY <2>1, <2>2
  <1>8. path.trace = trace /\ path.evidence = evidence
    BY DEF Path, trace, evidence
  <1>9. path.trace # <<>>
    BY <1>2, <1>3, <1>8
  <1> QED BY <1>3, <1>5, <1>7, <1>8, <1>9 DEF Chained

\* The new path begins as the source's does.
LEMMA OutcomePrefixes ==
    ASSUME GraphInv, JobOK, TriedOnce, live \in Places, NEW m, Outcome(m),
           NEW p, p.trace = Trace, p.evidence = Append(Source.evidence, Step(m))
    PROVE  /\ \A k \in 1 .. Len(Source.trace) : Prefix(p, k) = Prefix(Source, k)
           /\ Prefix(p, Len(p.trace)) = [trace |-> p.trace, evidence |-> p.evidence]
  <1>1. pc \in Trying
    BY DEF Outcome, Trying
  <1>2. /\ Source.trace \in Seq(Actions) /\ Source.evidence \in Seq(Steps) /\ job.action \in Actions
        /\ Len(Source.evidence) = Len(Source.trace)
    BY <1>1, SourceOK DEF Chained
  <1>3. Step(m) \in Steps
    BY OutcomeFacts
  <1>4. p.trace = Append(Source.trace, job.action)
    BY DEF Trace
  <1>5. \A k \in 1 .. Len(Source.trace) : SubSeq(p.trace, 1, k) = SubSeq(Source.trace, 1, k)
    BY <1>2, <1>4, Beginnings
  <1>6. \A k \in 1 .. Len(Source.trace) : SubSeq(p.evidence, 1, k) = SubSeq(Source.evidence, 1, k)
    BY <1>2, <1>3, Beginnings
  <1>7. /\ p.trace \in Seq(Actions) /\ p.evidence \in Seq(Steps)
        /\ Len(p.evidence) = Len(p.trace)
    BY <1>2, <1>3, <1>4
  <1>8. SubSeq(p.trace, 1, Len(p.trace)) = p.trace /\ SubSeq(p.evidence, 1, Len(p.evidence)) = p.evidence
    BY <1>7, Beginnings
  <1>9. Prefix(p, Len(p.trace)) = [trace |-> p.trace, evidence |-> p.evidence]
    BY <1>7, <1>8 DEF Prefix
  <1>10. \A k \in 1 .. Len(Source.trace) : Prefix(p, k) = Prefix(Source, k)
    BY <1>5, <1>6 DEF Prefix
  <1> QED BY <1>9, <1>10

\* The violations still have their paths, and so has the new one.
LEMMA OutcomeFailures ==
    ASSUME GraphInv, JobOK, TriedOnce, live \in Places, NEW m, Outcome(m)
    PROVE  FailuresChained'
  <1>1. pc \in Trying
    BY DEF Outcome, Trying
  <1>2. /\ Chained(Source) /\ Source.trace \in Seq(Actions) /\ Source.evidence \in Seq(Steps)
        /\ Len(Source.trace) \in Nat /\ job.action \in Actions
        /\ \A k \in 1 .. Len(Source.trace) : Prefix(Source, k) \notin failures
    BY <1>1, SourceOK
  <1>3. /\ Step(m) \in Steps /\ Step(m) \notin ToSet(transitions)
        /\ nodes'[1] = nodes[1] /\ ToSet(transitions) \subseteq ToSet(transitions')
        /\ Path(m).trace \in Seq(Actions) /\ Len(Path(m).trace) = Len(Source.trace) + 1
    BY OutcomeFacts DEF Path
  <1>4. failures \subseteq Paths /\ FailuresChained
    BY DEF GraphInv, GraphShape
  <1>5. failures' = failures \/ failures' = failures \cup {Path(m)}
    BY DEF Outcome
  <1>6. \A p \in Paths : Chained(p) => \A k \in 1 .. Len(p.trace) : Prefix(p, k) # Path(m)
    <2> TAKE p \in Paths
    <2>1. p.trace \in Seq(Actions) /\ p.evidence \in Seq(Steps) /\ Path(m).evidence = Append(Source.evidence, Step(m))
      BY DEF Paths, Path
    <2> QED BY <1>2, <1>3, <2>1, PrefixIsOld
  <1>7. ASSUME NEW f \in failures
        PROVE  /\ Chained(f)' /\ f.trace # <<>>
               /\ \A k \in 1 .. Len(f.trace) - 1 : Prefix(f, k) \notin failures'
    <2>1. f \in Paths /\ Chained(f) /\ f.trace # <<>>
      BY <1>4 DEF FailuresChained
    <2>2. Chained(f)'
      BY <1>3, <2>1, ChainedGrows
    <2>3. ASSUME NEW k \in 1 .. Len(f.trace) - 1 PROVE Prefix(f, k) \notin failures'
      <3>1. Len(f.trace) \in Nat
        BY <2>1 DEF Paths
      <3>2. k \in 1 .. Len(f.trace)
        BY <3>1
      <3>3. Prefix(f, k) # Path(m)
        BY <1>6, <2>1, <3>2
      <3>4. Prefix(f, k) \notin failures
        BY <1>4 DEF FailuresChained
      <3> QED BY <1>5, <3>3, <3>4
    <2> QED BY <2>1, <2>2, <2>3
  <1>8. ASSUME NEW p, p = Path(m)
        PROVE  /\ Chained(p)' /\ p.trace # <<>>
               /\ \A k \in 1 .. Len(p.trace) - 1 : Prefix(p, k) \notin failures'
    <2>1. Chained(p)' /\ p.trace # <<>>
      BY <1>8, OutcomeChained
    <2>2. ASSUME NEW k \in 1 .. Len(p.trace) - 1 PROVE Prefix(p, k) \notin failures'
      <3>1. k \in 1 .. Len(Source.trace)
        BY <1>2, <1>3, <1>8
      <3>2. p.trace = Append(Source.trace, job.action) /\ p.evidence = Append(Source.evidence, Step(m))
        BY <1>8 DEF Path, Trace
      <3>3. Prefix(p, k) = Prefix(Source, k)
        BY <3>1, <1>8, OutcomePrefixes DEF Path
      <3>4. Prefix(Source, k) # Path(m)
        <4>1. Path(m).evidence = Append(Source.evidence, Step(m))
          BY DEF Path
        <4> QED BY <1>2, <1>3, <3>1, <4>1, PrefixIsOld
      <3> QED BY <1>2, <1>5, <3>1, <3>3, <3>4
    <2> QED BY <2>1, <2>2
  <1> QED
    <2>1. ASSUME NEW f \in failures'
          PROVE  /\ Chained(f)' /\ f.trace # <<>>
                 /\ \A k \in 1 .. Len(f.trace) - 1 : Prefix(f, k) \notin failures'
      <3>1. CASE f \in failures
        BY <1>7, <3>1
      <3>2. CASE f = Path(m)
        BY <1>8, <3>2
      <3> QED BY <1>5, <3>1, <3>2
    <2>2. \A f, k : Prefix(f, k)' = Prefix(f, k)
      BY DEF Prefix
    <2> QED BY <2>1, <2>2 DEF FailuresChained

\* The states still have their paths, and so has a new one.
LEMMA OutcomeNodes ==
    ASSUME GraphInv, JobOK, TriedOnce, live \in Places, NEW m, Outcome(m)
    PROVE  NodesChained'
  <1>1. pc \in Trying
    BY DEF Outcome, Trying
  <1>2. /\ Chained(Source) /\ Source.trace \in Seq(Actions) /\ Source.evidence \in Seq(Steps)
        /\ Len(Source.trace) \in Nat /\ job.action \in Actions /\ Len(Source.evidence) = Len(Source.trace)
        /\ \A k \in 1 .. Len(Source.trace) : Prefix(Source, k) \notin failures
    BY <1>1, SourceOK DEF Chained
  <1>3. /\ Step(m) \in Steps /\ Step(m) \notin ToSet(transitions)
        /\ nodes'[1] = nodes[1] /\ ToSet(transitions) \subseteq ToSet(transitions')
        /\ Trace \in Seq(Actions) /\ Len(Trace) = Len(Source.trace) + 1 /\ Found(m) \in Nodes
    BY OutcomeFacts
  <1>4. failures \subseteq Paths /\ FailuresChained /\ nodes \in Seq(Nodes) /\ NodesChained
    BY DEF GraphInv, GraphShape
  <1>5. failures' = failures \/ failures' = failures \cup {Path(m)}
    BY DEF Outcome
  <1>6. Path(m).evidence = Append(Source.evidence, Step(m))
    BY DEF Path
  <1>7. ASSUME NEW i \in DOMAIN nodes, NEW n, n = nodes[i]
        PROVE  /\ Chained(n)'
               /\ n.id = IF n.trace = <<>> THEN nodes'[1].id ELSE n.evidence[Len(n.trace)].to
               /\ \A k \in 1 .. Len(n.trace) : Prefix(n, k) \notin failures'
    <2>1. /\ n \in Nodes /\ Chained(n)
          /\ n.id = IF n.trace = <<>> THEN nodes[1].id ELSE n.evidence[Len(n.trace)].to
          /\ \A k \in 1 .. Len(n.trace) : Prefix(n, k) \notin failures
      BY <1>4, <1>7 DEF NodesChained
    <2>2. n.trace \in Seq(Actions) /\ n.evidence \in Seq(Steps)
      BY <2>1 DEF Nodes
    <2>3. Chained(n)'
      BY <1>3, <2>1, ChainedGrows
    <2>4. ASSUME NEW k \in 1 .. Len(n.trace) PROVE Prefix(n, k) \notin failures'
      <3>1. Prefix(n, k) # Path(m)
        BY <1>2, <1>3, <1>6, <2>1, <2>2, PrefixIsOld
      <3> QED BY <1>5, <2>1, <3>1
    <2> QED BY <1>3, <2>1, <2>3, <2>4
  <1>8. ASSUME nodes' = Append(nodes, Found(m)), failures' = failures, NEW n, n = Found(m)
        PROVE  /\ Chained(n)'
               /\ n.id = IF n.trace = <<>> THEN nodes'[1].id ELSE n.evidence[Len(n.trace)].to
               /\ \A k \in 1 .. Len(n.trace) : Prefix(n, k) \notin failures'
    <2>1. /\ n.trace = Trace /\ n.evidence = Append(Source.evidence, Step(m)) /\ n.id = Identity(m)
          /\ n.trace = Append(Source.trace, job.action)
          /\ Path(m).trace = n.trace /\ Path(m).evidence = n.evidence
      BY <1>8 DEF Found, NewNode, Path, Trace
    <2>2. Chained(n)' /\ n.trace # <<>>
      BY <2>1, OutcomeChained
    <2>3. n.evidence[Len(n.trace)] = Step(m) /\ Step(m).to = n.id
      BY <1>2, <1>3, <2>1 DEF Step
    <2>4. ASSUME NEW k \in 1 .. Len(n.trace) PROVE Prefix(n, k) \notin failures
      <3>1. CASE k = Len(n.trace)
        <4>1. Prefix(n, k) = [trace |-> n.trace, evidence |-> n.evidence]
          BY <2>1, <3>1, OutcomePrefixes
        <4>2. SUFFICES ASSUME Prefix(n, k) \in failures PROVE FALSE
          OBVIOUS
        <4> DEFINE f == Prefix(n, k)
        <4>3. f \in failures /\ f.evidence = Append(Source.evidence, Step(m)) /\ f.trace = n.trace
          BY <2>1, <4>1, <4>2
        <4> HIDE DEF f
        <4>4. Chained(f)
          BY <1>4, <4>3 DEF FailuresChained
        <4>5. f.evidence[Len(f.trace)] \in ToSet(transitions)
          <5>1. Len(f.trace) \in 1 .. Len(f.trace)
            BY <1>2, <1>3, <2>1, <4>3
          <5> QED BY <4>4, <5>1 DEF Chained
        <4> QED BY <1>3, <2>1, <2>3, <4>3, <4>5
      <3>2. CASE k # Len(n.trace)
        <4>1. k \in 1 .. Len(Source.trace)
          BY <1>2, <1>3, <2>1, <3>2
        <4>2. Prefix(n, k) = Prefix(Source, k)
          BY <2>1, <4>1, OutcomePrefixes
        <4> QED BY <1>2, <4>1, <4>2
      <3> QED BY <3>1, <3>2
    <2> QED BY <1>8, <2>2, <2>3, <2>4
  <1>9. nodes' = nodes \/ (nodes' = Append(nodes, Found(m)) /\ failures' = failures)
    BY DEF Outcome
  <1>10. ASSUME NEW i \in DOMAIN nodes', NEW n, n = nodes'[i]
         PROVE  /\ Chained(n)'
                /\ n.id = IF n.trace = <<>> THEN nodes'[1].id ELSE n.evidence[Len(n.trace)].to
                /\ \A k \in 1 .. Len(n.trace) : Prefix(n, k) \notin failures'
    <2>1. CASE i \in DOMAIN nodes /\ nodes'[i] = nodes[i]
      BY <1>7, <1>10, <2>1
    <2>2. CASE nodes' = Append(nodes, Found(m)) /\ failures' = failures /\ nodes'[i] = Found(m)
      BY <1>8, <1>10, <2>2
    <2>3. nodes' = Append(nodes, Found(m)) => (i \in DOMAIN nodes /\ nodes'[i] = nodes[i]) \/ nodes'[i] = Found(m)
      BY <1>3, <1>4, <1>10
    <2> QED BY <1>9, <1>10, <2>1, <2>2, <2>3
  <1> QED
    <2>1. \A n, k : Prefix(n, k)' = Prefix(n, k)
      BY DEF Prefix
    <2> QED BY <1>10, <2>1 DEF NodesChained

\* The graph keeps its shape.
LEMMA OutcomeShape ==
    ASSUME GraphInv, JobOK, TriedOnce, live \in Places, NEW m, Outcome(m)
    PROVE  GraphShape' /\ EnvironmentsKept'
  <1>1. /\ Places' = Places /\ Envs' = Envs /\ Ids' = Ids /\ Steps' = Steps /\ Paths' = Paths /\ Nodes' = Nodes
        /\ BaselineOK' /\ world' \in Worlds
    <2>1. UNCHANGED <<world, baseline>>
      BY DEF Outcome
    <2>2. Places' = Places /\ Envs' = Envs /\ Ids' = Ids
      BY <2>1, AlongKept
    <2> QED BY <2>1, <2>2 DEF Steps, Paths, Nodes, GraphInv, GraphShape, BaselineOK, Reset
  <1>2. /\ transitions' \in Seq(Steps) /\ Len(transitions') = Len(transitions) + 1
        /\ Found(m) \in Nodes /\ Path(m) \in Paths
        /\ Len(Trace) = Len(Source.trace) + 1 /\ Len(Source.trace) \in Nat
    BY OutcomeFacts
  <1>3. /\ Len(nodes) < MaxStates /\ Len(transitions) < MaxTransitions /\ Len(Source.trace) < MaxDepth
    BY DEF JobOK, Outcome, Trying
  <1>4. /\ nodes \in Seq(Nodes) /\ nodes # <<>> /\ failures \subseteq Paths /\ transitions \in Seq(Steps)
        /\ \A i \in DOMAIN nodes : Len(nodes[i].trace) <= MaxDepth
    BY DEF GraphInv, GraphShape
  <1>5. nodes' = nodes \/ nodes' = Append(nodes, Found(m))
    BY DEF Outcome
  <1>6. /\ nodes' \in Seq(Nodes) /\ nodes' # <<>> /\ Len(nodes') <= MaxStates
        /\ \A i \in DOMAIN nodes' : nodes'[i] = Found(m) \/ (i \in DOMAIN nodes /\ nodes'[i] = nodes[i])
    <2>1. nodes' \in Seq(Nodes) /\ nodes' # <<>> /\ Len(nodes') <= Len(nodes) + 1 /\ Len(nodes) \in Nat /\ Len(nodes') \in Nat
      <3> DEFINE n == Found(m)
      <3>1. n \in Nodes /\ (nodes' = nodes \/ nodes' = Append(nodes, n)) /\ nodes \in Seq(Nodes) /\ nodes # <<>>
        BY <1>2, <1>4, <1>5
      <3> HIDE DEF n
      <3> QED BY <3>1
    <2>2. Len(nodes') <= MaxStates
      BY <1>3, <2>1, WorldAssumption
    <2> QED BY <2>1, <2>2, OutcomeFacts
  <1>7. Found(m).trace = Trace /\ Found(m).env = m[2] /\ Found(m).id = Identity(m)
    BY DEF Found, NewNode
  <1>8. \A i \in DOMAIN nodes' : Len(nodes'[i].trace) <= MaxDepth
    BY <1>2, <1>3, <1>4, <1>6, <1>7, WorldAssumption
  <1>9. failures' \subseteq Paths
    BY <1>2, <1>4 DEF Outcome
  <1>10. Len(transitions') <= MaxTransitions
    BY <1>2, <1>3, <1>4, WorldAssumption
  <1>11. GraphShape'
    BY <1>1, <1>2, <1>6, <1>8, <1>9, <1>10 DEF GraphShape
  <1>12. EnvironmentsKept'
    <2>1. CheckpointAware' = CheckpointAware
      BY DEF CheckpointAware, Outcome
    <2>2. CheckpointAware => Identity(m)[2] = m[2]
      BY DEF Identity
    <2>3. CheckpointAware => \A i \in DOMAIN nodes : nodes[i].id[2] = nodes[i].env
      BY DEF GraphInv, EnvironmentsKept
    <2> QED BY <1>6, <1>7, <2>1, <2>2, <2>3 DEF EnvironmentsKept
  <1> QED BY <1>11, <1>12

\* Its states are still reached, and its transitions those of the application.
LEMMA OutcomeReached ==
    ASSUME GraphInv, JobOK, TriedOnce, live \in Places, AtSource, NEW m, Outcome(m)
    PROVE  Reached'
  <1>1. /\ \A t : Along(t)' = Along(t) /\ After(t)' = After(t)
        /\ \A l : Identity(l)' = Identity(l) /\ Offers(l)' = Offers(l)
        /\ world' = world /\ Faithful' = Faithful
    <2>1. UNCHANGED <<world, baseline>>
      BY DEF Outcome
    <2> QED BY <2>1, AlongKept DEF Faithful, CheckpointAware
  <1>2. pc = "execute" /\ pc \in Trying /\ job.action \in Offers(live) /\ m \in world.step[<<live, job.action>>]
    BY DEF Outcome, Trying
  <1>3. Source \in ToSet(nodes) /\ Source.trace \in Seq(Actions) /\ job.action \in Actions
    BY <1>2, SourceOK
  <1> SUFFICES ASSUME Faithful PROVE NodesReached' /\ TransitionsReal'
    BY <1>1 DEF Reached
  <1>4. NodesReached /\ TransitionsReal
    BY DEF GraphInv, Reached
  <1>5. live \in After(Source.trace) /\ Identity(live) = Source.id
    BY <1>2 DEF AtSource
  <1>6. m \in After(Trace)
    BY <1>2, <1>3, <1>5, AfterSteps DEF Trace, Moved
  <1>7. /\ Found(m).trace = Trace /\ Found(m).id = Identity(m)
        /\ Step(m).from = Source.id /\ Step(m).action = job.action /\ Step(m).to = Identity(m)
    BY DEF Found, NewNode, Step
  <1>8. nodes \in Seq(Nodes) /\ transitions \in Seq(Steps)
    BY DEF GraphInv, GraphShape
  <1>9. /\ Step(m) \in Steps /\ Found(m) \in Nodes /\ ToSet(nodes) \subseteq ToSet(nodes')
        /\ transitions' = Append(transitions, Step(m))
    BY OutcomeFacts DEF Outcome
  <1>10. NodesReached'
    <2>1. \A i \in DOMAIN nodes' : nodes'[i] = Found(m) \/ (i \in DOMAIN nodes /\ nodes'[i] = nodes[i])
      BY OutcomeFacts
    <2>2. \A i \in DOMAIN nodes' : \E l \in After(nodes'[i].trace) : Identity(l) = nodes'[i].id
      BY <1>4, <1>6, <1>7, <2>1 DEF NodesReached, Reaches
    <2> QED BY <1>1, <2>2 DEF NodesReached, Reaches
  <1>11. TransitionsReal'
    <2> DEFINE Real(t, n) ==
                 /\ n.id = t.from
                 /\ \E l \in After(n.trace) :
                      /\ Identity(l) = n.id /\ t.action \in Offers(l)
                      /\ \E k \in world.step[<<l, t.action>>] : Identity(k) = t.to
    <2>1. Real(Step(m), Source)
      BY <1>2, <1>5, <1>7
    <2>2. \A i \in DOMAIN transitions : \E n \in ToSet(nodes) : Real(transitions[i], n)
      BY <1>4 DEF TransitionsReal
    <2>3. \A i \in DOMAIN transitions' : transitions'[i] = Step(m) \/ (i \in DOMAIN transitions /\ transitions'[i] = transitions[i])
      BY <1>8, <1>9
    <2> HIDE DEF Real
    <2>4. \A i \in DOMAIN transitions' : \E n \in ToSet(nodes') : Real(transitions'[i], n)
      BY <1>3, <1>9, <2>1, <2>2, <2>3
    <2> QED BY <1>1, <2>4 DEF TransitionsReal, Real
  <1> QED BY <1>10, <1>11

\* The trace to a new state can be gone along again.
LEMMA OutcomeSteady ==
    ASSUME GraphInv, JobOK, TriedOnce, live \in Places, AtSource, NEW m, Outcome(m)
    PROVE  SteadyNodes'
  <1>1. /\ \A t : Along(t)' = Along(t) /\ After(t)' = After(t)
        /\ \A l : Identity(l)' = Identity(l) /\ Offers(l)' = Offers(l)
        /\ world' = world /\ CheckpointAware' = CheckpointAware
    <2>1. UNCHANGED <<world, baseline>>
      BY DEF Outcome
    <2> QED BY <2>1, AlongKept DEF CheckpointAware
  <1> SUFFICES ASSUME world.steady PROVE SteadyNodes'
    BY <1>1 DEF SteadyNodes
  <1> DEFINE n == Len(Source.trace)
             a == job.action
             evidence == Append(Source.evidence, Step(m))
  <1>2. pc = "execute" /\ pc \in Trying /\ a \in Offers(live) /\ m \in world.step[<<live, a>>]
    BY DEF Outcome, Trying
  <1>3. /\ Source.trace \in Seq(Actions) /\ a \in Actions /\ n \in Nat /\ Retraceable(Source)
        /\ Source.evidence \in Seq(Steps) /\ Len(Source.evidence) = n
        /\ world \in Worlds /\ BaselineOK
    BY <1>2, SourceOK DEF Chained, GraphInv, GraphShape
  <1>4. live \in After(Source.trace) /\ Identity(live) = Source.id
    BY <1>2 DEF AtSource, Faithful
  <1>5. /\ \A l \in After(Source.trace) : l = live
        /\ \A l \in world.step[<<live, a>>] : l = m
    <2>1. n \in 0 .. n
      BY <1>3
    <2>2. \A k, l \in After(Source.trace) : k = l
      BY <1>3, <2>1, AlongPlaces DEF After
    <2>3. \A k, l \in world.step[<<live, a>>] : k = l
      BY <1>2, <1>3, SteadyFacts
    <2> QED BY <1>2, <1>4, <2>2, <2>3
  <1>6. \A l \in After(Trace) : l = m
    <2>1. After(Trace) = Moved(After(Source.trace), a)
      BY <1>3, AfterSteps DEF Trace
    <2>2. \A l : l \in Moved(After(Source.trace), a) <=>
            \E k \in After(Source.trace) : a \in Offers(k) /\ l \in world.step[<<k, a>>]
      BY DEF Moved
    <2> QED BY <1>5, <2>1, <2>2
  <1>7. /\ Step(m) \in Steps /\ Len(Trace) = n + 1 /\ Trace[n + 1] = a
        /\ \A k \in 1 .. n : Trace[k] = Source.trace[k]
    BY OutcomeFacts
  <1>8. evidence[n + 1] = Step(m) /\ \A k \in 1 .. n : evidence[k] = Source.evidence[k]
    BY <1>3, <1>7
  <1>9. Step(m) = Evidence(live, a, m)
    BY <1>4 DEF Step, Evidence
  <1>10. \A k \in 0 .. n : Along(Trace)[k] = Along(Source.trace)[k]
    BY <1>3, AlongPrefix DEF Trace
  <1> HIDE DEF n, a, evidence
  <1>11. ASSUME NEW k \in 1 .. n + 1, NEW l \in Along(Trace)[k - 1]
         PROVE  /\ Trace[k] \in Offers(l)
                /\ CheckpointAware => \A j \in world.step[<<l, Trace[k]>>] : evidence[k] = Evidence(l, Trace[k], j)
    <2>1. CASE k = n + 1
      <3>1. n \in 0 .. n /\ k - 1 = n
        BY <1>3, <2>1
      <3>2. l \in After(Source.trace)
        BY <1>10, <3>1 DEF After, n
      <3>3. l = live
        BY <1>5, <3>2
      <3> QED BY <1>2, <1>5, <1>7, <1>8, <1>9, <2>1, <3>3
    <2>2. CASE k # n + 1
      <3>1. k \in 1 .. n /\ k - 1 \in 0 .. n
        BY <1>3, <2>2
      <3>2. l \in Along(Source.trace)[k - 1]
        BY <1>10, <3>1
      <3>3. /\ Source.trace[k] \in Offers(l)
            /\ CheckpointAware =>
                 \A j \in world.step[<<l, Source.trace[k]>>] : Source.evidence[k] = Evidence(l, Source.trace[k], j)
        BY <1>3, <3>1, <3>2 DEF Retraceable, n
      <3> QED BY <1>7, <1>8, <3>1, <3>3
    <2> QED BY <2>1, <2>2
  <1>12. Retraceable(Found(m))
    <2>1. /\ Found(m).trace = Trace /\ Found(m).evidence = evidence
          /\ Found(m).id = Identity(m) /\ Found(m).offers = Offers(m)
      BY DEF Found, NewNode, evidence
    <2> QED BY <1>6, <1>7, <1>11, <2>1 DEF Retraceable
  <1>13. \A i \in DOMAIN nodes : Retraceable(nodes[i])
    BY DEF GraphInv, SteadyNodes
  <1>14. \A i \in DOMAIN nodes' : Retraceable(nodes'[i])
    BY <1>12, <1>13, OutcomeFacts
  <1> QED BY <1>1, <1>14 DEF SteadyNodes, Retraceable, Evidence

\* The edge is recorded.
LEMMA OutcomeAccounted ==
    ASSUME GraphInv, JobOK, TriedOnce, Accounted, live \in Places, NEW m, Outcome(m)
    PROVE  TriedOnce' /\ Accounted'
  <1>1. /\ ToSet(transitions') = ToSet(transitions) \cup {Step(m)} /\ executed' = executed /\ dropped' = dropped
        /\ ToSet(nodes) \subseteq ToSet(nodes') /\ failures \subseteq failures'
        /\ Step(m) \in Steps
    BY OutcomeFacts DEF Outcome
  <1>2. pc \in Trying /\ pc' \notin Trying
    BY DEF Outcome, Trying
  <1>3. <<Step(m).from, Step(m).action>> = Edge
    BY DEF Step, Edge
  <1>4. TriedOnce'
    BY <1>1, <1>2, <1>3 DEF TriedOnce
  <1> DEFINE Seen(t) == (\E n \in ToSet(nodes') : n.id = t.to) \/ (\E f \in failures' : Last(f.evidence) = t)
  <1>5. \A t : Shown(t) => Seen(t)
    BY <1>1 DEF Shown
  <1>6. Seen(Step(m))
    <2>1. CASE failures' = failures \cup {Path(m)}
      <3>1. Path(m).evidence = Append(Source.evidence, Step(m)) /\ Source.evidence \in Seq(Steps)
        BY <1>2, SourceOK DEF Path
      <3>2. Last(Path(m).evidence) = Step(m)
        BY <1>1, <3>1 DEF Last
      <3> QED BY <2>1, <3>2
    <2>2. CASE \E n \in ToSet(nodes) : n.id = Identity(m)
      BY <1>1, <2>2 DEF Step
    <2>3. CASE nodes' = Append(nodes, Found(m))
      <3>1. Found(m) \in Nodes /\ nodes \in Seq(Nodes)
        BY OutcomeFacts DEF GraphInv, GraphShape
      <3>2. Found(m) \in ToSet(nodes') /\ Found(m).id = Identity(m)
        <4> DEFINE n == Found(m)
        <4>1. n.id = Identity(m)
          BY DEF Found, NewNode
        <4> HIDE DEF n
        <4>2. n \in Nodes /\ nodes' = Append(nodes, n)
          BY <2>3, <3>1 DEF n
        <4>3. n \in ToSet(nodes')
          BY <3>1, <4>2 DEF ToSet
        <4> QED BY <4>1, <4>3 DEF n
      <3> QED BY <3>2 DEF Step
    <2> QED BY <2>1, <2>2, <2>3 DEF Outcome
  <1> HIDE DEF Seen
  <1>7. \A e \in executed :
           \/ e \in dropped
           \/ \E t \in ToSet(transitions') : e = <<t.from, t.action>> /\ Seen(t)
    BY <1>1, <1>2, <1>3, <1>5, <1>6 DEF Accounted
  <1> QED BY <1>1, <1>4, <1>7 DEF Accounted, Shown, Seen

\* The application is where the new trace leads.
LEMMA OutcomePlace ==
    ASSUME GraphInv, JobOK, TriedOnce, live \in Places, AtSource, NEW m, Outcome(m)
    PROVE  JobOK' /\ AtSource' /\ CurrentOK' /\ live' \in Places'
  <1>1. /\ \A t : After(t)' = After(t) /\ world' = world /\ CheckpointAware' = CheckpointAware /\ Places' = Places
        /\ \A l : Offers(l)' = Offers(l)
    <2>1. UNCHANGED <<world, baseline>>
      BY DEF Outcome
    <2> QED BY <2>1, AlongKept DEF CheckpointAware
  <1>2. /\ pc = "execute" /\ pc \in Trying /\ pc' = "select" /\ job' = NoJob /\ live' = m
        /\ job.action \in Offers(live) /\ m \in world.step[<<live, job.action>>]
        /\ current' = Remember(Trace, m)
    BY DEF Outcome, Trying
  <1>3. m \in Places /\ Trace \in Seq(Actions) /\ Len(Trace) = Len(Source.trace) + 1 /\ Len(Source.trace) \in Nat
    BY OutcomeFacts
  <1>4. JobOK' /\ AtSource'
    BY <1>2 DEF JobOK, AtSource, Trying
  <1>5. ASSUME world.steady PROVE m \in After(Trace) /\ \A l \in After(Trace) : l = m
    <2>1. Source.trace \in Seq(Actions) /\ job.action \in Actions /\ world \in Worlds /\ BaselineOK
      BY <1>2, SourceOK DEF GraphInv, GraphShape
    <2>2. live \in After(Source.trace)
      BY <1>2, <1>5 DEF AtSource, Faithful
    <2>3. m \in After(Trace)
      BY <1>2, <2>1, <2>2, AfterSteps DEF Trace, Moved
    <2>4. Len(Trace) \in 0 .. Len(Trace)
      BY <1>3
    <2>5. \A k, l \in After(Trace) : k = l
      BY <1>3, <1>5, <2>1, <2>4, AlongPlaces DEF After
    <2> QED BY <2>3, <2>5
  <1>6. Len(Trace) <= MaxDepth
    <2>1. Len(Source.trace) < MaxDepth
      BY <1>2 DEF JobOK
    <2> QED BY <1>3, <2>1, WorldAssumption
  <1>7. CASE CheckpointAware
    <2>1. current' = Forgotten
      BY <1>2, <1>7 DEF Remember
    <2>2. current'.known = FALSE
      BY <2>1 DEF Forgotten
    <2> QED BY <1>1, <1>2, <1>3, <1>4, <2>2 DEF CurrentOK
  <1>8. CASE ~CheckpointAware
    <2>1. current' = [known |-> TRUE, trace |-> Trace, id |-> Identity(m), offers |-> Offers(m)]
      BY <1>2, <1>8 DEF Remember
    <2>2. current'.known = TRUE /\ current'.trace = Trace /\ current'.offers = Offers(m)
      BY <2>1
    <2> QED BY <1>1, <1>2, <1>3, <1>4, <1>5, <1>6, <1>8, <2>2 DEF CurrentOK
  <1> QED BY <1>7, <1>8

-----------------------------------------------------------------------------
PCs == {"init", "select", "report"} \cup Trying

\* The state before the first reset, and every one after it.
Fresh ==
    /\ world \in Worlds /\ live = world.start /\ baseline = live[2] /\ pc = "init" /\ job = NoJob
    /\ nodes = <<>> /\ transitions = <<>> /\ failures = {} /\ executed = {} /\ dropped = {}
    /\ current = Forgotten /\ faults = 0
Started ==
    /\ GraphInv /\ JobOK /\ TriedOnce /\ Accounted
    /\ live \in Places /\ AtSource /\ CurrentOK
    /\ SteadyReplays /\ pc \in PCs \ {"init"} /\ faults \in 0 .. MaxFaults
ExplorerInv == Fresh \/ Started

\* No action leads to the start.
LEMMA AfterNothing == After(<<>>) = Start
  BY AlongSteps, EmptySeq DEF After

\* The first reset finds the first state.
LEMMA BeginKeeps == ASSUME Fresh, Begin PROVE Started'
  <1> DEFINE first == Reset(world.start)
             here == <<world.start[1], first[2]>>
             n == NewNode(first, <<>>, <<>>)
  <1>1. /\ world \in Worlds /\ live = world.start /\ transitions = <<>> /\ failures = {} /\ executed = {} /\ dropped = {}
        /\ job = NoJob /\ faults = 0
    BY DEF Fresh
  <1>2. /\ pc' = "select" /\ live' = first /\ baseline' = first[2] /\ nodes' = <<n>> /\ current' = Remember(<<>>, first)'
        /\ UNCHANGED <<world, executed, transitions, failures, dropped, job, faults>>
    <2>1. pc' = "select" /\ live' = Reset(live) /\ baseline' = live'[2] /\ nodes' = << NewNode(live', <<>>, <<>>) >>
      BY DEF Begin
    <2>2. current' = Remember(<<>>, live') /\ UNCHANGED <<world, executed, transitions, failures, dropped, job, faults>>
      BY DEF Begin
    <2>3. Remember(<<>>, live') = Remember(<<>>, first)'
      BY <1>1, <2>1, <2>2 DEF Remember, CheckpointAware, Identity, Offers, Reset, Forgotten
    <2> QED BY <1>1, <2>1, <2>2, <2>3
  <1>3. /\ first \in Places /\ world.start \in Places /\ first[2] \in Envs /\ here \in Places /\ here[2] = first[2]
        /\ Offers(first) \subseteq Actions /\ Identity(first) \in Ids
    BY <1>1, WorldFacts DEF Ids
  <1>4. /\ Places' = Places /\ Envs' = Envs /\ Ids' = Ids /\ Steps' = Steps /\ Paths' = Paths /\ Nodes' = Nodes
        /\ CheckpointAware' = CheckpointAware /\ \A l : Identity(l)' = Identity(l) /\ Offers(l)' = Offers(l) /\ Reset(l)' = Reset(l)
    BY <1>2 DEF Places, Envs, Ids, Steps, Paths, Nodes, CheckpointAware, Identity, Offers, Reset
  <1>5. /\ n.id = Identity(first) /\ n.env = first[2] /\ n.trace = <<>> /\ n.evidence = <<>> /\ n.offers = Offers(first)
        /\ n \in Nodes
    BY <1>3 DEF NewNode, Nodes
  <1>6. After(<<>>)' = Start'
    <2>1. (After(<<>>) = Start)'
      BY AfterNothing, PTL
    <2> QED BY <2>1
  <1>7. Start' = {first, Reset(here)}
    BY <1>2, <1>4 DEF Start
  <1>8. world.steady => Reset(here) = first
    BY <1>1, <1>3, WorldFacts, SteadyFacts
  <1> HIDE DEF n, first, here
  <1>9. /\ nodes' \in Seq(Nodes) /\ nodes' # <<>> /\ Len(nodes') = 1 /\ nodes'[1] = n
        /\ \A i \in DOMAIN nodes' : nodes'[i] = n
    BY <1>2, <1>5
  <1>10. Len(<<>>) = 0 /\ <<>> \in Seq(Steps) /\ Len(transitions) = 0 /\ ToSet(transitions) = {}
    BY <1>1 DEF ToSet
  <1>11. BaselineOK'
    BY <1>2, <1>3, <1>4 DEF BaselineOK, first
  <1>12. GraphShape'
    <2>1. Len(nodes'[1].trace) = 0
      BY <1>5, <1>9, <1>10
    <2> QED BY <1>1, <1>2, <1>4, <1>5, <1>9, <1>10, <1>11, <2>1, WorldAssumption DEF GraphShape
  <1>13. NodesChained' /\ FailuresChained' /\ EnvironmentsKept'
    <2>1. NodesChained'
      BY <1>5, <1>9, <1>10 DEF NodesChained, Chained
    <2>2. FailuresChained'
      BY <1>1, <1>2 DEF FailuresChained
    <2>3. EnvironmentsKept'
      <3>1. CheckpointAware => Identity(first)[2] = first[2]
        BY DEF Identity
      <3> QED BY <1>4, <1>5, <1>9, <3>1 DEF EnvironmentsKept
    <2> QED BY <2>1, <2>2, <2>3
  <1>14. Reached'
    <2>1. NodesReached'
      BY <1>4, <1>5, <1>6, <1>7, <1>9 DEF NodesReached, Reaches
    <2>2. TransitionsReal'
      BY <1>1, <1>2 DEF TransitionsReal
    <2> QED BY <2>1, <2>2 DEF Reached
  <1>15. SteadyNodes'
    <2> SUFFICES ASSUME world.steady PROVE SteadyNodes'
      BY <1>2 DEF SteadyNodes
    <2>1. \A l \in After(<<>>)' : Identity(l)' = n.id /\ Offers(l)' = n.offers
      BY <1>4, <1>5, <1>6, <1>7, <1>8
    <2> QED BY <1>5, <1>9, <1>10, <2>1 DEF SteadyNodes, Retraceable
  <1>16. JobOK' /\ TriedOnce' /\ Accounted' /\ AtSource'
    BY <1>1, <1>2, <1>10 DEF JobOK, TriedOnce, Accounted, AtSource, Trying
  <1>17. CurrentOK'
    <2>1. CASE CheckpointAware
      <3>1. current' = [known |-> FALSE]
        BY <1>2, <1>4, <2>1 DEF Remember, Forgotten
      <3>2. current'.known = FALSE
        BY <3>1
      <3> QED BY <3>2 DEF CurrentOK
    <2>2. CASE ~CheckpointAware
      <3>1. current' = [known |-> TRUE, trace |-> <<>>, id |-> Identity(first)', offers |-> Offers(first)']
        BY <1>2, <1>4, <2>2 DEF Remember
      <3>2. current'.known = TRUE /\ current'.trace = <<>> /\ current'.offers = Offers(first)
        BY <1>2, <1>4, <3>1 DEF first
      <3>3. world.steady => live' \in After(<<>>)' /\ \A l \in After(<<>>)' : l = first
        BY <1>2, <1>6, <1>7, <1>8
      <3>4. <<>> \in Seq(Actions) /\ Len(<<>>) <= MaxDepth
        BY <1>10, WorldAssumption
      <3> QED BY <1>2, <1>4, <2>2, <3>2, <3>3, <3>4 DEF CurrentOK
    <2> QED BY <2>1, <2>2
  <1>18. SteadyReplays' /\ pc' \in PCs \ {"init"} /\ faults' \in 0 .. MaxFaults /\ live' \in Places'
    BY <1>1, <1>2, <1>3, <1>4, WorldAssumption DEF SteadyReplays, PCs, Trying
  <1> QED BY <1>12, <1>13, <1>14, <1>15, <1>16, <1>17, <1>18 DEF Started, GraphInv

\* The graph and the accounts hold while an edge is tried,
LEMMA TryingKeeps ==
    ASSUME GraphInv, JobOK, TriedOnce, Accounted, pc \in Trying, pc' \in Trying,
           UNCHANGED <<world, baseline, nodes, transitions, failures, executed, dropped>>,
           job' = [node |-> job.node, at |-> job'.at, action |-> job.action], job'.at \in 0 .. Len(Source.trace),
           pc' \in {"reuse", "prepare"} => job'.at = 0
    PROVE  GraphInv' /\ JobOK' /\ TriedOnce' /\ Accounted' /\ Source' = Source
  <1>1. GraphInv'
    BY GraphKept
  <1>2. job'.node = job.node /\ job'.action = job.action
    <2> DEFINE at == job'.at
    <2>1. job' = [node |-> job.node, at |-> at, action |-> job.action]
      OBVIOUS
    <2> HIDE DEF at
    <2> QED BY <2>1
  <1>3. Source' = Source /\ Edge' = Edge
    BY <1>2 DEF Source, Edge
  <1>4. JobOK'
    BY <1>2, <1>3 DEF JobOK
  <1>5. TriedOnce' /\ Accounted'
    BY <1>3 DEF TriedOnce, Accounted, Shown
  <1> QED BY <1>1, <1>3, <1>4, <1>5

\* and when it is given up.
LEMMA GiveUpKeeps ==
    ASSUME GraphInv, JobOK, TriedOnce, Accounted, pc \in Trying, GiveUp
    PROVE  GraphInv' /\ JobOK' /\ TriedOnce' /\ Accounted' /\ AtSource' /\ pc' = "select" /\ world' = world
  <1>1. /\ pc' = "select" /\ job' = NoJob /\ dropped' = dropped \cup {Edge}
        /\ UNCHANGED <<world, baseline, nodes, transitions, failures, executed>>
    BY DEF GiveUp, graph, Edge
  <1>2. GraphInv'
    BY <1>1, GraphKept
  <1>3. JobOK' /\ AtSource'
    BY <1>1 DEF JobOK, AtSource, Trying
  <1>4. TriedOnce' /\ Accounted'
    BY <1>1 DEF TriedOnce, Accounted, Shown, Trying
  <1> QED BY <1>1, <1>2, <1>3, <1>4

\* A driver that forgets knows nothing to be wrong about.
LEMMA ForgottenOK == ASSUME current' = Forgotten PROVE CurrentOK'
  <1>1. current'.known = FALSE
    BY DEF Forgotten
  <1> QED BY <1>1 DEF CurrentOK

\* An edge is picked that was not tried.
LEMMA SelectKeeps == ASSUME Started, Select PROVE Started'
  <1>1. /\ GraphInv /\ JobOK /\ TriedOnce /\ Accounted /\ live \in Places /\ CurrentOK /\ SteadyReplays
        /\ faults \in 0 .. MaxFaults
    BY DEF Started
  <1>2. PICK e \in Frontier :
          /\ executed' = executed \cup {<<nodes[e[1]].id, e[2]>>}
          /\ job' = [node |-> e[1], at |-> 0, action |-> e[2]]
          /\ pc' = IF current.known /\ current.trace = nodes[e[1]].trace /\ current.id = nodes[e[1]].id
                   THEN "reuse" ELSE "prepare"
    BY DEF Select
  <1>3. /\ pc = "select" /\ Len(transitions) < MaxTransitions /\ Len(nodes) < MaxStates
        /\ UNCHANGED <<world, live, baseline, nodes, transitions, failures, dropped, current, faults>>
    BY DEF Select, app, graph
  <1>4. /\ e[1] \in DOMAIN nodes /\ Len(nodes[e[1]].trace) < MaxDepth
        /\ e[2] \in nodes[e[1]].offers /\ <<nodes[e[1]].id, e[2]>> \notin executed
    BY <1>2 DEF Frontier
  <1>5. GraphInv'
    BY <1>1, <1>3, GraphKept
  <1>6. job'.node = e[1] /\ job'.at = 0 /\ job'.action = e[2] /\ Source' = nodes[e[1]]
    BY <1>2, <1>3 DEF Source
  <1>7. Edge' = <<nodes[e[1]].id, e[2]>> /\ executed' = executed \cup {Edge'}
    BY <1>2, <1>6 DEF Edge
  <1>8. pc' \in {"reuse", "prepare"}
    BY <1>2
  <1>9. JobOK'
    <2>1. nodes[e[1]].trace \in Seq(Actions)
      <3>1. nodes[e[1]] \in Nodes
        BY <1>1, <1>4 DEF GraphInv, GraphShape
      <3> QED BY <3>1 DEF Nodes
    <2>2. 0 \in 0 .. Len(nodes[e[1]].trace)
      BY <2>1
    <2> QED BY <1>2, <1>3, <1>4, <1>6, <1>8, <2>2 DEF JobOK, Trying
  <1>10. TriedOnce'
    BY <1>1, <1>3, <1>4, <1>7 DEF TriedOnce
  <1>11. Accounted'
    BY <1>1, <1>3, <1>7, <1>8 DEF Accounted, Shown, Trying
  <1>12. AtSource'
    BY <1>2, <1>3, <1>6 DEF AtSource
  <1>13. CurrentOK'
    <2>1. \A t : After(t)' = After(t)
      BY <1>3, AlongKept
    <2>2. \A l : Offers(l)' = Offers(l)
      BY <1>3, AlongKept
    <2> QED BY <1>1, <1>3, <1>8, <2>1, <2>2 DEF CurrentOK, CheckpointAware
  <1>14. SteadyReplays' /\ pc' \in PCs \ {"init"} /\ faults' \in 0 .. MaxFaults /\ live' \in Places'
    BY <1>1, <1>3, <1>8 DEF SteadyReplays, PCs, Trying, Places
  <1> QED BY <1>5, <1>9, <1>10, <1>11, <1>12, <1>13, <1>14 DEF Started

\* What a step keeps that tries on.
LEMMA MoveKeeps ==
    ASSUME Started, pc \in Trying, pc' \in Trying \ {"reuse"}, live' \in Places,
           UNCHANGED <<world, baseline, nodes, transitions, failures, executed, dropped, job>>,
           pc' = "prepare" => pc = "reuse", faults' \in {faults, faults + 1}, faults' <= MaxFaults,
           pc' = "replay" /\ Faithful => live' \in Along(Source.trace)[job.at],
           pc' \in {"candidate", "execute"} /\ Faithful => live' \in After(Source.trace) /\ Identity(live') = Source.id,
           CurrentOK'
    PROVE  Started'
  <1>1. /\ GraphInv /\ JobOK /\ TriedOnce /\ Accounted /\ SteadyReplays /\ faults \in 0 .. MaxFaults
    BY DEF Started
  <1>2. /\ job = [node |-> job.node, at |-> job.at, action |-> job.action] /\ job.at \in 0 .. Len(Source.trace)
        /\ pc = "reuse" => job.at = 0
    BY <1>1 DEF JobOK
  <1>3. GraphInv' /\ JobOK' /\ TriedOnce' /\ Accounted' /\ Source' = Source
    <2>1. job' = [node |-> job.node, at |-> job'.at, action |-> job.action] /\ job'.at \in 0 .. Len(Source.trace)
      BY <1>2
    <2> QED BY <1>1, <1>2, <2>1, TryingKeeps
  <1>4. /\ \A t : Along(t)' = Along(t) /\ After(t)' = After(t)
        /\ \A l : Identity(l)' = Identity(l)
        /\ Faithful' = Faithful /\ Places' = Places
    BY AlongKept DEF Faithful, CheckpointAware
  <1>5. AtSource'
    BY <1>3, <1>4 DEF AtSource
  <1>6. SteadyReplays'
    <2>1. faults' = 0 => faults = 0
      BY <1>1, WorldAssumption
    <2> QED BY <1>1, <2>1 DEF SteadyReplays
  <1>7. pc' \in PCs \ {"init"} /\ faults' \in 0 .. MaxFaults /\ live' \in Places'
    BY <1>1, <1>4, WorldAssumption DEF PCs, Trying
  <1> QED BY <1>3, <1>5, <1>6, <1>7 DEF Started

\* What one keeps that gives up: a steady application gave no reason to.
LEMMA DropKeeps ==
    ASSUME Started, pc \in Trying, GiveUp, live' \in Places, CurrentOK',
           (faults' = faults /\ ~world.steady) \/ Fault
    PROVE  Started'
  <1>1. GraphInv /\ JobOK /\ TriedOnce /\ Accounted /\ SteadyReplays /\ faults \in 0 .. MaxFaults
    BY DEF Started
  <1>2. GraphInv' /\ JobOK' /\ TriedOnce' /\ Accounted' /\ AtSource' /\ pc' = "select" /\ world' = world
    BY <1>1, GiveUpKeeps
  <1>3. SteadyReplays' /\ faults' \in 0 .. MaxFaults
    BY <1>1, <1>2, WorldAssumption DEF SteadyReplays, Fault
  <1>4. Places' = Places
    BY <1>2 DEF Places
  <1> QED BY <1>2, <1>3, <1>4 DEF Started, PCs

\* A state of a steady application is a place, and the trace leads there.
LEMMA SteadySource ==
    ASSUME Started, pc \in Trying, world.steady
    PROVE  /\ \A k, l \in After(Source.trace) : k = l
           /\ \A l \in After(Source.trace) : Identity(l) = Source.id /\ Offers(l) = Source.offers
           /\ \A k \in 1 .. Len(Source.trace) : \A l \in Along(Source.trace)[k - 1] :
                /\ Source.trace[k] \in Offers(l)
                /\ CheckpointAware =>
                     \A m \in world.step[<<l, Source.trace[k]>>] :
                        Source.evidence[k] = Evidence(l, Source.trace[k], m)
           /\ \E l \in After(Source.trace) : Identity(l) = Source.id
           /\ After(Source.trace) \subseteq Places /\ job.action \in Source.offers
  <1>1. GraphInv /\ JobOK
    BY DEF Started
  <1>2. /\ Source.trace \in Seq(Actions) /\ Len(Source.trace) \in 0 .. Len(Source.trace) /\ Retraceable(Source)
        /\ world \in Worlds /\ BaselineOK /\ job.node \in DOMAIN nodes /\ job.action \in Source.offers
    BY <1>1, SourceOK DEF GraphInv, GraphShape, JobOK
  <1>3. (\A k, l \in After(Source.trace) : k = l) /\ After(Source.trace) \subseteq Places
    BY <1>2, AlongPlaces DEF After
  <1>4. \E l \in After(Source.trace) : Identity(l) = Source.id
    BY <1>1, <1>2 DEF GraphInv, Reached, Faithful, NodesReached, Reaches, Source
  <1> QED BY <1>2, <1>3, <1>4 DEF Retraceable

\* The live application is the source's state if it shows the same.
LEMMA ReuseKeeps == ASSUME Started, Reuse PROVE Started'
  <1>1. /\ GraphInv /\ JobOK /\ live \in Places /\ AtSource /\ CurrentOK /\ faults \in 0 .. MaxFaults /\ world \in Worlds
    BY DEF Started, GraphInv, GraphShape
  <1>2. /\ pc = "reuse" /\ pc \in Trying
        /\ UNCHANGED <<world, live, baseline, nodes, transitions, failures, executed, dropped, job, current>>
        /\ pc' \in {"candidate", "prepare"} /\ pc' \in Trying \ {"reuse"}
        /\ faults' \in {faults, faults + 1} /\ faults' <= MaxFaults
        /\ pc' = "candidate" => Identity(live) = Source.id
    BY <1>1, WorldAssumption DEF Reuse, Goto, app, graph, Fault, Trying
  <1>3. current.known /\ ~CheckpointAware /\ current.trace = Source.trace
    BY <1>1, <1>2 DEF AtSource, CurrentOK
  <1>4. ASSUME Faithful, pc' = "candidate" PROVE live \in After(Source.trace)
    <2>1. world.steady /\ Identity(live) = Source.id
      BY <1>2, <1>3, <1>4 DEF Faithful
    <2>2. /\ \A l \in After(Source.trace) : Identity(l) = Source.id
          /\ After(Source.trace) \subseteq Places
      BY <1>2, <2>1, SteadySource
    <2>3. live \in After(Source.trace) \/ \E l \in After(Source.trace) : world.late[l] # {}
      BY <1>1, <1>2, <1>3, <2>1 DEF CurrentOK
    <2>4. ASSUME NEW l \in After(Source.trace), world.late[l] # {} PROVE live = l
      BY <1>1, <1>3, <2>1, <2>2, <2>4, SteadyFacts
    <2> QED BY <2>3, <2>4
  <1>5. CurrentOK'
    <2>1. /\ \A t : After(t)' = After(t) /\ \A l : Offers(l)' = Offers(l)
          /\ Source' = Source
      BY <1>2, AlongKept DEF Source
    <2> QED BY <1>1, <1>2, <1>3, <2>1 DEF CurrentOK, CheckpointAware
  <1> QED BY <1>1, <1>2, <1>4, <1>5, MoveKeeps

\* A reset in the initial environment is where every trace starts.
LEMMA PrepareKeeps == ASSUME Started, Prepare PROVE Started'
  <1> DEFINE restored == <<live[1], baseline>>
             here == <<world.start[1], baseline>>
  <1>1. /\ GraphInv /\ JobOK /\ live \in Places /\ CurrentOK /\ faults \in 0 .. MaxFaults
        /\ world \in Worlds /\ BaselineOK /\ world.start \in Places
    BY WorldFacts DEF Started, GraphInv, GraphShape
  <1>2. pc = "prepare" /\ pc \in Trying
    BY DEF Prepare, Trying
  <1>3. job.at = 0 /\ Source.trace \in Seq(Actions)
    BY <1>1, <1>2, SourceOK DEF JobOK
  <1>4. /\ restored \in Places /\ here \in Places /\ restored[2] = baseline /\ here[2] = baseline
    BY <1>1, WorldFacts DEF BaselineOK
  <1>5. Reset(restored) \in Places /\ Reset(live) \in Places /\ Reset(restored) = Reset(here)
    BY <1>1, <1>4, WorldFacts
  <1>6. Along(Source.trace)[0] = {Reset(world.start), Reset(here)}
    BY <1>3, AlongSteps DEF Start
  <1> HIDE DEF restored, here
  <1>7. ASSUME UNCHANGED <<world, baseline>>, CheckpointAware, UNCHANGED current PROVE CurrentOK'
    BY <1>1, <1>7 DEF CurrentOK, CheckpointAware
  <1>8. CASE CheckpointAware /\ live' = Reset(restored) /\ Goto("replay") /\ UNCHANGED <<world, current, faults>>
    <2>1. CurrentOK'
      BY <1>7, <1>8 DEF Goto
    <2>2. /\ pc' = "replay" /\ pc' \in Trying \ {"reuse"} /\ faults' \in {faults, faults + 1} /\ faults' <= MaxFaults
          /\ UNCHANGED <<world, baseline, nodes, transitions, failures, executed, dropped, job>>
      BY <1>1, <1>8 DEF Goto, graph, Trying
    <2>3. live' \in Places /\ live' \in Along(Source.trace)[job.at]
      BY <1>3, <1>5, <1>6, <1>8
    <2> QED BY <1>2, <2>1, <2>2, <2>3, MoveKeeps
  <1>9. CASE CheckpointAware /\ live' = Reset(restored) /\ live'[2] # baseline /\ GiveUp /\ UNCHANGED <<current, faults>>
    <2>1. CurrentOK'
      BY <1>7, <1>9 DEF GiveUp
    <2>2. ~world.steady
      BY <1>1, <1>4, <1>9, SteadyFacts
    <2> QED BY <1>2, <1>5, <1>9, <2>1, <2>2, DropKeeps
  <1>10. CASE CheckpointAware /\ live' \in {live, restored, Reset(restored)} /\ Fault /\ GiveUp /\ UNCHANGED current
    <2>1. CurrentOK'
      BY <1>7, <1>10 DEF GiveUp
    <2>2. live' \in Places
      BY <1>1, <1>4, <1>5, <1>10
    <2> QED BY <1>2, <1>10, <2>1, <2>2, DropKeeps
  <1>11. CASE ~CheckpointAware /\ live' = Reset(live) /\ Goto("replay") /\ UNCHANGED <<world, current, faults>>
    <2>1. /\ pc' = "replay" /\ pc' \in Trying \ {"reuse"} /\ faults' \in {faults, faults + 1} /\ faults' <= MaxFaults
          /\ UNCHANGED <<world, baseline, nodes, transitions, failures, executed, dropped, job>>
      BY <1>1, <1>11 DEF Goto, graph, Trying
    <2>2. CurrentOK'
      <3>1. /\ \A t : After(t)' = After(t) /\ \A l : Offers(l)' = Offers(l)
        BY <2>1, AlongKept
      <3> QED BY <1>1, <1>11, <2>1, <3>1 DEF CurrentOK, CheckpointAware
    <2>3. Faithful => live' \in Along(Source.trace)[job.at]
      <3> SUFFICES ASSUME world.steady PROVE live' \in Along(Source.trace)[job.at]
        BY <1>11 DEF Faithful
      <3>1. live[2] = world.start[2]
        BY <1>1, <1>11, SteadyFacts
      <3>2. Reset(live) = Reset(world.start)
        BY <1>1, <3>1, WorldFacts
      <3> QED BY <1>3, <1>6, <1>11, <3>2
    <2> QED BY <1>2, <1>5, <1>11, <2>1, <2>2, <2>3, MoveKeeps
  <1> QED BY <1>8, <1>9, <1>10, <1>11 DEF Prepare, PrepareCheckpoint, restored

\* Each action of the trace leads one place further, as it did before.
LEMMA ReplayKeeps == ASSUME Started, ReplayStep PROVE Started'
  <1> DEFINE n == job.at
             a == Source.trace[n + 1]
  <1>1. /\ GraphInv /\ JobOK /\ TriedOnce /\ Accounted /\ live \in Places /\ AtSource /\ CurrentOK /\ SteadyReplays
        /\ faults \in 0 .. MaxFaults /\ world \in Worlds /\ BaselineOK
    BY DEF Started, GraphInv, GraphShape
  <1>2. pc = "replay" /\ pc \in Trying /\ n < Len(Source.trace)
    BY DEF ReplayStep, Trying
  <1>3. /\ Source.trace \in Seq(Actions) /\ n \in Nat /\ n + 1 \in 1 .. Len(Source.trace) /\ (n + 1) - 1 = n
        /\ job = [node |-> job.node, at |-> job.at, action |-> job.action]
    <2>1. Source.trace \in Seq(Actions) /\ n \in 0 .. Len(Source.trace)
      BY <1>1, <1>2, SourceOK DEF JobOK
    <2>2. n \in Nat /\ n + 1 \in 1 .. Len(Source.trace) /\ (n + 1) - 1 = n
      BY <1>2, <2>1
    <2> QED BY <1>1, <1>2, <2>1, <2>2 DEF JobOK
  <1>4. Faithful => live \in Along(Source.trace)[n]
    BY <1>1, <1>2 DEF AtSource
  <1>5. ASSUME world.steady
        PROVE  /\ a \in Offers(live)
               /\ \A m \in world.step[<<live, a>>] : Reproduces(live, a, m)
    <2>1. live \in Along(Source.trace)[(n + 1) - 1]
      BY <1>3, <1>4, <1>5 DEF Faithful
    <2> QED BY <1>2, <1>3, <1>5, <2>1, SteadySource DEF Reproduces
  <1>6. a \in Offers(live) => world.step[<<live, a>>] \subseteq Places
    BY <1>1, WorldFacts
  <1>7. CASE a \notin Offers(live) /\ GiveUp /\ UNCHANGED <<live, faults>> /\ current' = Forgotten
    BY <1>1, <1>2, <1>5, <1>7, ForgottenOK, DropKeeps
  <1>8. ASSUME a \in Offers(live), NEW m \in world.step[<<live, a>>], live' = m, UNCHANGED faults,
               Reproduces(live, a, m), job' = [job EXCEPT !.at = @ + 1],
               UNCHANGED <<world, baseline, nodes, transitions, failures, executed, dropped, pc, current>>
        PROVE  Started'
    <2>1. job' = [node |-> job.node, at |-> n + 1, action |-> job.action]
      BY <1>3, <1>8
    <2>2. job'.at = n + 1
      BY <2>1
    <2>3. GraphInv' /\ JobOK' /\ TriedOnce' /\ Accounted' /\ Source' = Source
      <3>1. n + 1 \in 0 .. Len(Source.trace)
        BY <1>3
      <3> QED BY <1>1, <1>2, <1>8, <2>1, <2>2, <3>1, TryingKeeps
    <2>4. /\ \A t : Along(t)' = Along(t) /\ After(t)' = After(t)
          /\ \A l : Offers(l)' = Offers(l)
          /\ Faithful' = Faithful /\ Places' = Places
      BY <1>8, AlongKept DEF Faithful, CheckpointAware
    <2>5. Faithful => m \in Along(Source.trace)[n + 1]
      <3>1. Along(Source.trace)[n + 1] = Moved(Along(Source.trace)[n], a)
        BY <1>3, AlongSteps
      <3> QED BY <1>4, <1>8, <3>1 DEF Moved
    <2>6. AtSource'
      BY <1>2, <1>8, <2>2, <2>3, <2>4, <2>5 DEF AtSource
    <2>7. CurrentOK'
      BY <1>1, <1>2, <1>8, <2>3, <2>4 DEF CurrentOK, CheckpointAware
    <2>8. SteadyReplays' /\ pc' \in PCs \ {"init"} /\ faults' \in 0 .. MaxFaults /\ live' \in Places'
      BY <1>1, <1>2, <1>6, <1>8, <2>4 DEF SteadyReplays, PCs, Trying
    <2> QED BY <2>3, <2>6, <2>7, <2>8 DEF Started
  <1>9. ASSUME a \in Offers(live), NEW m \in world.step[<<live, a>>], live' = m, UNCHANGED faults,
               ~Reproduces(live, a, m), GiveUp, current' = Forgotten
        PROVE  Started'
    BY <1>2, <1>5, <1>6, <1>9, ForgottenOK, DropKeeps
  <1>10. CASE /\ a \in Offers(live) /\ Fault /\ live' \in {live} \cup world.step[<<live, a>>]
              /\ GiveUp /\ current' = Forgotten
    BY <1>1, <1>2, <1>6, <1>10, ForgottenOK, DropKeeps
  <1>11. CASE a \in Offers(live) /\ UNCHANGED faults /\
              \E m \in world.step[<<live, a>>] :
                 /\ live' = m
                 /\ IF Reproduces(live, a, m)
                    THEN /\ job' = [job EXCEPT !.at = @ + 1]
                         /\ UNCHANGED <<world, baseline, graph, executed, dropped, pc, current>>
                    ELSE GiveUp /\ current' = Forgotten
    <2>1. PICK m \in world.step[<<live, a>>] :
                 /\ live' = m
                 /\ IF Reproduces(live, a, m)
                    THEN /\ job' = [job EXCEPT !.at = @ + 1]
                         /\ UNCHANGED <<world, baseline, graph, executed, dropped, pc, current>>
                    ELSE GiveUp /\ current' = Forgotten
      BY <1>11
    <2>2. CASE Reproduces(live, a, m)
      BY <1>8, <1>11, <2>1, <2>2 DEF graph
    <2>3. CASE ~Reproduces(live, a, m)
      BY <1>9, <1>11, <2>1, <2>3
    <2> QED BY <2>2, <2>3
  <1> QED BY <1>7, <1>10, <1>11 DEF ReplayStep

\* The end of the trace is the source's state, and its own environment restored.
LEMMA ArriveKeeps == ASSUME Started, Arrive PROVE Started'
  <1>1. /\ GraphInv /\ JobOK /\ live \in Places /\ AtSource /\ CurrentOK /\ faults \in 0 .. MaxFaults /\ world \in Worlds
    BY DEF Started, GraphInv, GraphShape
  <1>2. pc = "replay" /\ pc \in Trying /\ job.at = Len(Source.trace)
    BY DEF Arrive, Trying
  <1>3. /\ Source.trace \in Seq(Actions) /\ Source.env \in Envs /\ (CheckpointAware => Source.id[2] = Source.env)
        /\ Len(Source.trace) < MaxDepth /\ Len(Source.trace) \in Nat
    BY <1>1, <1>2, SourceOK DEF JobOK
  <1>4. Faithful => live \in After(Source.trace)
    BY <1>1, <1>2 DEF AtSource, After
  <1>5. world.steady => Identity(live) = Source.id
    BY <1>2, <1>4, SteadySource DEF Faithful
  <1>6. live = <<live[1], live[2]>> /\ <<live[1], Source.env>> \in Places
    BY <1>1, <1>3, WorldFacts
  <1>7. CASE /\ CheckpointAware => Identity(live) = Source.id
             /\ live' = IF CheckpointAware THEN <<live[1], Source.env>> ELSE live
             /\ current' = Remember(Source.trace, live)
             /\ Goto("candidate") /\ UNCHANGED <<world, faults>>
    <2>1. /\ pc' = "candidate" /\ pc' \in Trying \ {"reuse"} /\ faults' \in {faults, faults + 1} /\ faults' <= MaxFaults
          /\ UNCHANGED <<world, baseline, nodes, transitions, failures, executed, dropped, job>>
      BY <1>1, <1>7 DEF Goto, graph, Trying
    <2>2. Faithful => Identity(live) = Source.id
      BY <1>5, <1>7 DEF Faithful
    <2>3. Faithful => live' = live
      <3>1. CASE CheckpointAware
        <4>1. Identity(live) = <<world.seen[live[1]], live[2]>>
          BY <3>1 DEF Identity
        <4>2. Source.env = live[2]
          BY <1>3, <1>7, <3>1, <4>1
        <4> QED BY <1>6, <1>7, <3>1, <4>2
      <3> QED BY <1>7, <3>1
    <2>4. live' \in Places
      BY <1>1, <1>6, <1>7
    <2>5. CurrentOK'
      <3>1. CASE CheckpointAware
        BY <1>7, <3>1, ForgottenOK DEF Remember
      <3>2. CASE ~CheckpointAware
        <4>1. current' = [known |-> TRUE, trace |-> Source.trace, id |-> Identity(live), offers |-> Offers(live)]
          BY <1>7, <3>2 DEF Remember
        <4>2. current'.known = TRUE /\ current'.trace = Source.trace /\ current'.offers = Offers(live)
          BY <4>1
        <4>3. world.steady => \A l \in After(Source.trace) : l = live
          BY <1>2, <1>4, SteadySource DEF Faithful
        <4>4. /\ \A t : After(t)' = After(t) /\ \A l : Offers(l)' = Offers(l)
              /\ Source' = Source
          BY <2>1, AlongKept DEF Source
        <4>5. Len(Source.trace) <= MaxDepth
          BY <1>3, WorldAssumption
        <4> QED BY <1>3, <2>1, <3>2, <4>2, <4>3, <4>4, <4>5 DEF CurrentOK, CheckpointAware
      <3> QED BY <3>1, <3>2
    <2> QED BY <1>2, <1>4, <2>1, <2>2, <2>3, <2>4, <2>5, MoveKeeps
  <1>8. ASSUME GiveUp, CheckpointAware, UNCHANGED current PROVE CurrentOK'
    BY <1>1, <1>8 DEF CurrentOK, CheckpointAware, GiveUp
  <1>9. CASE CheckpointAware /\ Identity(live) # Source.id /\ GiveUp /\ UNCHANGED <<live, current, faults>>
    BY <1>1, <1>2, <1>5, <1>8, <1>9, DropKeeps
  <1>10. CASE CheckpointAware /\ Fault /\ GiveUp /\ UNCHANGED <<live, current>>
    BY <1>1, <1>2, <1>8, <1>10, DropKeeps
  <1> QED BY <1>7, <1>9, <1>10 DEF Arrive

\* A steady application offers the candidate where it was seen.
LEMMA CandidateKeeps == ASSUME Started, Candidate PROVE Started'
  <1>1. /\ GraphInv /\ live \in Places /\ AtSource /\ CurrentOK /\ faults \in 0 .. MaxFaults
    BY DEF Started
  <1>2. /\ pc = "candidate" /\ pc \in Trying
        /\ UNCHANGED <<world, live, current, faults>>
        /\ IF job.action \in Inventory THEN Goto("execute") ELSE GiveUp
    BY DEF Candidate, app, Trying
  <1>3. Faithful => live \in After(Source.trace) /\ Identity(live) = Source.id
    BY <1>1, <1>2 DEF AtSource
  <1>4. ASSUME UNCHANGED baseline
        PROVE  /\ \A t : After(t)' = After(t) /\ \A l : Offers(l)' = Offers(l)
    BY <1>2, <1>4, AlongKept
  <1>5. CASE Goto("execute")
    <2>1. /\ pc' = "execute" /\ pc' \in Trying \ {"reuse"} /\ faults' \in {faults, faults + 1} /\ faults' <= MaxFaults
          /\ UNCHANGED <<baseline, nodes, transitions, failures, executed, dropped, job>>
      BY <1>1, <1>2, <1>5 DEF Goto, graph, Trying
    <2>2. Source' = Source
      BY <2>1 DEF Source
    <2>3. CurrentOK'
      BY <1>1, <1>2, <1>4, <2>1, <2>2 DEF CurrentOK, CheckpointAware
    <2> QED BY <1>1, <1>2, <1>3, <2>1, <2>3, MoveKeeps
  <1>6. CASE GiveUp /\ job.action \notin Inventory
    <2>1. UNCHANGED baseline /\ pc' = "select"
      BY <1>6 DEF GiveUp
    <2>2. current.known => current.trace = Source.trace
      BY <1>1, <1>2 DEF CurrentOK
    <2>3. CurrentOK'
      BY <1>1, <1>2, <1>3, <1>4, <2>1, <2>2 DEF CurrentOK, CheckpointAware, Faithful
    <2>4. ASSUME world.steady PROVE FALSE
      <3>1. /\ live \in After(Source.trace) /\ Offers(live) = Source.offers /\ job.action \in Source.offers
        BY <1>2, <1>3, <2>4, SteadySource DEF Faithful
      <3>2. current.known => current.offers = Offers(live)
        BY <1>1, <2>2, <2>4, <3>1 DEF CurrentOK
      <3> QED BY <1>6, <3>1, <3>2 DEF Inventory
    <2> QED BY <1>1, <1>2, <1>6, <2>3, <2>4, DropKeeps
  <1> QED BY <1>2, <1>5, <1>6

\* And it is there when it runs.
LEMMA FailKeeps == ASSUME Started, ExecuteFails PROVE Started'
  <1>1. /\ GraphInv /\ live \in Places /\ AtSource /\ world \in Worlds
    BY DEF Started, GraphInv, GraphShape
  <1>2. /\ pc = "execute" /\ pc \in Trying /\ GiveUp /\ current' = Forgotten
        /\ (job.action \notin Offers(live) /\ UNCHANGED faults) \/ Fault
        /\ live' \in {live} \cup (IF job.action \in Offers(live) THEN world.step[<<live, job.action>>] ELSE {})
    BY DEF ExecuteFails, Trying
  <1>3. live' \in Places
    BY <1>1, <1>2, WorldFacts
  <1>4. world.steady => job.action \in Offers(live)
    BY <1>1, <1>2, SteadySource DEF AtSource, Faithful
  <1> QED BY <1>2, <1>3, <1>4, ForgottenOK, DropKeeps

\* The candidate's outcome.
LEMMA ExecuteKeeps == ASSUME Started, Execute PROVE Started'
  <1>1. PICK m : Outcome(m)
    BY ExecuteOutcome
  <1>2. /\ GraphInv /\ JobOK /\ TriedOnce /\ Accounted /\ live \in Places /\ AtSource
        /\ SteadyReplays /\ faults \in 0 .. MaxFaults
    BY DEF Started
  <1>3. GraphInv'
    BY <1>1, <1>2, OutcomeShape, OutcomeNodes, OutcomeFailures, OutcomeReached, OutcomeSteady DEF GraphInv
  <1>4. TriedOnce' /\ Accounted' /\ JobOK' /\ AtSource' /\ CurrentOK' /\ live' \in Places'
    BY <1>1, <1>2, OutcomeAccounted, OutcomePlace
  <1>5. SteadyReplays' /\ pc' \in PCs \ {"init"} /\ faults' \in 0 .. MaxFaults
    BY <1>1, <1>2 DEF Outcome, SteadyReplays, PCs
  <1> QED BY <1>3, <1>4, <1>5 DEF Started

\* A call that throws ends the exploration where it is.
LEMMA ThrowKeeps == ASSUME Started, Throw PROVE Started'
  <1>1. GraphInv /\ live \in Places /\ CurrentOK /\ faults \in 0 .. MaxFaults
    BY DEF Started
  <1>2. /\ pc \in Trying /\ pc' = "thrown" /\ pc' \in Trying \ {"reuse"} /\ faults' = faults + 1 /\ faults < MaxFaults
        /\ UNCHANGED <<world, live, baseline, nodes, transitions, failures, executed, dropped, job, current>>
    BY DEF Throw, Trying, app, graph, Fault
  <1>3. CurrentOK'
    <2>1. \A t : After(t)' = After(t) /\ \A l : Offers(l)' = Offers(l)
      BY <1>2, AlongKept
    <2> QED BY <1>1, <1>2, <2>1 DEF CurrentOK, CheckpointAware
  <1>4. faults' \in {faults, faults + 1} /\ faults' <= MaxFaults
    BY <1>1, <1>2, WorldAssumption
  <1> QED BY <1>1, <1>2, <1>3, <1>4, MoveKeeps

\* Between two iterations the application may change, and the exploration end.
LEMMA BetweenKeeps == ASSUME Started, Late \/ Report PROVE Started'
  <1>1. /\ GraphInv /\ JobOK /\ TriedOnce /\ Accounted /\ live \in Places /\ AtSource /\ CurrentOK /\ SteadyReplays
        /\ faults \in 0 .. MaxFaults /\ world \in Worlds
    BY DEF Started, GraphInv, GraphShape
  <1>2. /\ pc = "select" /\ pc' \in {"select", "report"}
        /\ UNCHANGED <<world, baseline, nodes, transitions, failures, executed, dropped, job, current>>
        /\ (live' \in world.late[live] /\ Fault) \/ UNCHANGED <<live, faults>>
    BY DEF Late, Report, app, graph
  <1>3. /\ \A t : Along(t)' = Along(t) /\ After(t)' = After(t)
        /\ \A l : Offers(l)' = Offers(l)
        /\ Places' = Places
    BY <1>2, AlongKept
  <1>4. GraphInv'
    BY <1>1, <1>2, GraphKept
  <1>5. JobOK' /\ AtSource'
    BY <1>1, <1>2 DEF JobOK, AtSource, Trying
  <1>6. TriedOnce' /\ Accounted'
    BY <1>1, <1>2 DEF TriedOnce, Accounted, Shown, Trying
  <1>7. CurrentOK'
    BY <1>1, <1>2, <1>3 DEF CurrentOK, CheckpointAware
  <1>8. live' \in Places' /\ faults' \in 0 .. MaxFaults
    BY <1>1, <1>2, <1>3, WorldFacts, WorldAssumption DEF Fault
  <1>9. SteadyReplays' /\ pc' \in PCs \ {"init"}
    BY <1>1, <1>2, WorldAssumption DEF SteadyReplays, Fault, PCs
  <1> QED BY <1>4, <1>5, <1>6, <1>7, <1>8, <1>9 DEF Started

-----------------------------------------------------------------------------
\* A report says why the exploration ended.
ReportOK ==
    pc = "report" => Len(transitions) >= MaxTransitions \/ Len(nodes) >= MaxStates \/ Frontier = {}

\* Every step keeps what is known.
LEMMA ExplorerStep == ASSUME ExplorerInv, ReportOK, [ExplorerNext]_vars PROVE ExplorerInv' /\ ReportOK'
  <1>1. CASE UNCHANGED vars
    <2>1. UNCHANGED <<world, live, baseline, nodes, transitions, failures, executed, dropped, pc, job, current, faults>>
      BY <1>1 DEF vars, app, graph
    <2>2. ReportOK'
      BY <2>1 DEF ReportOK, Frontier
    <2>3. Fresh => Fresh'
      BY <2>1 DEF Fresh
    <2>4. ASSUME Started PROVE Started'
      <3>1. GraphInv'
        BY <2>1, <2>4, GraphKept DEF Started
      <3>2. /\ \A t : Along(t)' = Along(t) /\ After(t)' = After(t)
            /\ \A l : Identity(l)' = Identity(l) /\ Offers(l)' = Offers(l)
            /\ Places' = Places /\ Source' = Source /\ Faithful' = Faithful /\ CheckpointAware' = CheckpointAware
        BY <2>1, AlongKept DEF Source, Faithful, CheckpointAware
      <3>3. JobOK' /\ TriedOnce' /\ Accounted'
        BY <2>1, <2>4, <3>2 DEF Started, JobOK, TriedOnce, Accounted, Shown, Edge
      <3>4. AtSource' /\ CurrentOK'
        BY <2>1, <2>4, <3>2 DEF Started, AtSource, CurrentOK
      <3>5. SteadyReplays' /\ pc' \in PCs \ {"init"} /\ faults' \in 0 .. MaxFaults /\ live' \in Places'
        BY <2>1, <2>4, <3>2 DEF Started, SteadyReplays, PCs
      <3> QED BY <3>1, <3>3, <3>4, <3>5 DEF Started
    <2> QED BY <2>2, <2>3, <2>4 DEF ExplorerInv
  <1>2. CASE Begin
    <2>1. Fresh /\ pc' = "select"
      BY <1>2 DEF ExplorerInv, Started, Begin
    <2> QED BY <1>2, <2>1, BeginKeeps DEF ExplorerInv, ReportOK
  <1>3. CASE Iterate \/ Late \/ Report
    <2>1. pc # "init"
      BY <1>3 DEF Iterate, Select, Reuse, Prepare, ReplayStep, Arrive, Candidate, Execute, ExecuteFails, Throw, Late, Report
    <2>2. Started
      BY <2>1 DEF ExplorerInv, Fresh
    <2>3. Started'
      BY <1>3, <2>2, SelectKeeps, ReuseKeeps, PrepareKeeps, ReplayKeeps, ArriveKeeps, CandidateKeeps, ExecuteKeeps,
         FailKeeps, ThrowKeeps, BetweenKeeps DEF Iterate
    <2>4. ReportOK'
      <3>1. CASE Report
        BY <3>1 DEF Report, ReportOK, Frontier, graph
      <3>2. CASE Iterate \/ Late
        <4>1. GiveUp => pc' = "select"
          BY DEF GiveUp
        <4>2. pc' # "report"
          <5>1. CASE Select \/ Late \/ Throw \/ Execute \/ ExecuteFails
            BY <4>1, <5>1 DEF Select, Late, Throw, Execute, ExecuteFails
          <5>2. CASE Reuse \/ Prepare \/ Arrive \/ Candidate
            BY <4>1, <5>2 DEF Reuse, Prepare, PrepareCheckpoint, Arrive, Candidate, Goto
          <5>3. CASE ReplayStep
            BY <4>1, <5>3 DEF ReplayStep
          <5> QED BY <3>2, <5>1, <5>2, <5>3 DEF Iterate
        <4> QED BY <4>2 DEF ReportOK
      <3> QED BY <1>3, <3>1, <3>2
    <2> QED BY <2>3, <2>4 DEF ExplorerInv
  <1> QED BY <1>1, <1>2, <1>3 DEF ExplorerNext

\* The strengthened invariant: the graph is made of paths that lead where they say, every
\* edge is tried once and accounted for, and the application is where the iteration left it.
THEOREM ExplorerKnows == ExplorerSpec => [](ExplorerInv /\ ReportOK)
  <1>1. ExplorerInit => ExplorerInv /\ ReportOK
    BY DEF ExplorerInit, ExplorerInv, Fresh, ReportOK
  <1>2. ExplorerInv /\ ReportOK /\ [ExplorerNext]_vars => (ExplorerInv /\ ReportOK)'
    BY ExplorerStep
  <1> QED BY <1>1, <1>2, PTL DEF ExplorerSpec

\* What the explorer holds is true of the application, whatever it is: the graph is what
\* checkpoints, or a driver that does the same each time, let it reach; a recorded
\* counterexample is a path of it; and a steady driver is never given up on.
THEOREM ExplorationAlwaysTrue == ExplorerSpec => []ExplorationIsTrue
  <1>1. ASSUME ExplorerInv PROVE ExplorerTypeOK
    <2>1. CASE Fresh
      <3>1. Len(<<>>) = 0 /\ world.start \in DOMAIN world.offers
        BY <2>1, WorldFacts DEF Fresh, Places
      <3> QED BY <2>1, <3>1, WorldAssumption DEF Fresh, ExplorerTypeOK, NoJob
    <2>2. CASE Started
      <3>1. /\ world \in Worlds /\ live \in DOMAIN world.offers /\ faults \in 0 .. MaxFaults
            /\ Len(nodes) <= MaxStates /\ Len(transitions) <= MaxTransitions
            /\ pc \in {"init", "select", "report"} \cup Trying
            /\ nodes \in Seq(Nodes) /\ JobOK
            /\ \A i \in DOMAIN nodes : Len(nodes[i].trace) <= MaxDepth
        BY <2>2 DEF Started, GraphInv, GraphShape, PCs, Places
      <3>2. \A i \in DOMAIN nodes : nodes[i].offers \subseteq Actions
        <4>1. \A i \in DOMAIN nodes : nodes[i] \in Nodes
          BY <3>1
        <4> QED BY <4>1 DEF Nodes
      <3>3. CASE pc \in Trying
        <4>1. job.node \in 1 .. Len(nodes)
          BY <3>1, <3>3 DEF JobOK
        <4>2. job.node # 0 /\ job.node \in 0 .. Len(nodes)
          BY <4>1
        <4>3. NoJob.node = 0
          BY DEF NoJob
        <4>4. job # NoJob
          BY <4>2, <4>3
        <4> QED BY <3>1, <3>2, <3>3, <4>2, <4>4 DEF ExplorerTypeOK, Trying
      <3>4. CASE pc \notin Trying
        <4>1. job = NoJob /\ job.node = 0 /\ 0 \in 0 .. Len(nodes)
          BY <3>1, <3>4 DEF JobOK, NoJob
        <4> QED BY <3>1, <3>2, <3>4, <4>1 DEF ExplorerTypeOK, Trying
      <3> QED BY <3>3, <3>4
    <2> QED BY <1>1, <2>1, <2>2 DEF ExplorerInv
  <1>2. ASSUME ExplorerInv, CheckpointAware \/ world.steady PROVE NodesReached /\ TransitionsReal /\ ExecutesAtSource
    <2>1. CASE Fresh
      BY <2>1 DEF Fresh, NodesReached, TransitionsReal, ExecutesAtSource
    <2>2. CASE Started
      BY <1>2, <2>2 DEF Started, GraphInv, Reached, Faithful, AtSource, ExecutesAtSource
    <2> QED BY <1>2, <2>1, <2>2 DEF ExplorerInv
  <1>3. ASSUME ExplorerInv PROVE FailuresReplay
    <2>1. CASE Fresh
      BY <2>1 DEF Fresh, FailuresReplay
    <2>2. ASSUME Started, NEW f \in failures
          PROVE  /\ Len(f.trace) = Len(f.evidence) /\ f.evidence[1].from = nodes[1].id
                 /\ \A k \in 1 .. Len(f.trace) :
                      /\ f.evidence[k].action = f.trace[k]
                      /\ k > 1 => f.evidence[k].from = f.evidence[k - 1].to
                      /\ f.evidence[k] \in ToSet(transitions)
                      /\ k < Len(f.trace) =>
                           [trace |-> SubSeq(f.trace, 1, k), evidence |-> SubSeq(f.evidence, 1, k)] \notin failures
      <3>1. /\ Chained(f) /\ f.trace # <<>> /\ f.trace \in Seq(Actions)
            /\ \A k \in 1 .. Len(f.trace) - 1 : Prefix(f, k) \notin failures
        BY <2>2 DEF Started, GraphInv, GraphShape, FailuresChained, Paths
      <3>2. Len(f.trace) \in Nat /\ 1 \in 1 .. Len(f.trace)
        BY <3>1, EmptySeq
      <3>3. f.evidence[1].from = nodes[1].id /\ Len(f.trace) = Len(f.evidence)
        BY <3>1, <3>2 DEF Chained
      <3>4. ASSUME NEW k \in 1 .. Len(f.trace)
            PROVE  /\ f.evidence[k].action = f.trace[k]
                   /\ k > 1 => f.evidence[k].from = f.evidence[k - 1].to
                   /\ f.evidence[k] \in ToSet(transitions)
        BY <3>1 DEF Chained
      <3>5. ASSUME NEW k \in 1 .. Len(f.trace), k < Len(f.trace)
            PROVE  [trace |-> SubSeq(f.trace, 1, k), evidence |-> SubSeq(f.evidence, 1, k)] \notin failures
        <4>1. k \in 1 .. Len(f.trace) - 1
          BY <3>2, <3>5
        <4> QED BY <3>1, <4>1 DEF Prefix
      <3> QED BY <3>3, <3>4, <3>5
    <2> QED BY <1>3, <2>1, <2>2 DEF ExplorerInv, FailuresReplay
  <1>4. ASSUME ExplorerInv PROVE SteadyReplays
    BY <1>4 DEF ExplorerInv, Fresh, Started, SteadyReplays
  <1>5. ExplorerInv => ExplorationIsTrue
    BY <1>1, <1>2, <1>3, <1>4 DEF ExplorationIsTrue, GraphIsTrue
  <1> QED BY <1>5, ExplorerKnows, PTL

\* The report is honest, whatever failed on the way: an exhausted frontier with no
\* diagnostic is closed under the actions of every state above the depth limit.
THEOREM ReportAlwaysHonest == ExplorerSpec => []HonestReport
  <1>1. ASSUME ExplorerInv, ReportOK PROVE HonestReport
    <2> SUFFICES ASSUME pc = "report" PROVE HonestReport
      BY DEF HonestReport
    <2>1. Started
      BY <1>1 DEF ExplorerInv, Fresh
    <2>2. frontierExhausted \/ truncatedByStateLimit \/ truncatedByTransitionLimit
      BY <1>1 DEF ReportOK, frontierExhausted, truncatedByStateLimit, truncatedByTransitionLimit
    <2>3. ASSUME Frontier = {}, dropped = {}, NEW n \in ToSet(nodes), Len(n.trace) < MaxDepth, NEW a \in n.offers
          PROVE  \E i \in DOMAIN transitions :
                     /\ transitions[i].from = n.id /\ transitions[i].action = a
                     /\ \/ \E k \in ToSet(nodes) : k.id = transitions[i].to
                        \/ \E f \in failures : Last(f.evidence) = transitions[i]
      <3>1. /\ nodes \in Seq(Nodes) /\ Accounted
        BY <2>1 DEF Started, GraphInv, GraphShape
      <3>2. PICK j \in DOMAIN nodes : n = nodes[j]
        BY <2>3 DEF ToSet
      <3>3. nodes[j] \in Nodes
        BY <3>1
      <3>4. a \in Actions
        BY <2>3, <3>2, <3>3 DEF Nodes
      <3>5. <<n.id, a>> \in executed
        <4>1. SUFFICES ASSUME <<n.id, a>> \notin executed PROVE FALSE
          OBVIOUS
        <4> DEFINE e == <<j, a>>
        <4>2. e \in (DOMAIN nodes) \X Actions /\ e[1] = j /\ e[2] = a
          BY <3>4
        <4>3. e \in Frontier
          BY <2>3, <3>2, <4>1, <4>2 DEF Frontier
        <4> QED BY <2>3, <4>3
      <3>6. PICK t \in ToSet(transitions) : <<n.id, a>> = <<t.from, t.action>> /\ Shown(t)
        BY <2>3, <3>1, <3>5 DEF Accounted, Trying
      <3>7. PICK i \in DOMAIN transitions : transitions[i] = t
        BY <3>6 DEF ToSet
      <3> QED BY <3>6, <3>7 DEF Shown
    <2> QED BY <2>2, <2>3 DEF HonestReport, frontierExhausted
  <1> QED BY <1>1, ExplorerKnows, PTL
===============================================================================
