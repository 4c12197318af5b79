--------------------------- MODULE ComponentsProofs ---------------------------
(***************************************************************************)
(* What holds of the findings, the opaque replays, the replays of another  *)
(* mode, the interleavings of contexts and the managed setup, each by      *)
(* itself, and of the first four in the behaviours of MCComponents, which  *)
(* are of one of them: a finding is promoted and shrunk where its replays  *)
(* all agree, an export is a replay of its page, a report of another mode  *)
(* is one of its target trace, what is called one-minimal is, an           *)
(* exploration reports what there is, and what setups promote is verified. *)
(***************************************************************************)
EXTENDS MCComponents, SequenceTheorems, FiniteSetTheorems, WellFoundedInduction, TLAPS

-----------------------------------------------------------------------------
\* A set of natural numbers that is not empty has a smallest.
LEMMA SmallestExists ==
    ASSUME NEW S \in SUBSET Nat, S # {}
    PROVE  \E x \in S : \A y \in S : x <= y
  <1>0. \A x \in S : x \in Nat
    OBVIOUS
  <1> DEFINE less == OpToRel(<, Nat)
  <1>1. PICK x \in S : \A y \in S : ~(<<y, x>> \in less)
    BY NatLessThanWellFounded, WFMin
  <1>2. \A y \in S : <<y, x>> \in less <=> y < x
    BY DEF OpToRel
  <1> HIDE DEF less
  <1>3. ASSUME NEW y \in S PROVE x <= y
    <2>1. ~(y < x)
      BY <1>1, <1>2
    <2> QED BY <1>0, <2>1
  <1> QED BY <1>3

-----------------------------------------------------------------------------
\* Failures that no two share a class: of others the promotion is not just, as the run
\* of OneClass shows.
ClassesDiffer == \A i, j \in Candidate : Class(i) = Class(j) => i = j

\* The failures a campaign has had the time to reproduce.
ReplayedIn(k) == {i \in Candidate : k = 1 \/ k < attempt \/ i < next}

\* What is known of the campaigns, ...
GateInv ==
    /\ FindingTypeOK
    /\ \A k \in DOMAIN runs : ReplayedIn(k) \ fickle \subseteq runs[k]
    /\ pc # "gate" => attempt = Attempts /\ (attempt = 1 \/ next > Len(Failures))
    /\ todo \subseteq {Failures[i].group : i \in Candidate}
\* ... and of the failure that is shrunk.
ShrinkInv ==
    /\ index \in Nat \ {0}
    /\ pc \in {"shrink", "verify", "analysed"} =>
         /\ subject \in Candidate /\ Deterministic(Failures[subject].group)
         /\ trace \in shows
    /\ pc = "verify" /\ subject \notin fickle =>
         \A x \in trace : Cardinality({y \in trace : y < x}) < index - 1 => trace \ {x} \notin shows
    /\ pc = "analysed" /\ minimality = "one-minimal" /\ subject \notin fickle =>
         \A x \in trace : trace \ {x} \notin shows
FindingInv == GateInv /\ ShrinkInv /\ Found \in shows

\* The constants of the findings, typed.
LEMMA CandidateIs ==
    /\ Len(Failures) \in Nat /\ Candidate = 1 .. Len(Failures)
    /\ Attempts \in Nat \ {0} /\ Budget \in Nat \ {0} /\ Length \in Nat \ {0}
  BY FindingAssumption DEF Candidate

\* The invariant of the findings holds as they begin.
LEMMA FindingInvInit == FindingInit => FindingInv
  <1> SUFFICES ASSUME FindingInit PROVE FindingInv
    OBVIOUS
  <1>1. FindingTypeOK
    BY CandidateIs DEF FindingInit, FindingTypeOK, Trace
  <1>2. GateInv
    BY <1>1, CandidateIs DEF FindingInit, GateInv, ReplayedIn
  <1> QED BY <1>2 DEF FindingInit, FindingInv, ShrinkInv

\* While the campaigns run nothing is analysed.
LEMMA CampaignsKeepInv ==
    ASSUME FindingInv, BeginCampaign \/ ReplayCandidate \/ CloseGate
    PROVE  FindingInv'
  <1> USE CandidateIs DEF FindingInv, GateInv, FindingTypeOK, ReplayedIn
  <1>1. CASE BeginCampaign
    <2>0. runs' = Append(runs, {})
      BY <1>1 DEF BeginCampaign
    <2>1. /\ Len(runs') = attempt' /\ DOMAIN runs' = 1 .. attempt + 1
          /\ \A k \in 1 .. attempt : runs'[k] = runs[k]
          /\ runs'[attempt + 1] = {}
      BY <1>1 DEF BeginCampaign
    <2>2. FindingTypeOK'
      BY <1>1, <2>1 DEF BeginCampaign, shrink
    <2>3. GateInv'
      BY <1>1, <2>1, <2>2 DEF BeginCampaign, shrink
    <2> QED BY <1>1, <2>3 DEF BeginCampaign, shrink, ShrinkInv
  <1>2. CASE ReplayCandidate
    <2>1. PICK again \in Outcomes(next, Found) :
             runs' = IF again THEN [runs EXCEPT ![attempt] = @ \cup {next}] ELSE runs
      BY <1>2 DEF ReplayCandidate
    <2>2. Outcomes(next, Found) \subseteq BOOLEAN /\ (next \notin fickle => again)
      BY <2>1 DEF Outcomes
    <2>3. /\ Len(runs') = Len(runs) /\ DOMAIN runs' = 1 .. attempt
          /\ \A k \in 1 .. attempt - 1 : runs'[k] = runs[k]
          /\ runs'[attempt] = runs[attempt] \/ runs'[attempt] = runs[attempt] \cup {next}
          /\ next \notin fickle => next \in runs'[attempt]
      BY <1>2, <2>1, <2>2 DEF ReplayCandidate
    <2>4. FindingTypeOK'
      BY <1>2, <2>3 DEF ReplayCandidate, shrink
    <2>5. ASSUME NEW k \in DOMAIN runs' PROVE ReplayedIn(k)' \ fickle' \subseteq runs'[k]
      <3>1. CASE k # attempt
        BY <1>2, <2>3, <3>1 DEF ReplayCandidate
      <3>2. CASE k = attempt
        <4>1. ReplayedIn(k)' \subseteq ReplayedIn(k) \cup {next}
          BY <1>2, <2>3, <3>2 DEF ReplayCandidate
        <4> QED BY <1>2, <2>3, <3>2, <4>1 DEF ReplayCandidate
      <3> QED BY <3>1, <3>2
    <2>6. GateInv'
      BY <1>2, <2>4, <2>5 DEF ReplayCandidate, shrink
    <2> QED BY <1>2, <2>6 DEF ReplayCandidate, shrink, ShrinkInv, Members, Deterministic
  <1>3. CASE CloseGate
    <2> QED BY <1>3 DEF CloseGate, shrink, gate, ShrinkInv
  <1> QED BY <1>1, <1>2, <1>3

\* The group analysed has a first member, which is one of it.
LEMMA RepresentativeIs ==
    ASSUME NEW g, Members(g) # {}
    PROVE  Representative(g) \in Members(g)
  <1>0. Members(g) \in SUBSET Nat
    BY CandidateIs DEF Members
  <1>1. \E i \in Members(g) : \A j \in Members(g) : i <= j
    BY <1>0, SmallestExists
  <1> QED BY <1>1 DEF Representative

\* When a group is analysed, its representative is what is shrunk.
LEMMA AnalysisKeepsInv ==
    ASSUME FindingInv, Analyse \/ AnalysisDone \/ Analysed
    PROVE  FindingInv'
  <1>1. /\ UNCHANGED <<shows, fickle, gate>>
        /\ pc # "gate" /\ pc' # "gate" /\ todo' \subseteq todo
    BY DEF Analyse, AnalysisDone, Analysed, gate
  <1>2. CASE Analyse
    <2>1. PICK g \in todo :
            \/ UNCHANGED <<pc, shrink>>
            \/ /\ Deterministic(g) /\ pc' = "shrink" /\ subject' = Representative(g)
               /\ trace' = Found /\ evaluations' = 0 /\ index' = 1 /\ minimality' = "none"
      BY <1>2 DEF Analyse
    <2>2. Members(g) # {}
      BY DEF FindingInv, GateInv, Members
    <2>3. Representative(g) \in Candidate /\ Failures[Representative(g)].group = g
      BY <2>2, RepresentativeIs DEF Members
    <2>4. Deterministic(g)' <=> Deterministic(g)
      BY <1>1 DEF Deterministic, StableClasses, Members, gate
    <2>5. FindingTypeOK'
      BY <1>1, <1>2, <2>1, <2>3, CandidateIs DEF FindingInv, GateInv, FindingTypeOK, shrink, gate, Trace, Analyse
    <2>6. GateInv'
      BY <1>1, <2>5, <1>2 DEF FindingInv, GateInv, ReplayedIn, gate, Analyse
    <2>7. CASE UNCHANGED <<pc, shrink>>
      BY <1>1, <1>2, <2>6, <2>7 DEF FindingInv, ShrinkInv, shrink, Analyse
    <2>8. CASE ~UNCHANGED <<pc, shrink>>
      BY <1>1, <1>2, <2>1, <2>3, <2>4, <2>6, <2>8 DEF FindingInv, ShrinkInv
    <2> QED BY <2>7, <2>8
  <1>3. CASE AnalysisDone \/ Analysed
    <2>1. FindingTypeOK'
      BY <1>1, <1>3 DEF FindingInv, GateInv, FindingTypeOK, shrink, gate, AnalysisDone, Analysed
    <2>2. GateInv'
      BY <1>1, <2>1, <1>3 DEF FindingInv, GateInv, ReplayedIn, gate
    <2> QED BY <1>1, <1>3, <2>2 DEF FindingInv, ShrinkInv, shrink, AnalysisDone, Analysed
  <1> QED BY <1>2, <1>3

-----------------------------------------------------------------------------
\* Of the actions kept, how many come before one.
Rank(x) == Cardinality({y \in trace : y < x})

\* It is a number below the length of the trace, and no two have the same.
LEMMA RankIs ==
    ASSUME trace \in Trace
    PROVE  /\ Cardinality(trace) \in Nat
           /\ \A x \in trace : Rank(x) \in Nat /\ Rank(x) < Cardinality(trace)
           /\ \A x, y \in trace : Rank(x) = Rank(y) => x = y
  <1>1. IsFiniteSet(trace) /\ trace \subseteq Int
    <2>1. trace \subseteq 1 .. Length /\ 1 .. Length \subseteq Int /\ 1 \in Int /\ Length \in Int
      BY CandidateIs DEF Trace, Found
    <2>2. IsFiniteSet(1 .. Length)
      BY <2>1, FS_Interval
    <2> QED BY <2>1, <2>2, FS_Subset
  <1>2. ASSUME NEW S \in SUBSET trace, NEW T \in SUBSET S
        PROVE  /\ Cardinality(T) \in Nat /\ Cardinality(S) \in Nat /\ Cardinality(T) <= Cardinality(S)
               /\ S # T => Cardinality(T) < Cardinality(S)
    <2>1. IsFiniteSet(S) /\ IsFiniteSet(T)
      BY <1>1, FS_Subset
    <2>2. Cardinality(T) \in Nat /\ Cardinality(S) \in Nat
      BY <2>1, FS_CardinalityType
    <2>3. Cardinality(T) <= Cardinality(S) /\ (Cardinality(S) = Cardinality(T) => S = T)
      BY <2>1, FS_Subset
    <2> QED BY <2>2, <2>3
  <1>3. ASSUME NEW x \in trace PROVE Rank(x) \in Nat /\ Rank(x) < Cardinality(trace)
    <2>1. {y \in trace : y < x} # trace
      BY <1>1
    <2> QED BY <1>2, <2>1 DEF Rank
  <1>4. ASSUME NEW x \in trace, NEW y \in trace, x < y PROVE Rank(x) < Rank(y)
    <2>1. {z \in trace : z < x} \subseteq {z \in trace : z < y}
      <3> SUFFICES ASSUME NEW z \in trace, z < x PROVE z < y
        OBVIOUS
      <3>1. x \in Int /\ y \in Int /\ z \in Int
        BY <1>1
      <3> QED BY <1>4, <3>1
    <2>2. x \in {z \in trace : z < y} /\ x \notin {z \in trace : z < x}
      BY <1>1, <1>4
    <2> QED BY <1>2, <2>1, <2>2 DEF Rank
  <1>5. ASSUME NEW x \in trace, NEW y \in trace, Rank(x) = Rank(y) PROVE x = y
    <2>1. ~(x < y) /\ ~(y < x)
      BY <1>3, <1>4, <1>5
    <2> QED BY <1>1, <2>1
  <1>6. Cardinality(trace) \in Nat
    BY <1>1, FS_CardinalityType
  <1> QED BY <1>3, <1>5, <1>6

\* What reproduces the finding is among the traces that show it, and of a failure that
\* always reproduces all of them do.
LEMMA OutcomesAre ==
    ASSUME NEW i, NEW t, NEW again \in Outcomes(i, t)
    PROVE  /\ again \in BOOLEAN
           /\ again => t \in shows
           /\ i \notin fickle /\ ~again => t \notin shows
  BY DEF Outcomes

\* A finding that is shrunk, and verified, keeps the invariant.
LEMMA SearchKeepsInv ==
    ASSUME FindingInv, Delete \/ Verify
    PROVE  FindingInv'
  <1>1. UNCHANGED <<shows, fickle, gate, todo>> /\ pc \in {"shrink", "verify"}
    BY DEF Delete, Verify, gate
  <1>2. Without \subseteq trace
    BY DEF Without
  <1>3. subject' = subject /\ pc' \in {"shrink", "verify", "analysed"}
    BY DEF Delete, Verify, Conclude
  <1>4. Deterministic(Failures[subject].group)' <=> Deterministic(Failures[subject].group)
    BY <1>1, <1>3 DEF Deterministic, StableClasses, Members, gate
  <1>5. /\ trace' \in {trace, Without} /\ trace' \in shows
        /\ index' \in {1, index, index + 1}
        /\ evaluations' = evaluations \/ (evaluations' = evaluations + 1 /\ evaluations < Budget)
        /\ minimality' \in {minimality, "one-minimal", "budget-exhausted", "not-one-minimal"}
    <2>1. trace \in shows /\ trace \in Trace /\ evaluations \in 0 .. Budget
      BY <1>1 DEF FindingInv, GateInv, ShrinkInv, FindingTypeOK
    <2>2. CASE Delete
      BY <1>1, <2>1, <2>2, CandidateIs, OutcomesAre DEF Delete, Conclude
    <2>3. CASE Verify
      BY <1>1, <2>1, <2>3, CandidateIs DEF Verify, Conclude
    <2> QED BY <2>2, <2>3
  <1>6. FindingTypeOK'
    BY <1>1, <1>2, <1>3, <1>5, CandidateIs DEF FindingInv, GateInv, FindingTypeOK, Trace, gate
  <1>7. GateInv'
    BY <1>1, <1>3, <1>6 DEF FindingInv, GateInv, ReplayedIn, gate
  <1>8. trace \in Trace /\ index \in Nat \ {0}
    BY DEF FindingInv, GateInv, FindingTypeOK, ShrinkInv
  <1>9. ASSUME pc' = "verify", subject \notin fickle, NEW x \in trace', Rank(x)' < index' - 1
        PROVE  trace' \ {x} \notin shows
    <2>1. CASE Delete
      <3>1. index' = 1 /\ trace' = trace
        BY <1>9, <1>1, <2>1 DEF Delete, Conclude
      <3>2. Rank(x)' = Rank(x) /\ Rank(x) \in Nat
        BY <1>8, <1>9, <3>1, RankIs DEF Rank
      <3> QED BY <1>9, <3>1, <3>2
    <2>2. CASE Verify
      <3>1. PICK again \in Outcomes(subject, Without) :
              pc = "verify" /\ ~again /\ index' = index + 1 /\ trace' = trace
        BY <1>1, <1>9, <2>2, OutcomesAre DEF Verify, Conclude
      <3>2. Without \notin shows
        BY <1>9, <3>1, OutcomesAre
      <3>3. Rank(x)' = Rank(x) /\ Rank(x) \in Nat /\ x \in trace
        BY <1>8, <1>9, <3>1, RankIs DEF Rank
      <3>4. CASE Rank(x) < index - 1
        BY <1>9, <3>1, <3>3, <3>4 DEF FindingInv, ShrinkInv, Rank
      <3>5. CASE Rank(x) = index - 1
        <4>1. Nth \in trace /\ Rank(Nth) = index - 1
          BY <3>3, <3>5 DEF Nth, Rank
        <4>2. Nth = x
          BY <1>8, <3>3, <3>5, <4>1, RankIs
        <4> QED BY <3>1, <3>2, <4>2 DEF Without
      <3> QED BY <1>8, <1>9, <3>1, <3>3, <3>4, <3>5
    <2> QED BY <2>1, <2>2
  <1>10. ASSUME pc' = "analysed", minimality' = "one-minimal", subject \notin fickle, NEW x \in trace'
         PROVE  trace' \ {x} \notin shows
    <2>1. Verify /\ trace' = trace /\ index > Cardinality(trace) /\ pc = "verify"
      BY <1>1, <1>10 DEF Delete, Verify, Conclude
    <2>2. Rank(x) < index - 1
      BY <1>8, <1>10, <2>1, RankIs
    <2> QED BY <1>10, <2>1, <2>2 DEF FindingInv, ShrinkInv, Rank
  <1>11. ShrinkInv'
    BY <1>1, <1>3, <1>4, <1>5, <1>8, <1>9, <1>10 DEF FindingInv, ShrinkInv, Rank
  <1> QED BY <1>1, <1>7, <1>11 DEF FindingInv

\* So does every step.
LEMMA FindingInvStep == FindingInv /\ [FindingNext]_findingVars => FindingInv'
  <1> SUFFICES ASSUME FindingInv, [FindingNext]_findingVars PROVE FindingInv'
    OBVIOUS
  <1>1. CASE UNCHANGED findingVars
    BY <1>1 DEF findingVars, vars, gate, shrink, FindingInv, GateInv, ShrinkInv, FindingTypeOK, ReplayedIn,
                Deterministic, StableClasses, Members
  <1> QED BY <1>1, CampaignsKeepInv, AnalysisKeepsInv, SearchKeepsInv DEF FindingNext

\* What holds of the findings in every state: the gate promotes a failure that always
\* reproduces and none that once did not (web-replay-gate.mjs, where no two failures
\* share a class), only what reproduced in every campaign is shrunk, and a trace called
\* one-minimal is (web-actionable-finding.mjs).
LEMMA FindingInvImplies ==
    ASSUME FindingInv
    PROVE  FindingIsMinimal /\ (ClassesDiffer => PromotionIsJust /\ ShrinksTheStable)
  <1>1. FindingIsMinimal
    BY DEF FindingInv, ShrinkInv, FindingIsMinimal
  <1>2. ASSUME ClassesDiffer, NEW i \in Candidate, Class(i) \in StableClasses, NEW k \in DOMAIN runs
        PROVE  i \in runs[k]
    BY <1>2 DEF ClassesDiffer, StableClasses, FindingInv, GateInv, FindingTypeOK
  <1>3. ASSUME ClassesDiffer PROVE PromotedReproduced
    BY <1>2, <1>3 DEF PromotedReproduced, Promoted
  <1>4. ASSUME pc # "gate", NEW i \in Candidate \ fickle PROVE Class(i) \in StableClasses
    <2>1. ASSUME NEW k \in DOMAIN runs PROVE i \in runs[k]
      <3>1. i \in ReplayedIn(k)
        BY <1>4, CandidateIs DEF FindingInv, GateInv, FindingTypeOK, ReplayedIn
      <3> QED BY <3>1 DEF FindingInv, GateInv
    <2> QED BY <2>1 DEF StableClasses
  <1>5. ASSUME ClassesDiffer PROVE ShrinksTheStable
    <2>1. ASSUME pc \in {"shrink", "verify", "analysed"}, NEW i \in Members(Failures[subject].group),
                 NEW k \in DOMAIN runs
          PROVE  i \in runs[k]
      <3>1. i \in Candidate /\ Class(i) \in StableClasses
        BY <2>1 DEF FindingInv, ShrinkInv, Deterministic, Members
      <3> QED BY <1>2, <1>5, <3>1
    <2> QED BY <2>1 DEF ShrinksTheStable, FindingInv, GateInv
  <1> QED BY <1>1, <1>3, <1>4, <1>5 DEF PromotionIsJust, FirmPromoted

-----------------------------------------------------------------------------
\* A set that holds 0 and with a number the next one holds all of them up to n.
LEMMA CountUp ==
    ASSUME NEW n \in Nat, NEW S, 0 \in S, \A k \in 0 .. n - 1 : k \in S => k + 1 \in S
    PROVE  \A k \in 0 .. n : k \in S
  <1> SUFFICES ASSUME NEW j \in 0 .. n, j \notin S PROVE FALSE
    OBVIOUS
  <1> DEFINE T == {k \in 0 .. n : k \notin S}
  <1>1. T \in SUBSET Nat /\ T # {}
    OBVIOUS
  <1>2. PICK k \in T : \A i \in T : k <= i
    BY <1>1, SmallestExists
  <1>3. k \in 0 .. n /\ k # 0 /\ k \notin S
    BY <1>2
  <1>4. k - 1 \in 0 .. n - 1 /\ k - 1 \in 0 .. n /\ (k - 1) + 1 = k /\ ~(k <= k - 1)
    BY <1>3
  <1>5. k - 1 \in S
    BY <1>2, <1>4
  <1> QED BY <1>3, <1>4, <1>5

-----------------------------------------------------------------------------
\* The runs of an opaque replay are defined, action by action.
OpaqueFirst(pg, e) == [ok |-> TRUE, screen |-> pg.first, environment |-> e, steps |-> <<>>]
AreRuns(f, pg, e, t, n) ==
    f = [k \in 0 .. n |-> IF k = 0 THEN OpaqueFirst(pg, e) ELSE OpaqueStep(pg, f[k - 1], t[k])]

\* They are a function, ...
LEMMA RunsExist == ASSUME NEW pg, NEW e, NEW t, NEW n \in Nat PROVE \E f : AreRuns(f, pg, e, t, n)
  <1> DEFINE S == {k \in 0 .. n : \E f : AreRuns(f, pg, e, t, k)}
  <1>1. 0 \in S
    <2> DEFINE f == [k \in 0 .. 0 |-> OpaqueFirst(pg, e)]
    <2>1. f = [k \in 0 .. 0 |-> IF k = 0 THEN OpaqueFirst(pg, e) ELSE OpaqueStep(pg, f[k - 1], t[k])]
      OBVIOUS
    <2>2. AreRuns(f, pg, e, t, 0)
      BY <2>1 DEF AreRuns
    <2> HIDE DEF f
    <2> QED BY <2>2
  <1>2. ASSUME NEW k \in 0 .. n - 1, k \in S PROVE k + 1 \in S
    <2>1. PICK f : AreRuns(f, pg, e, t, k)
      BY <1>2
    <2> DEFINE w(i) == IF i = 0 THEN OpaqueFirst(pg, e) ELSE OpaqueStep(pg, f[i - 1], t[i])
               g == [i \in 0 .. k + 1 |-> w(i)]
    <2>2. \A i \in 0 .. k : f[i] = g[i]
      BY <2>1 DEF AreRuns
    <2>3. \A i \in 0 .. k + 1 : i # 0 => i - 1 \in 0 .. k
      BY <1>2
    <2> DEFINE h == [i \in 0 .. k + 1 |-> IF i = 0 THEN OpaqueFirst(pg, e) ELSE OpaqueStep(pg, g[i - 1], t[i])]
    <2>4. \A i \in 0 .. k + 1 : g[i] = h[i]
      BY <2>2, <2>3
    <2>5. g = h
      BY <2>4
    <2>6. AreRuns(g, pg, e, t, k + 1)
      BY <2>5 DEF AreRuns
    <2> QED BY <1>2, <2>6
  <1> HIDE DEF S
  <1>3. n \in S
    BY <1>1, <1>2, CountUp
  <1> QED BY <1>3 DEF S

\* ... in which each run goes on from the one before.
LEMMA RunsAre ==
    ASSUME NEW pg, NEW e, NEW t \in Seq(OpaqueActions)
    PROVE  /\ RunsOf(pg, e, t)[0] = OpaqueFirst(pg, e)
           /\ \A k \in 1 .. Len(t) : RunsOf(pg, e, t)[k] = OpaqueStep(pg, RunsOf(pg, e, t)[k - 1], t[k])
  <1>1. Len(t) \in Nat
    OBVIOUS
  <1>2. \E f : AreRuns(f, pg, e, t, Len(t))
    BY <1>1, RunsExist
  <1>3. RunsOf(pg, e, t) = CHOOSE f : AreRuns(f, pg, e, t, Len(t))
    BY DEF RunsOf, AreRuns, OpaqueFirst
  <1>4. AreRuns(RunsOf(pg, e, t), pg, e, t, Len(t))
    BY <1>2, <1>3
  <1> QED BY <1>1, <1>4 DEF AreRuns

\* What a run is, and what it remembers while it is complete: its actions.
Sorts == {"not_observed", "terminal", "unchanged", "changed"}
OpaqueRun(pg) == [ok : BOOLEAN, screen : DOMAIN pg.offers, environment : Environments,
                  steps : Seq(OpaqueActions \X Sorts)]
Remembers(r, t, k) == r.ok => Len(r.steps) = k /\ \A i \in 1 .. k : r.steps[i][1] = t[i]

\* A step makes a run of the page of one, and remembers its action.
LEMMA StepIs ==
    ASSUME NEW pg \in OpaquePages, NEW r \in OpaqueRun(pg), NEW a \in OpaqueActions
    PROVE  /\ OpaqueStep(pg, r, a) \in OpaqueRun(pg)
           /\ OpaqueStep(pg, r, a).ok =>
                /\ r.ok /\ Len(OpaqueStep(pg, r, a).steps) = Len(r.steps) + 1
                /\ OpaqueStep(pg, r, a).steps[Len(r.steps) + 1][1] = a
                /\ \A i \in 1 .. Len(r.steps) : OpaqueStep(pg, r, a).steps[i] = r.steps[i]
  <1>0. /\ r.ok \in BOOLEAN /\ r.screen \in DOMAIN pg.offers /\ r.environment \in Environments
        /\ r.steps \in Seq(OpaqueActions \X Sorts) /\ Len(r.steps) \in Nat
    BY DEF OpaqueRun
  <1>1. CASE ~r.ok
    BY <1>1 DEF OpaqueStep
  <1>2. CASE r.ok /\ a \notin pg.offers[r.screen]
    <2>1. <<a, "not_observed">> \in OpaqueActions \X Sorts
      BY DEF Sorts
    <2>2. Append(r.steps, <<a, "not_observed">>) \in Seq(OpaqueActions \X Sorts)
      BY <1>0, <2>1
    <2>3. OpaqueStep(pg, r, a) = [r EXCEPT !.ok = FALSE, !.steps = Append(r.steps, <<a, "not_observed">>)]
      BY <1>2 DEF OpaqueStep
    <2> HIDE DEF Sorts
    <2> QED BY <2>2, <2>3 DEF OpaqueRun
  <1>3. CASE r.ok /\ a \in pg.offers[r.screen]
    <2> DEFINE leads == pg.step[<<r.screen, r.environment, a>>]
               shown == IF leads[1] \in pg.bare THEN "terminal"
                        ELSE IF leads[1] = r.screen THEN "unchanged" ELSE "changed"
    <2>1. leads \in (DOMAIN pg.offers) \X Environments
      BY <1>0, <1>3, OpaqueAssumption
    <2>2. <<a, shown>> \in OpaqueActions \X Sorts
      BY DEF Sorts
    <2>3. OpaqueStep(pg, r, a) = [ok |-> TRUE, screen |-> leads[1], environment |-> leads[2],
                                  steps |-> Append(r.steps, <<a, shown>>)]
      BY <1>3 DEF OpaqueStep
    <2> HIDE DEF leads, shown
    <2>4. /\ Append(r.steps, <<a, shown>>) \in Seq(OpaqueActions \X Sorts)
          /\ Len(Append(r.steps, <<a, shown>>)) = Len(r.steps) + 1
          /\ Append(r.steps, <<a, shown>>)[Len(r.steps) + 1] = <<a, shown>>
          /\ \A i \in 1 .. Len(r.steps) : Append(r.steps, <<a, shown>>)[i] = r.steps[i]
      BY <1>0, <2>2
    <2>5. leads[1] \in DOMAIN pg.offers /\ leads[2] \in Environments
      BY <2>1
    <2> QED BY <1>3, <2>3, <2>4, <2>5 DEF OpaqueRun
  <1> QED BY <1>0, <1>1, <1>2, <1>3

\* So every run of a replay is one of the page, and remembers what was done, ...
LEMMA RunsTyped ==
    ASSUME NEW pg \in OpaquePages, NEW e \in Environments, NEW t \in Seq(OpaqueActions)
    PROVE  \A k \in 0 .. Len(t) : RunsOf(pg, e, t)[k] \in OpaqueRun(pg) /\ Remembers(RunsOf(pg, e, t)[k], t, k)
  <1> DEFINE R == RunsOf(pg, e, t)
             S == {k \in 0 .. Len(t) : R[k] \in OpaqueRun(pg) /\ Remembers(R[k], t, k)}
  <1>1. Len(t) \in Nat /\ \A k \in 1 .. Len(t) : t[k] \in OpaqueActions
    OBVIOUS
  <1>2. R[0] = OpaqueFirst(pg, e) /\ \A k \in 1 .. Len(t) : R[k] = OpaqueStep(pg, R[k - 1], t[k])
    BY RunsAre
  <1> HIDE DEF R
  <1>3. 0 \in S
    <2>1. OpaqueFirst(pg, e) \in OpaqueRun(pg)
      <3>1. pg.first \in DOMAIN pg.offers
        BY OpaqueAssumption
      <3>2. <<>> \in Seq(OpaqueActions \X Sorts)
        OBVIOUS
      <3> QED BY <3>1, <3>2 DEF OpaqueFirst, OpaqueRun
    <2>2. Remembers(OpaqueFirst(pg, e), t, 0)
      BY DEF Remembers, OpaqueFirst
    <2> QED BY <1>1, <1>2, <2>1, <2>2
  <1>4. ASSUME NEW k \in 0 .. Len(t) - 1, k \in S PROVE k + 1 \in S
    <2>1. k + 1 \in 1 .. Len(t) /\ (k + 1) - 1 = k
      BY <1>1
    <2>2. R[k + 1] = OpaqueStep(pg, R[k], t[k + 1]) /\ t[k + 1] \in OpaqueActions
      BY <1>1, <1>2, <2>1
    <2>3. R[k + 1] \in OpaqueRun(pg)
      BY <1>4, <2>2, StepIs
    <2>4. Remembers(R[k + 1], t, k + 1)
      <3> SUFFICES ASSUME R[k + 1].ok PROVE Len(R[k + 1].steps) = k + 1 /\ \A i \in 1 .. k + 1 : R[k + 1].steps[i][1] = t[i]
        BY DEF Remembers
      <3>0. R[k] \in OpaqueRun(pg) /\ OpaqueStep(pg, R[k], t[k + 1]).ok
        BY <1>4, <2>2
      <3>1. /\ R[k].ok /\ Len(R[k + 1].steps) = Len(R[k].steps) + 1
            /\ R[k + 1].steps[Len(R[k].steps) + 1][1] = t[k + 1]
            /\ \A i \in 1 .. Len(R[k].steps) : R[k + 1].steps[i] = R[k].steps[i]
        BY <2>2, <3>0, StepIs
      <3>2. Len(R[k].steps) = k /\ \A i \in 1 .. k : R[k].steps[i][1] = t[i]
        BY <1>4, <3>1 DEF Remembers
      <3>3. ASSUME NEW i \in 1 .. k + 1 PROVE R[k + 1].steps[i][1] = t[i]
        <4>1. CASE i = k + 1
          BY <3>1, <3>2, <4>1
        <4>2. CASE i \in 1 .. k
          BY <3>1, <3>2, <4>2
        <4> QED BY <1>1, <4>1, <4>2
      <3> QED BY <3>1, <3>2, <3>3
    <2> QED BY <1>1, <2>1, <2>3, <2>4
  <1> HIDE DEF S
  <1>5. \A k \in 0 .. Len(t) : k \in S
    BY <1>1, <1>3, <1>4, CountUp
  <1> QED BY <1>5 DEF S, R

\* ... and so does the replay.
LEMMA ReplayIs ==
    ASSUME NEW pg \in OpaquePages, NEW e \in Environments, NEW t \in Seq(OpaqueActions)
    PROVE  /\ ReplayOpaque(pg, e, t) \in OpaqueRun(pg)
           /\ Remembers(ReplayOpaque(pg, e, t), t, Len(t))
  BY RunsTyped DEF ReplayOpaque

\* Where the page does not touch its environment, it does not matter which one it is.
Same(r, q) == r.ok = q.ok /\ r.screen = q.screen /\ r.steps = q.steps

\* A step does the same in each, ...
LEMMA PureStep ==
    ASSUME NEW pg \in OpaquePages, Pure(pg), NEW r \in OpaqueRun(pg), NEW q \in OpaqueRun(pg), Same(r, q),
           NEW a \in OpaqueActions
    PROVE  Same(OpaqueStep(pg, r, a), OpaqueStep(pg, q, a))
  <1>0. /\ r.screen \in DOMAIN pg.offers /\ r.environment \in Environments
        /\ q.screen \in DOMAIN pg.offers /\ q.environment \in Environments
    BY DEF OpaqueRun
  <1>1. CASE ~r.ok
    BY <1>1 DEF OpaqueStep, Same
  <1>2. CASE r.ok /\ a \notin pg.offers[r.screen]
    BY <1>2 DEF OpaqueStep, Same, OpaqueRun
  <1>3. CASE r.ok /\ a \in pg.offers[r.screen]
    <2> DEFINE x == r.screen
               k == <<r.screen, r.environment, a>>
    <2>1. k \in DOMAIN pg.step
      BY <1>0, <1>3, OpaqueAssumption
    <2>2. pg.step[<<k[1], q.environment, k[3]>>][1] = pg.step[k][1]
      BY <1>0, <2>1 DEF Pure
    <2>3. pg.step[<<q.screen, q.environment, a>>][1] = pg.step[<<r.screen, r.environment, a>>][1]
      BY <2>2 DEF Same
    <2> QED BY <1>3, <2>3 DEF OpaqueStep, Same
  <1> QED BY <1>1, <1>2, <1>3 DEF OpaqueRun

\* ... and so does a replay.
LEMMA PureReplay ==
    ASSUME NEW pg \in OpaquePages, Pure(pg), NEW e \in Environments, NEW d \in Environments,
           NEW t \in Seq(OpaqueActions)
    PROVE  Same(ReplayOpaque(pg, e, t), ReplayOpaque(pg, d, t))
  <1> DEFINE R == RunsOf(pg, e, t)
             Q == RunsOf(pg, d, t)
             S == {k \in 0 .. Len(t) : Same(R[k], Q[k])}
  <1>1. Len(t) \in Nat /\ \A k \in 1 .. Len(t) : t[k] \in OpaqueActions
    OBVIOUS
  <1>2. /\ R[0] = OpaqueFirst(pg, e) /\ \A k \in 1 .. Len(t) : R[k] = OpaqueStep(pg, R[k - 1], t[k])
        /\ Q[0] = OpaqueFirst(pg, d) /\ \A k \in 1 .. Len(t) : Q[k] = OpaqueStep(pg, Q[k - 1], t[k])
        /\ \A k \in 0 .. Len(t) : R[k] \in OpaqueRun(pg) /\ Q[k] \in OpaqueRun(pg)
    BY RunsAre, RunsTyped
  <1>6. ReplayOpaque(pg, e, t) = R[Len(t)] /\ ReplayOpaque(pg, d, t) = Q[Len(t)]
    BY DEF ReplayOpaque
  <1> HIDE DEF R, Q
  <1>3. 0 \in S
    <2>1. Same(OpaqueFirst(pg, e), OpaqueFirst(pg, d))
      BY DEF Same, OpaqueFirst
    <2> QED BY <1>1, <1>2, <2>1
  <1>4. ASSUME NEW k \in 0 .. Len(t) - 1, k \in S PROVE k + 1 \in S
    <2>1. k + 1 \in 1 .. Len(t) /\ (k + 1) - 1 = k /\ k + 1 \in 0 .. Len(t) /\ k \in 0 .. Len(t)
      BY <1>1
    <2>2. R[k + 1] = OpaqueStep(pg, R[k], t[k + 1]) /\ Q[k + 1] = OpaqueStep(pg, Q[k], t[k + 1])
      BY <1>2, <2>1
    <2>3. Same(R[k + 1], Q[k + 1])
      BY <1>1, <1>2, <1>4, <2>1, <2>2, PureStep
    <2> QED BY <2>1, <2>3
  <1> HIDE DEF S
  <1>5. \A k \in 0 .. Len(t) : k \in S
    BY <1>1, <1>3, <1>4, CountUp
  <1> QED BY <1>1, <1>5, <1>6 DEF S

\* The runs of an export, one after the other, each begin in some environment.
AreLater(f, pg, e, t, n) ==
    f = [k \in 1 .. n |-> ReplayOpaque(pg, IF k = 1 THEN e ELSE f[k - 1].environment, t)]

\* They are a function, ...
LEMMA LaterExist == ASSUME NEW pg, NEW e, NEW t, NEW n \in Nat PROVE \E f : AreLater(f, pg, e, t, n)
  <1> DEFINE S == {k \in 0 .. n : \E f : AreLater(f, pg, e, t, k)}
  <1>1. 0 \in S
    <2> DEFINE f == [k \in 1 .. 0 |-> 0]
    <2>1. f = [k \in 1 .. 0 |-> ReplayOpaque(pg, IF k = 1 THEN e ELSE f[k - 1].environment, t)]
      OBVIOUS
    <2>2. AreLater(f, pg, e, t, 0)
      BY <2>1 DEF AreLater
    <2> HIDE DEF f
    <2> QED BY <2>2
  <1>2. ASSUME NEW k \in 0 .. n - 1, k \in S PROVE k + 1 \in S
    <2>1. PICK f : AreLater(f, pg, e, t, k)
      BY <1>2
    <2> DEFINE w(i) == ReplayOpaque(pg, IF i = 1 THEN e ELSE f[i - 1].environment, t)
               g == [i \in 1 .. k + 1 |-> w(i)]
    <2>2. \A i \in 1 .. k : f[i] = g[i]
      BY <2>1 DEF AreLater
    <2>3. \A i \in 1 .. k + 1 : i # 1 => i - 1 \in 1 .. k
      BY <1>2
    <2> DEFINE h == [i \in 1 .. k + 1 |-> ReplayOpaque(pg, IF i = 1 THEN e ELSE g[i - 1].environment, t)]
    <2>4. \A i \in 1 .. k + 1 : g[i] = h[i]
      BY <2>2, <2>3
    <2>5. g = h
      BY <2>4
    <2>6. AreLater(g, pg, e, t, k + 1)
      BY <2>5 DEF AreLater
    <2> QED BY <1>2, <2>6
  <1> HIDE DEF S
  <1>3. n \in S
    BY <1>1, <1>2, CountUp
  <1> QED BY <1>3 DEF S

\* ... of replays, each in some environment, the last of which leaves one.
LEMMA LaterAre ==
    ASSUME NEW pg \in OpaquePages, NEW e \in Environments, NEW t \in Seq(OpaqueActions)
    PROVE  /\ DOMAIN LaterRuns(pg, e, t) = 1 .. FreshAttempts
           /\ \A k \in 1 .. FreshAttempts : \E d \in Environments :
                 LaterRuns(pg, e, t)[k] = ReplayOpaque(pg, d, t)
           /\ LaterRuns(pg, e, t)[FreshAttempts].environment \in Environments
  <1> DEFINE L == LaterRuns(pg, e, t)
             S == {k \in 0 .. FreshAttempts : \A j \in 1 .. k :
                      \E d \in Environments : L[j] = ReplayOpaque(pg, d, t)}
  <1>1. FreshAttempts \in Nat /\ FreshAttempts >= 2
    BY OpaqueAssumption
  <1>2. \E f : AreLater(f, pg, e, t, FreshAttempts)
    BY <1>1, LaterExist
  <1>3. L = CHOOSE f : AreLater(f, pg, e, t, FreshAttempts)
    BY DEF LaterRuns, AreLater
  <1> HIDE DEF L
  <1>4. AreLater(L, pg, e, t, FreshAttempts)
    BY <1>2, <1>3
  <1>5. /\ DOMAIN L = 1 .. FreshAttempts
        /\ \A k \in 1 .. FreshAttempts :
              L[k] = ReplayOpaque(pg, IF k = 1 THEN e ELSE L[k - 1].environment, t)
    BY <1>4 DEF AreLater
  <1>6. 0 \in S
    BY <1>1
  <1>7. ASSUME NEW k \in 0 .. FreshAttempts - 1, k \in S PROVE k + 1 \in S
    <2>1. k + 1 \in 1 .. FreshAttempts /\ (k + 1) - 1 = k
      BY <1>1
    <2>2. (IF k + 1 = 1 THEN e ELSE L[k].environment) \in Environments
      <3>1. CASE k = 0
        BY <3>1
      <3>2. CASE k # 0
        <4>1. PICK d \in Environments : L[k] = ReplayOpaque(pg, d, t)
          BY <1>7, <3>2
        <4>2. L[k].environment \in Environments
          BY <4>1, ReplayIs DEF OpaqueRun
        <4> QED BY <1>1, <3>2, <4>2
      <3> QED BY <3>1, <3>2
    <2>3. L[k + 1] = ReplayOpaque(pg, IF k + 1 = 1 THEN e ELSE L[k].environment, t)
      BY <1>5, <2>1
    <2>4. \A j \in 1 .. k + 1 : j \in 1 .. k \/ j = k + 1
      BY <1>1
    <2> QED BY <1>7, <2>1, <2>2, <2>3, <2>4
  <1> HIDE DEF S
  <1>8. FreshAttempts \in S
    <2>1. \A k \in 0 .. FreshAttempts : k \in S
      BY <1>1, <1>6, <1>7, CountUp
    <2> QED BY <1>1, <2>1
  <1>9. \A k \in 1 .. FreshAttempts : \E d \in Environments : L[k] = ReplayOpaque(pg, d, t)
    BY <1>8 DEF S
  <1>10. L[FreshAttempts].environment \in Environments
    <2>1. PICK d \in Environments : L[FreshAttempts] = ReplayOpaque(pg, d, t)
      BY <1>1, <1>9
    <2> QED BY <2>1, ReplayIs DEF OpaqueRun
  <1> QED BY <1>5, <1>9, <1>10 DEF L

-----------------------------------------------------------------------------
\* Where a replay of the build may begin.
Begins(e) == e \in Environments /\ (checkpoint # "none" => e = checkpoint)

\* A trace that reaches the state wherever a replay begins.
Reaching(t) == \A e \in Environments : Begins(e) => TargetMatches(ReplayOpaque(page, e, t))

\* The deletions tried before the one to come do not.
NoneBefore(n) ==
    Isolated => \A i \in DOMAIN minimized : i < n => ~Reaching(RemoveAt(minimized, i))

OpaqueTyped ==
    /\ page \in OpaquePages /\ peer \in OpaquePages /\ environment \in Environments
    /\ checkpoint \in Environments \cup {"none"}
    /\ request.trace \in Seq(OpaqueActions) /\ minimized \in Seq(OpaqueActions)
    /\ deletion \in Nat \ {0} /\ exhausted \in BOOLEAN /\ oneMinimal \in BOOLEAN
    /\ opaqueAt \in {"target", "delete", "verify", "fresh", "exported", "error"}

\* How far the build is, ...
BuildInv ==
    /\ Isolated => Reaching(request.trace)
    /\ opaqueAt \notin {"target", "error"} /\ Isolated => Reaching(minimized)
    /\ opaqueAt \in {"target", "delete", "verify"} => freshRuns = <<>> /\ ~exhausted /\ ~oneMinimal
    /\ ~(exhausted /\ oneMinimal)
    /\ opaqueAt = "verify" => NoneBefore(deletion)
    /\ oneMinimal => NoneBefore(Len(minimized) + 1)
    /\ Isolated /\ opaqueAt = "error" => Len(minimized) > MaxReplaySteps
\* ... what the fresh runs are, ...
FreshInv ==
    /\ freshRuns \in Seq(OpaqueRun(page)) /\ Len(freshRuns) <= FreshAttempts
    /\ \A k \in DOMAIN freshRuns :
         \E e \in Environments : Begins(e) /\ freshRuns[k] = ReplayOpaque(page, e, minimized)
\* ... and what became of the export.
ExportInv ==
    /\ opaqueAt # "exported" => later = "none"
    /\ opaqueAt = "exported" =>
         /\ Len(freshRuns) = FreshAttempts /\ Agreeing
         /\ later # "observed" => export.steps = freshRuns[1].steps
         /\ export.status = "one-minimal" => oneMinimal /\ later # "observed"
    /\ Pure(page) => later # "diverged" /\ (peer = page => later # "disagreed")
OpaqueInv == OpaqueTyped /\ BuildInv /\ FreshInv /\ ExportInv

\* Where the build is isolated one replay tells of all.
LEMMA ReachingIs ==
    ASSUME OpaqueTyped, Isolated, NEW t \in Seq(OpaqueActions)
    PROVE  Reaches(t) <=> Reaching(t)
  <1>1. Begins(StartsIn) /\ StartsIn \in Environments
    BY DEF OpaqueTyped, StartsIn, Begins
  <1>2. ASSUME NEW e \in Environments, Begins(e)
        PROVE  TargetMatches(ReplayOpaque(page, e, t)) <=> TargetMatches(ReplayOpaque(page, StartsIn, t))
    <2>1. CASE checkpoint # "none"
      BY <1>1, <1>2, <2>1 DEF Begins
    <2>2. CASE checkpoint = "none"
      <3>1. Same(ReplayOpaque(page, e, t), ReplayOpaque(page, StartsIn, t))
        BY <1>1, <2>2, PureReplay DEF Isolated, OpaqueTyped
      <3> QED BY <2>2, <3>1 DEF TargetMatches, Same
    <2> QED BY <2>1, <2>2
  <1> QED BY <1>1, <1>2 DEF Reaches, Reaching, Attempt

\* Nothing of it changes while what the build is given does not.
LEMMA ReachingStays ==
    ASSUME UNCHANGED given
    PROVE  /\ \A t : Reaching(t)' <=> Reaching(t)
           /\ \A e : Begins(e)' <=> Begins(e)
           /\ Isolated' <=> Isolated
           /\ Pure(page)' <=> Pure(page)
           /\ OpaqueRun(page)' = OpaqueRun(page)
           /\ \A r : TargetMatches(r)' <=> TargetMatches(r)
  BY DEF given, Reaching, Begins, Isolated, Pure, TargetMatches, OpaqueRun

\* An attempt while the build goes on is a replay, in an environment it may begin in.
LEMMA AttemptIs ==
    ASSUME OpaqueTyped, NEW t \in Seq(OpaqueActions)
    PROVE  /\ Begins(StartsIn) /\ StartsIn \in Environments
           /\ Attempt(t) = ReplayOpaque(page, StartsIn, t)
           /\ Attempt(t) \in OpaqueRun(page) /\ Attempt(t).environment \in Environments
           /\ Isolated => (TargetMatches(Attempt(t)) <=> Reaching(t))
  <1>1. Begins(StartsIn) /\ StartsIn \in Environments /\ page \in OpaquePages
    BY DEF OpaqueTyped, StartsIn, Begins
  <1>2. Attempt(t) = ReplayOpaque(page, StartsIn, t)
    BY DEF Attempt
  <1>3. Attempt(t) \in OpaqueRun(page)
    BY <1>1, <1>2, ReplayIs
  <1> QED BY <1>1, <1>2, <1>3, ReachingIs DEF Reaches, OpaqueRun

\* The invariant of the opaque replays holds as they begin.
LEMMA OpaqueInvInit == OpaqueInit => OpaqueInv
  <1> SUFFICES ASSUME OpaqueInit PROVE OpaqueInv
    OBVIOUS
  <1>1. PICK t \in OpaqueTraces, budget \in OpaqueBudgets,
             e \in IF checkpoint = "none" THEN Environments ELSE {checkpoint} :
          /\ ReplayOpaque(page, e, t).ok
          /\ request = [trace |-> t, screen |-> ReplayOpaque(page, e, t).screen,
                        environment |-> ReplayOpaque(page, e, t).environment, budget |-> budget]
    BY DEF OpaqueInit
  <1>2. t \in Seq(OpaqueActions) /\ request.trace = t /\ <<>> \in Seq(OpaqueActions)
    BY <1>1, OpaqueAssumption
  <1>3. OpaqueTyped
    <2>1. /\ page \in OpaquePages /\ peer \in OpaquePages /\ environment \in Environments
          /\ checkpoint \in Environments \cup {"none"}
      BY DEF OpaqueInit
    <2>2. minimized = <<>> /\ deletion = 1 /\ exhausted = FALSE /\ oneMinimal = FALSE /\ opaqueAt = "target"
      BY DEF OpaqueInit
    <2>3. exhausted \in BOOLEAN /\ oneMinimal \in BOOLEAN
      BY <2>2
    <2>4. deletion \in Nat \ {0} /\ minimized \in Seq(OpaqueActions)
      BY <1>2, <2>2
    <2>5. request.trace \in Seq(OpaqueActions)
      BY <1>2
    <2> QED BY <2>1, <2>2, <2>3, <2>4, <2>5 DEF OpaqueTyped
  <1>4. Begins(e) /\ e \in Environments
    BY <1>3 DEF Begins, OpaqueTyped
  <1>5. TargetMatches(ReplayOpaque(page, e, t))
    BY <1>1 DEF TargetMatches
  <1>6. ASSUME Isolated PROVE Reaching(request.trace)
    <2> SUFFICES ASSUME NEW d \in Environments, Begins(d)
                 PROVE  TargetMatches(ReplayOpaque(page, d, t))
      BY <1>2 DEF Reaching
    <2>1. CASE checkpoint # "none"
      BY <1>4, <1>5, <2>1 DEF Begins
    <2>2. CASE checkpoint = "none"
      <3>1. Same(ReplayOpaque(page, e, t), ReplayOpaque(page, d, t))
        BY <1>2, <1>3, <1>4, <1>6, <2>2, PureReplay DEF Isolated, OpaqueTyped
      <3> QED BY <1>5, <2>2, <3>1 DEF TargetMatches, Same
    <2> QED BY <2>1, <2>2
  <1>7. BuildInv
    BY <1>6 DEF OpaqueInit, BuildInv
  <1>8. FreshInv
    BY OpaqueAssumption DEF OpaqueInit, FreshInv
  <1>9. ExportInv
    BY DEF OpaqueInit, ExportInv
  <1> QED BY <1>3, <1>7, <1>8, <1>9 DEF OpaqueInv

\* While the trace is shortened, ...
LEMMA SearchStepKeeps ==
    ASSUME OpaqueInv,
           \/ CheckTarget \/ DeleteAction \/ DeletionsEnd
           \/ VerifyDeletion \/ VerificationEnds \/ BudgetEnds
    PROVE  OpaqueInv'
  <1>1. UNCHANGED <<given, freshRuns, export, later>> /\ freshRuns = <<>> /\ later = "none"
        /\ ~exhausted /\ ~oneMinimal
        /\ opaqueAt \in {"target", "delete", "verify"}
        /\ opaqueAt' \in {"delete", "verify", "fresh", "error"}
    BY DEF OpaqueInv, BuildInv, ExportInv, CheckTarget, DeleteAction, DeletionsEnd, VerifyDeletion, VerificationEnds, BudgetEnds
  <1>2. /\ \A t : Reaching(t)' <=> Reaching(t)
        /\ Isolated' <=> Isolated
        /\ Pure(page)' <=> Pure(page)
        /\ OpaqueRun(page)' = OpaqueRun(page)
    BY <1>1, ReachingStays
  <1>3. /\ OpaqueTyped /\ page' = page /\ peer' = peer /\ checkpoint' = checkpoint /\ request' = request
        /\ minimized \in Seq(OpaqueActions) /\ Len(minimized) \in Nat /\ deletion \in Nat \ {0}
        /\ request.trace \in Seq(OpaqueActions) /\ (Isolated => Reaching(request.trace))
    BY <1>1 DEF OpaqueInv, OpaqueTyped, BuildInv, given
  <1>4. FreshInv'
    BY <1>1, <1>2, OpaqueAssumption DEF FreshInv
  <1>5. ExportInv'
    BY <1>1, <1>2, <1>3 DEF ExportInv
  <1>6. deletion <= Len(minimized) => Shorter \in Seq(OpaqueActions)
    BY <1>3 DEF Shorter, RemoveAt
  <1>7. CASE CheckTarget
    <2>1. /\ Attempt(request.trace).environment \in Environments
          /\ Isolated => TargetMatches(Attempt(request.trace))
      BY <1>3, AttemptIs
    <2>2. /\ environment' = Attempt(request.trace).environment /\ minimized' = request.trace
          /\ opaqueAt' = IF TargetMatches(Attempt(request.trace)) THEN "delete" ELSE "error"
          /\ UNCHANGED <<deletion, exhausted, oneMinimal>>
      BY <1>7 DEF CheckTarget, Replayed
    <2>3. OpaqueTyped'
      BY <1>3, <2>1, <2>2 DEF OpaqueTyped
    <2>4. BuildInv'
      BY <1>1, <1>2, <1>3, <2>1, <2>2 DEF BuildInv
    <2> QED BY <1>4, <1>5, <2>3, <2>4 DEF OpaqueInv
  <1>8. CASE DeleteAction
    <2>1. /\ Attempt(Shorter).environment \in Environments
          /\ Isolated => (TargetMatches(Attempt(Shorter)) <=> Reaching(Shorter))
          /\ Shorter \in Seq(OpaqueActions)
      BY <1>3, <1>6, <1>8, AttemptIs DEF DeleteAction
    <2>2. /\ environment' = Attempt(Shorter).environment
          /\ minimized' = (IF TargetMatches(Attempt(Shorter)) THEN Shorter ELSE minimized)
          /\ deletion' \in {1, deletion + 1} /\ opaqueAt = "delete"
          /\ UNCHANGED <<opaqueAt, exhausted, oneMinimal>>
      BY <1>8 DEF DeleteAction, Replayed
    <2>3. OpaqueTyped'
      BY <1>3, <2>1, <2>2 DEF OpaqueTyped
    <2>4. BuildInv'
      BY <1>1, <1>2, <1>3, <2>1, <2>2 DEF OpaqueInv, BuildInv
    <2> QED BY <1>4, <1>5, <2>3, <2>4 DEF OpaqueInv
  <1>9. CASE DeletionsEnd
    <2>1. OpaqueTyped'
      BY <1>3, <1>9 DEF OpaqueTyped, DeletionsEnd
    <2>2. NoneBefore(deletion)'
      BY <1>3, <1>9 DEF NoneBefore, DeletionsEnd
    <2>3. BuildInv'
      BY <1>1, <1>2, <1>3, <1>9, <2>2 DEF OpaqueInv, BuildInv, DeletionsEnd
    <2> QED BY <1>4, <1>5, <2>1, <2>3 DEF OpaqueInv
  <1>10. CASE VerifyDeletion
    <2>1. /\ Attempt(Shorter).environment \in Environments
          /\ Isolated => (TargetMatches(Attempt(Shorter)) <=> Reaching(Shorter))
      BY <1>3, <1>6, <1>10, AttemptIs DEF VerifyDeletion
    <2>2. /\ environment' = Attempt(Shorter).environment
          /\ opaqueAt' = (IF TargetMatches(Attempt(Shorter)) THEN "fresh" ELSE "verify")
          /\ deletion' = deletion + 1 /\ opaqueAt = "verify"
          /\ UNCHANGED <<minimized, exhausted, oneMinimal>>
      BY <1>10 DEF VerifyDeletion, Replayed
    <2>3. OpaqueTyped'
      BY <1>3, <2>1, <2>2 DEF OpaqueTyped
    <2>4. ASSUME opaqueAt' = "verify" PROVE NoneBefore(deletion)'
      <3> SUFFICES ASSUME Isolated, NEW i \in DOMAIN minimized, i < deletion + 1
                   PROVE  ~Reaching(RemoveAt(minimized, i))
        BY <1>2, <2>2 DEF NoneBefore
      <3>1. CASE i < deletion
        BY <2>2, <3>1 DEF OpaqueInv, BuildInv, NoneBefore
      <3>2. CASE i = deletion
        BY <2>1, <2>2, <2>4, <3>2 DEF Shorter
      <3> QED BY <1>3, <3>1, <3>2
    <2>5. BuildInv'
      BY <1>1, <1>2, <1>3, <2>2, <2>4 DEF OpaqueInv, BuildInv
    <2> QED BY <1>4, <1>5, <2>3, <2>5 DEF OpaqueInv
  <1>11. CASE VerificationEnds
    <2>1. OpaqueTyped'
      BY <1>3, <1>11 DEF OpaqueTyped, VerificationEnds
    <2>2. NoneBefore(Len(minimized) + 1)'
      <3>1. NoneBefore(deletion) /\ deletion > Len(minimized) /\ minimized' = minimized
        BY <1>11 DEF OpaqueInv, BuildInv, VerificationEnds
      <3>2. DOMAIN minimized = 1 .. Len(minimized)
        BY <1>3
      <3> QED BY <1>2, <1>3, <3>1, <3>2 DEF NoneBefore
    <2>3. BuildInv'
      BY <1>1, <1>2, <1>3, <1>11, <2>2 DEF OpaqueInv, BuildInv, VerificationEnds
    <2> QED BY <1>4, <1>5, <2>1, <2>3 DEF OpaqueInv
  <1>12. CASE BudgetEnds
    <2>1. OpaqueTyped'
      BY <1>3, <1>12 DEF OpaqueTyped, BudgetEnds
    <2>2. BuildInv'
      BY <1>1, <1>2, <1>3, <1>12 DEF OpaqueInv, BuildInv, BudgetEnds
    <2> QED BY <1>4, <1>5, <2>1, <2>2 DEF OpaqueInv
  <1> QED BY <1>7, <1>8, <1>9, <1>10, <1>11, <1>12

\* What the fresh runs that agree show: the trace, and how it reaches the state.
LEMMA AgreeingIs ==
    ASSUME OpaqueTyped, FreshInv, Len(freshRuns) = FreshAttempts, Agreeing
    PROVE  /\ \E e \in Environments : Begins(e) /\ freshRuns[1] = ReplayOpaque(page, e, minimized)
           /\ freshRuns[1].ok /\ freshRuns[1].screen = request.screen
           /\ minimized = [k \in DOMAIN freshRuns[1].steps |-> freshRuns[1].steps[k][1]]
  <1>1. 1 \in DOMAIN freshRuns
    BY OpaqueAssumption DEF FreshInv
  <1>2. PICK e \in Environments : Begins(e) /\ freshRuns[1] = ReplayOpaque(page, e, minimized)
    BY <1>1 DEF FreshInv
  <1>3. freshRuns[1].ok /\ freshRuns[1].screen = request.screen
    BY <1>1 DEF Agreeing, TargetMatches
  <1>4. freshRuns[1] \in OpaqueRun(page) /\ Remembers(freshRuns[1], minimized, Len(minimized))
    BY <1>2, ReplayIs DEF OpaqueTyped
  <1>5. DOMAIN freshRuns[1].steps = 1 .. Len(minimized)
    BY <1>3, <1>4 DEF Remembers, OpaqueRun
  <1>6. \A k \in 1 .. Len(minimized) : freshRuns[1].steps[k][1] = minimized[k]
    BY <1>3, <1>4 DEF Remembers
  <1>7. minimized = [k \in 1 .. Len(minimized) |-> minimized[k]]
    BY DEF OpaqueTyped
  <1> QED BY <1>2, <1>3, <1>5, <1>6, <1>7

\* Isolated fresh runs agree.
LEMMA IsolatedAgree ==
    ASSUME OpaqueInv, Isolated, opaqueAt = "fresh", Len(freshRuns) = FreshAttempts
    PROVE  Agreeing
  <1>1. Reaching(minimized) /\ page \in OpaquePages /\ minimized \in Seq(OpaqueActions)
    BY DEF OpaqueInv, BuildInv, OpaqueTyped
  <1>2. ASSUME NEW k \in DOMAIN freshRuns PROVE TargetMatches(freshRuns[k])
    BY <1>1 DEF OpaqueInv, FreshInv, Reaching
  <1>3. 1 \in DOMAIN freshRuns
    BY OpaqueAssumption DEF OpaqueInv, FreshInv
  <1>4. ASSUME NEW k \in DOMAIN freshRuns PROVE Projection(freshRuns[k]) = Projection(freshRuns[1])
    <2>1. PICK e \in Environments : Begins(e) /\ freshRuns[k] = ReplayOpaque(page, e, minimized)
      BY DEF OpaqueInv, FreshInv
    <2>2. PICK d \in Environments : Begins(d) /\ freshRuns[1] = ReplayOpaque(page, d, minimized)
      BY <1>3 DEF OpaqueInv, FreshInv
    <2>3. CASE checkpoint # "none"
      BY <2>1, <2>2, <2>3 DEF Begins
    <2>4. CASE checkpoint = "none"
      <3>1. Same(freshRuns[k], freshRuns[1])
        BY <1>1, <2>1, <2>2, <2>4, PureReplay DEF Isolated
      <3> QED BY <2>4, <3>1 DEF Same, Projection
    <2> QED BY <2>3, <2>4
  <1> QED BY <1>2, <1>4 DEF Agreeing

\* ... while it is confirmed and exported, ...
LEMMA FreshStepKeeps ==
    ASSUME OpaqueInv, FreshReplay \/ Export
    PROVE  OpaqueInv'
  <1>1. UNCHANGED <<given, search, later>> /\ opaqueAt = "fresh" /\ later = "none"
        /\ opaqueAt' \in {"fresh", "exported", "error"}
    BY DEF OpaqueInv, ExportInv, FreshReplay, Export
  <1>2. /\ \A t : Reaching(t)' <=> Reaching(t)
        /\ \A e : Begins(e)' <=> Begins(e)
        /\ Isolated' <=> Isolated
        /\ Pure(page)' <=> Pure(page)
        /\ OpaqueRun(page)' = OpaqueRun(page)
        /\ \A run : TargetMatches(run)' <=> TargetMatches(run)
    BY <1>1, ReachingStays
  <1>3. /\ OpaqueTyped /\ page' = page /\ peer' = peer /\ checkpoint' = checkpoint /\ request' = request
        /\ minimized' = minimized /\ deletion' = deletion /\ exhausted' = exhausted /\ oneMinimal' = oneMinimal
        /\ minimized \in Seq(OpaqueActions) /\ Len(minimized) \in Nat /\ FreshInv
    BY <1>1 DEF OpaqueInv, OpaqueTyped, given, search
  <1>4. CASE FreshReplay
    <2> DEFINE run == Attempt(minimized)
    <2>1. /\ run.environment \in Environments /\ run \in OpaqueRun(page)
          /\ Begins(StartsIn) /\ StartsIn \in Environments /\ run = ReplayOpaque(page, StartsIn, minimized)
      BY <1>3, AttemptIs
    <2>2. /\ environment' = run.environment /\ freshRuns' = Append(freshRuns, run)
          /\ Len(freshRuns) < FreshAttempts /\ opaqueAt' = "fresh"
      BY <1>1, <1>4 DEF FreshReplay
    <2> HIDE DEF run
    <2>3. OpaqueTyped'
      BY <1>1, <1>3, <2>1, <2>2 DEF OpaqueTyped
    <2>4. /\ freshRuns' \in Seq(OpaqueRun(page)) /\ Len(freshRuns') = Len(freshRuns) + 1
          /\ \A k \in 1 .. Len(freshRuns) : freshRuns'[k] = freshRuns[k]
          /\ freshRuns'[Len(freshRuns) + 1] = run /\ Len(freshRuns) \in Nat
      BY <1>3, <2>1, <2>2 DEF FreshInv
    <2>5. FreshInv'
      <3>1. ASSUME NEW k \in DOMAIN freshRuns'
            PROVE  \E e \in Environments : Begins(e) /\ freshRuns'[k] = ReplayOpaque(page, e, minimized)
        <4>1. CASE k = Len(freshRuns) + 1
          BY <2>1, <2>4, <4>1
        <4>2. CASE k \in 1 .. Len(freshRuns)
          BY <1>3, <2>4, <4>2 DEF FreshInv
        <4> QED BY <2>4, <4>1, <4>2
      <3>2. Len(freshRuns') <= FreshAttempts
        BY <2>2, <2>4, OpaqueAssumption
      <3> QED BY <1>2, <1>3, <2>4, <3>1, <3>2 DEF FreshInv
    <2>6. BuildInv'
      BY <1>1, <1>2, <1>3, <2>2 DEF OpaqueInv, BuildInv, NoneBefore
    <2>7. ExportInv'
      BY <1>1, <1>2, <1>3, <2>2 DEF ExportInv
    <2> QED BY <2>3, <2>5, <2>6, <2>7 DEF OpaqueInv
  <1>5. CASE Export
    <2>1. UNCHANGED <<environment, freshRuns>> /\ Len(freshRuns) = FreshAttempts
      BY <1>5 DEF Export
    <2>2. OpaqueTyped'
      BY <1>1, <1>3, <2>1 DEF OpaqueTyped
    <2>3. FreshInv'
      BY <1>2, <1>3, <2>1 DEF FreshInv
    <2>4. Agreeing' <=> Agreeing
      BY <1>2, <1>3, <2>1 DEF Agreeing, Projection
    <2>5. ASSUME Isolated, opaqueAt' = "error" PROVE Len(minimized) > MaxReplaySteps
      <3>1. Agreeing
        BY <1>1, <2>1, <2>5, IsolatedAgree
      <3>2. ~ValidReplay(freshRuns[1].steps)
        BY <1>5, <2>5, <3>1 DEF Export
      <3>3. 1 \in DOMAIN freshRuns /\ freshRuns[1].ok
        BY <1>3, <2>1, <3>1, AgreeingIs, OpaqueAssumption DEF FreshInv
      <3>4. PICK e \in Environments : Begins(e) /\ freshRuns[1] = ReplayOpaque(page, e, minimized)
        BY <1>3, <3>3 DEF FreshInv
      <3>5. Len(freshRuns[1].steps) = Len(minimized)
        BY <1>3, <3>3, <3>4, ReplayIs DEF Remembers, OpaqueTyped
      <3> QED BY <1>3, <3>2, <3>5, OpaqueAssumption DEF ValidReplay
    <2>6. BuildInv'
      BY <1>1, <1>2, <1>3, <2>1, <2>5 DEF OpaqueInv, BuildInv, NoneBefore
    <2>7. ExportInv'
      <3>1. CASE opaqueAt' = "exported"
        <4>1. Agreeing /\ export' = [steps |-> freshRuns[1].steps, status |-> Status]
          BY <1>5, <3>1 DEF Export
        <4>2. export'.steps = freshRuns[1].steps /\ (export'.status = "one-minimal" => oneMinimal)
          BY <4>1 DEF Status
        <4> QED BY <1>1, <1>2, <1>3, <2>1, <2>4, <3>1, <4>1, <4>2 DEF ExportInv
      <3>2. CASE opaqueAt' # "exported"
        BY <1>1, <1>2, <3>2 DEF ExportInv
      <3> QED BY <3>1, <3>2
    <2> QED BY <2>2, <2>3, <2>6, <2>7 DEF OpaqueInv
  <1> QED BY <1>4, <1>5

\* ... and after it was.
LEMMA LaterStepKeeps ==
    ASSUME OpaqueInv, ReplayExport \/ ObserveExport
    PROVE  OpaqueInv'
  <1>1. UNCHANGED <<given, search, freshRuns, opaqueAt>> /\ opaqueAt = "exported" /\ later = "none"
    BY DEF ReplayExport, ObserveExport
  <1>2. /\ \A t : Reaching(t)' <=> Reaching(t)
        /\ \A e : Begins(e)' <=> Begins(e)
        /\ Isolated' <=> Isolated
        /\ Pure(page)' <=> Pure(page)
        /\ OpaqueRun(page)' = OpaqueRun(page)
        /\ \A run : TargetMatches(run)' <=> TargetMatches(run)
    BY <1>1, ReachingStays
  <1>3. /\ OpaqueTyped /\ page' = page /\ peer' = peer /\ checkpoint' = checkpoint /\ request' = request
        /\ minimized' = minimized /\ deletion' = deletion /\ exhausted' = exhausted /\ oneMinimal' = oneMinimal
        /\ minimized \in Seq(OpaqueActions) /\ FreshInv /\ page \in OpaquePages /\ peer \in OpaquePages
    BY <1>1 DEF OpaqueInv, OpaqueTyped, given, search
  <1>4. /\ Len(freshRuns) = FreshAttempts /\ Agreeing /\ export.steps = freshRuns[1].steps
        /\ export.status = "one-minimal" => oneMinimal
    BY <1>1 DEF OpaqueInv, ExportInv
  <1>5. ExportedTrace = minimized /\ freshRuns[1].ok
    BY <1>3, <1>4, AgreeingIs DEF ExportedTrace
  <1>6. PICK d \in Environments : Begins(d) /\ freshRuns[1] = ReplayOpaque(page, d, minimized)
    BY <1>3, <1>4, AgreeingIs
  <1>7. FreshInv' /\ BuildInv' /\ (Agreeing' <=> Agreeing)
    BY <1>1, <1>2, <1>3 DEF OpaqueInv, FreshInv, BuildInv, NoneBefore, Agreeing, Projection
  <1>8. \A k \in 1 .. FreshAttempts : k \in 1 .. FreshAttempts
    OBVIOUS
  <1>9. CASE ReplayExport
    <2>1. PICK e \in Environments :
            LET afresh == LaterRuns(page, e, minimized)
            IN /\ environment' = afresh[FreshAttempts].environment /\ export' = export
               /\ later' = IF \A k \in DOMAIN afresh : afresh[k].ok /\ afresh[k].steps = export.steps
                           THEN "replayed" ELSE "diverged"
      BY <1>5, <1>9 DEF ReplayExport
    <2>2. OpaqueTyped'
      BY <1>1, <1>3, <2>1, LaterAre DEF OpaqueTyped
    <2>3. ASSUME Pure(page) PROVE later' = "replayed"
      <3> DEFINE L == LaterRuns(page, e, minimized)
      <3>0. DOMAIN L = 1 .. FreshAttempts /\ \A k \in 1 .. FreshAttempts :
               \E f \in Environments : L[k] = ReplayOpaque(page, f, minimized)
        BY <1>3, LaterAre
      <3>1. ASSUME NEW k \in DOMAIN L PROVE L[k].ok /\ L[k].steps = export.steps
        <4>1. PICK f \in Environments : L[k] = ReplayOpaque(page, f, minimized)
          BY <3>0
        <4>2. Same(ReplayOpaque(page, f, minimized), ReplayOpaque(page, d, minimized))
          BY <1>3, <1>6, <2>3, PureReplay
        <4> QED BY <1>4, <1>5, <1>6, <4>1, <4>2 DEF Same
      <3> QED BY <2>1, <3>1
    <2>4. later' \in {"replayed", "diverged"} /\ export' = export
      BY <2>1
    <2>5. ExportInv'
      BY <1>1, <1>2, <1>3, <1>4, <1>7, <2>3, <2>4 DEF ExportInv
    <2> QED BY <1>7, <2>2, <2>5 DEF OpaqueInv
  <1>10. CASE ObserveExport
    <2>1. PICK e \in Environments :
            LET afresh == LaterRuns(peer, e, minimized)
            IN /\ environment' = afresh[FreshAttempts].environment
               /\ IF \A k \in DOMAIN afresh : afresh[k].ok /\ afresh[k].steps = afresh[1].steps
                  THEN later' = "observed" /\ export' = [steps |-> afresh[1].steps, status |-> "not-one-minimal"]
                  ELSE later' = "disagreed" /\ export' = export
      BY <1>5, <1>10 DEF ObserveExport
    <2>2. OpaqueTyped'
      BY <1>1, <1>3, <2>1, LaterAre DEF OpaqueTyped
    <2>3. ASSUME Pure(page), peer = page PROVE later' = "observed"
      <3> DEFINE L == LaterRuns(peer, e, minimized)
      <3>0. DOMAIN L = 1 .. FreshAttempts /\ \A k \in 1 .. FreshAttempts :
               \E f \in Environments : L[k] = ReplayOpaque(peer, f, minimized)
        BY <1>3, LaterAre
      <3>1. ASSUME NEW k \in DOMAIN L PROVE L[k].ok /\ L[k].steps = freshRuns[1].steps
        <4>1. PICK f \in Environments : L[k] = ReplayOpaque(page, f, minimized)
          BY <2>3, <3>0
        <4>2. Same(ReplayOpaque(page, f, minimized), ReplayOpaque(page, d, minimized))
          BY <1>3, <1>6, <2>3, PureReplay
        <4> QED BY <1>5, <1>6, <4>1, <4>2 DEF Same
      <3>2. 1 \in DOMAIN L
        BY <1>3, LaterAre, OpaqueAssumption
      <3> QED BY <2>1, <3>1, <3>2
    <2>4. \/ later' = "observed" /\ export'.status = "not-one-minimal"
          \/ later' = "disagreed" /\ export' = export
      BY <2>1
    <2>5. ExportInv'
      BY <1>1, <1>2, <1>3, <1>4, <1>7, <2>3, <2>4 DEF ExportInv
    <2> QED BY <1>7, <2>2, <2>5 DEF OpaqueInv
  <1> QED BY <1>9, <1>10

\* So every step keeps the invariant, ...
LEMMA OpaqueInvStep == OpaqueInv /\ [OpaqueNext]_opaqueVars => OpaqueInv'
  <1> SUFFICES ASSUME OpaqueInv, [OpaqueNext]_opaqueVars PROVE OpaqueInv'
    OBVIOUS
  <1>1. CASE UNCHANGED opaqueVars
    <2>1. UNCHANGED <<given, environment, opaqueAt, search, freshRuns, export, later>>
      BY <1>1 DEF opaqueVars
    <2>2. /\ \A t : Reaching(t)' <=> Reaching(t)
          /\ \A e : Begins(e)' <=> Begins(e)
          /\ Isolated' <=> Isolated
          /\ Pure(page)' <=> Pure(page)
          /\ OpaqueRun(page)' = OpaqueRun(page)
          /\ \A run : TargetMatches(run)' <=> TargetMatches(run)
      BY <2>1, ReachingStays
    <2>3. OpaqueTyped' /\ FreshInv'
      BY <2>1, <2>2 DEF OpaqueInv, OpaqueTyped, FreshInv, given, search
    <2>4. BuildInv' /\ ExportInv'
      BY <2>1, <2>2 DEF OpaqueInv, BuildInv, ExportInv, NoneBefore, Agreeing, Projection, given, search
    <2> QED BY <2>3, <2>4 DEF OpaqueInv
  <1> QED BY <1>1, SearchStepKeeps, FreshStepKeeps, LaterStepKeeps DEF OpaqueNext

\* ... from which what is exported is faithful, and one-minimal where it says so.
LEMMA OpaqueInvImplies ==
    ASSUME OpaqueInv
    PROVE  OpaqueFaithful /\ OpaqueMinimal
  <1>1. ASSUME opaqueAt = "exported", later # "observed"
        PROVE  \E e \in Environments :
                 LET run == ReplayOpaque(page, e, ExportedTrace)
                 IN run.ok /\ run.steps = export.steps /\ run.screen = request.screen
    <2>1. /\ Len(freshRuns) = FreshAttempts /\ Agreeing /\ export.steps = freshRuns[1].steps
          /\ OpaqueTyped /\ FreshInv
      BY <1>1 DEF OpaqueInv, ExportInv
    <2>2. ExportedTrace = minimized /\ freshRuns[1].ok /\ freshRuns[1].screen = request.screen
      BY <2>1, AgreeingIs DEF ExportedTrace
    <2>3. PICK e \in Environments : freshRuns[1] = ReplayOpaque(page, e, minimized)
      BY <2>1, AgreeingIs
    <2> QED BY <2>1, <2>2, <2>3
  <1>2. OpaqueFaithful
    BY <1>1 DEF OpaqueInv, BuildInv, ExportInv, OpaqueFaithful
  <1>3. ASSUME opaqueAt = "exported", export.status = "one-minimal"
        PROVE  /\ ~exhausted /\ later # "observed"
               /\ Isolated => Reaches(minimized) /\ \A i \in DOMAIN minimized : ~Reaches(RemoveAt(minimized, i))
    <2>1. oneMinimal /\ later # "observed" /\ ~exhausted
      BY <1>3 DEF OpaqueInv, ExportInv, BuildInv
    <2>2. OpaqueTyped /\ minimized \in Seq(OpaqueActions) /\ DOMAIN minimized = 1 .. Len(minimized) /\ Len(minimized) \in Nat
      BY DEF OpaqueInv, OpaqueTyped
    <2>3. ASSUME Isolated PROVE Reaches(minimized)
      BY <1>3, <2>2, <2>3, ReachingIs DEF OpaqueInv, BuildInv
    <2>4. ASSUME Isolated, NEW i \in DOMAIN minimized PROVE ~Reaches(RemoveAt(minimized, i))
      <3>1. RemoveAt(minimized, i) \in Seq(OpaqueActions)
        BY <2>2 DEF RemoveAt
      <3>2. ~Reaching(RemoveAt(minimized, i))
        BY <2>1, <2>2, <2>4 DEF OpaqueInv, BuildInv, NoneBefore
      <3> QED BY <2>2, <2>4, <3>1, <3>2, ReachingIs
    <2> QED BY <2>1, <2>3, <2>4
  <1> QED BY <1>2, <1>3 DEF OpaqueMinimal

-----------------------------------------------------------------------------
\* A replay by exact ids is defined, action by action, ...
NotShown(x) == [state |-> x, shows |-> FALSE]
AreShown(f, s, x, t, n) ==
    f = [k \in 0 .. n |-> IF k = 0 THEN NotShown(x) ELSE ReplayExactly(s, f[k - 1], t[k])]

\* It is: as a function of the actions done, ...
LEMMA ShownExist == ASSUME NEW s, NEW x, NEW t, NEW n \in Nat PROVE \E f : AreShown(f, s, x, t, n)
  <1> DEFINE S == {k \in 0 .. n : \E f : AreShown(f, s, x, t, k)}
  <1>1. 0 \in S
    <2> DEFINE f == [k \in 0 .. 0 |-> NotShown(x)]
    <2>1. f = [k \in 0 .. 0 |-> IF k = 0 THEN NotShown(x) ELSE ReplayExactly(s, f[k - 1], t[k])]
      OBVIOUS
    <2>2. AreShown(f, s, x, t, 0)
      BY <2>1 DEF AreShown
    <2> HIDE DEF f
    <2> QED BY <2>2
  <1>2. ASSUME NEW k \in 0 .. n - 1, k \in S PROVE k + 1 \in S
    <2>1. PICK f : AreShown(f, s, x, t, k)
      BY <1>2
    <2> DEFINE w(i) == IF i = 0 THEN NotShown(x) ELSE ReplayExactly(s, f[i - 1], t[i])
               g == [i \in 0 .. k + 1 |-> w(i)]
    <2>2. \A i \in 0 .. k : f[i] = g[i]
      BY <2>1 DEF AreShown
    <2>3. \A i \in 0 .. k + 1 : i # 0 => i - 1 \in 0 .. k
      BY <1>2
    <2> DEFINE h == [i \in 0 .. k + 1 |-> IF i = 0 THEN NotShown(x) ELSE ReplayExactly(s, g[i - 1], t[i])]
    <2>4. \A i \in 0 .. k + 1 : g[i] = h[i]
      BY <2>2, <2>3
    <2>5. g = h
      BY <2>4
    <2>6. AreShown(g, s, x, t, k + 1)
      BY <2>5 DEF AreShown
    <2> QED BY <1>2, <2>6
  <1> HIDE DEF S
  <1>3. \A k \in 0 .. n : k \in S
    BY <1>1, <1>2, CountUp
  <1>4. n \in S
    BY <1>3
  <1> QED BY <1>4 DEF S

\* ... in which each result goes on from the one before, ...
LEMMA ShownAre ==
    ASSUME NEW s, NEW x, NEW A, NEW t \in Seq(A)
    PROVE  /\ ShownAlong(s, x, t)[0] = NotShown(x)
           /\ \A k \in 1 .. Len(t) : ShownAlong(s, x, t)[k] = ReplayExactly(s, ShownAlong(s, x, t)[k - 1], t[k])
  <1>1. Len(t) \in Nat
    OBVIOUS
  <1>2. \E f : AreShown(f, s, x, t, Len(t))
    BY <1>1, ShownExist
  <1>3. ShownAlong(s, x, t) = CHOOSE f : AreShown(f, s, x, t, Len(t))
    BY DEF ShownAlong, AreShown, NotShown
  <1>4. AreShown(ShownAlong(s, x, t), s, x, t, Len(t))
    BY <1>2, <1>3
  <1> QED BY <1>1, <1>4 DEF AreShown

\* ... and goes on from where the shorter one ended.
LEMMA ShowsMore ==
    ASSUME NEW s, NEW x, NEW A, NEW t \in Seq(A), NEW id \in A
    PROVE  /\ ShowsFrom(s, x, <<>>) = NotShown(x)
           /\ ShowsFrom(s, x, Append(t, id)) = ReplayExactly(s, ShowsFrom(s, x, t), id)
  <1> DEFINE u == Append(t, id)
             T == ShownAlong(s, x, t)
             U == ShownAlong(s, x, u)
             S == {k \in 0 .. Len(t) : U[k] = T[k]}
  <1>1. u \in Seq(A) /\ Len(u) = Len(t) + 1 /\ Len(t) \in Nat /\ u[Len(t) + 1] = id /\ \A k \in 1 .. Len(t) : u[k] = t[k]
    OBVIOUS
  <1> HIDE DEF u
  <1>2. /\ T[0] = U[0]
        /\ \A k \in 1 .. Len(t) : T[k] = ReplayExactly(s, T[k - 1], t[k])
        /\ \A k \in 1 .. Len(u) : U[k] = ReplayExactly(s, U[k - 1], u[k])
    <2>1. t \in Seq(A) /\ u \in Seq(A)
      BY <1>1
    <2>2. /\ T[0] = NotShown(x)
          /\ \A k \in 1 .. Len(t) : T[k] = ReplayExactly(s, T[k - 1], t[k])
      BY <2>1, ShownAre
    <2>3. /\ U[0] = NotShown(x)
          /\ \A k \in 1 .. Len(u) : U[k] = ReplayExactly(s, U[k - 1], u[k])
      BY <2>1, ShownAre
    <2> QED BY <2>2, <2>3
  <1>3. ShowsFrom(s, x, t) = T[Len(t)] /\ ShowsFrom(s, x, u) = U[Len(u)]
    BY DEF ShowsFrom
  <1>4. ShowsFrom(s, x, <<>>) = NotShown(x)
    <2>1. <<>> \in Seq(A) /\ Len(<<>>) = 0
      OBVIOUS
    <2> QED BY <2>1, ShownAre DEF ShowsFrom
  <1> HIDE DEF T, U
  <1>5. 0 \in S
    BY <1>1, <1>2
  <1>6. ASSUME NEW k \in 0 .. Len(t) - 1, k \in S PROVE k + 1 \in S
    <2>1. k + 1 \in 1 .. Len(t) /\ k + 1 \in 1 .. Len(u) /\ (k + 1) - 1 = k
      BY <1>1
    <2>2. T[k + 1] = ReplayExactly(s, T[k], t[k + 1]) /\ U[k + 1] = ReplayExactly(s, U[k], u[k + 1])
      BY <1>2, <2>1
    <2> QED BY <1>1, <1>6, <2>1, <2>2
  <1> HIDE DEF S
  <1>7. \A k \in 0 .. Len(t) : k \in S
    BY <1>1, <1>5, <1>6, CountUp
  <1>8. U[Len(t)] = T[Len(t)]
    BY <1>1, <1>7 DEF S
  <1>9. Len(u) \in 1 .. Len(u) /\ Len(u) - 1 = Len(t)
    BY <1>1
  <1> QED BY <1>1, <1>2, <1>3, <1>4, <1>8, <1>9 DEF u

-----------------------------------------------------------------------------
\* What the mapping of an action amounts to: an action meant exactly, or if there is
\* none the one whose scopes fit best.
Fits(source, offered, i) == SameComparable(source, offered[i]) /\ ScopeScore(source, offered[i]) > 0
IsExact(source, offered, b) == offered[b] = source /\ \A i \in DOMAIN offered : offered[i] = source => i = b
Best(source, offered, b) ==
    /\ \A i \in DOMAIN offered : offered[i] # source
    /\ Fits(source, offered, b)
    /\ \A i \in DOMAIN offered : Fits(source, offered, i) /\ i # b =>
          ScopeScore(source, offered[i]) < ScopeScore(source, offered[b])
Meant(source, offered, b) ==
    /\ b \in DOMAIN offered /\ source.what # "malformed"
    /\ IsExact(source, offered, b) \/ Best(source, offered, b)

\* A finite set has more than one element when two of its elements differ.
LEMMA ManyIs ==
    ASSUME NEW S, IsFiniteSet(S)
    PROVE  /\ Cardinality(S) > 1 <=> \E x, y \in S : x # y
  <1>1. ASSUME NEW x \in S, NEW y \in S, x # y PROVE Cardinality(S) > 1
    <2>1. IsFiniteSet({x}) /\ Cardinality({x}) = 1
      BY FS_Singleton
    <2>2. {x} \subseteq S /\ {x} # S
      BY <1>1
    <2>3. Cardinality({x}) <= Cardinality(S) /\ Cardinality(S) \in Nat /\ Cardinality({x}) # Cardinality(S)
      BY <2>2, FS_Subset, FS_CardinalityType
    <2> QED BY <2>1, <2>3
  <1>2. ASSUME Cardinality(S) > 1, ~ \E x, y \in S : x # y PROVE FALSE
    <2>1. CASE S = {}
      BY <1>2, <2>1, FS_EmptySet
    <2>2. CASE S # {}
      <3>1. PICK x \in S : TRUE
        BY <2>2
      <3>2. S = {x}
        BY <1>2, <3>1
      <3>3. Cardinality({x}) = 1
        BY FS_Singleton
      <3> QED BY <1>2, <3>2, <3>3
    <2> QED BY <2>1, <2>2
  <1> QED BY <1>1, <1>2

\* How well scopes may fit.
LEMMA ScoreIs == ASSUME NEW a, NEW b PROVE ScopeScore(a, b) \in {0, 10, 30}
  BY DEF ScopeScore

\* It is what is mapped to, if anything is.
LEMMA MapIs ==
    ASSUME NEW A, NEW offered \in Seq(A), NEW source, NEW b
    PROVE  /\ MapStableActionId(source, offered).at # 0 => Meant(source, offered, MapStableActionId(source, offered).at)
           /\ Meant(source, offered, b) => MapStableActionId(source, offered).at = b /\ b # 0
  <1> DEFINE exact == {i \in DOMAIN offered : offered[i] = source}
             fit == {i \in DOMAIN offered : Fits(source, offered, i)}
             top == {i \in fit : \A j \in fit : ScopeScore(source, offered[i]) >= ScopeScore(source, offered[j])}
             m == MapStableActionId(source, offered)
  <1>1. m = IF Cardinality(exact) > 1 THEN [at |-> 0, kind |-> "ambiguous_cross_mode_action"]
            ELSE IF exact # {}
                 THEN IF source.what = "malformed" THEN [at |-> 0, kind |-> "thrown"]
                      ELSE [at |-> CHOOSE i \in exact : TRUE, kind |-> "exact"]
            ELSE IF source.what = "malformed" THEN [at |-> 0, kind |-> "invalid_source_action_id"]
            ELSE IF top = {} THEN [at |-> 0, kind |-> "missing_cross_mode_action"]
            ELSE IF Cardinality(top) > 1 THEN [at |-> 0, kind |-> "ambiguous_cross_mode_action"]
            ELSE [at |-> CHOOSE i \in top : TRUE, kind |-> "relaxed"]
    BY DEF MapStableActionId, Fits
  <1>2. DOMAIN offered = 1 .. Len(offered) /\ Len(offered) \in Nat /\ IsFiniteSet(DOMAIN offered)
    <2>1. DOMAIN offered = 1 .. Len(offered) /\ Len(offered) \in Nat
      OBVIOUS
    <2> QED BY <2>1, FS_Interval
  <1>3. IsFiniteSet(exact) /\ IsFiniteSet(top)
    <2>1. exact \subseteq DOMAIN offered /\ top \subseteq DOMAIN offered
      OBVIOUS
    <2> QED BY <1>2, <2>1, FS_Subset
  <1>4. /\ Cardinality(exact) > 1 <=> \E i, j \in exact : i # j
        /\ Cardinality(top) > 1 <=> \E i, j \in top : i # j
    <2> HIDE DEF exact, top
    <2> QED BY <1>3, ManyIs
  <1>5. ASSUME m.at # 0 PROVE Meant(source, offered, m.at)
    <2>1. source.what # "malformed"
      BY <1>1, <1>5
    <2>2. CASE exact # {}
      <3>1. ~(Cardinality(exact) > 1) /\ m.at \in exact
        BY <1>1, <1>5, <2>1, <2>2
      <3> QED BY <1>4, <2>1, <3>1 DEF Meant, IsExact
    <2>3. CASE exact = {}
      <3>1. ~(Cardinality(exact) > 1)
        BY <1>4, <2>3
      <3>2. ~(Cardinality(top) > 1) /\ m.at \in top
        BY <1>1, <1>5, <2>1, <2>3, <3>1
      <3>3. ASSUME NEW i \in DOMAIN offered, Fits(source, offered, i), i # m.at
            PROVE  ScopeScore(source, offered[i]) < ScopeScore(source, offered[m.at])
        <4>1. i \in fit /\ i \notin top
          BY <1>4, <3>2, <3>3
        <4>2. PICK j \in fit : ~(ScopeScore(source, offered[i]) >= ScopeScore(source, offered[j]))
          BY <4>1
        <4>3. ScopeScore(source, offered[m.at]) >= ScopeScore(source, offered[j])
          BY <3>2
        <4> QED BY <4>2, <4>3, ScoreIs
      <3>4. m.at \in DOMAIN offered /\ Fits(source, offered, m.at)
        BY <3>2
      <3> QED BY <2>1, <2>3, <3>3, <3>4 DEF Meant, Best
    <2> QED BY <2>2, <2>3
  <1>6. ASSUME Meant(source, offered, b) PROVE m.at = b /\ b # 0
    <2>0. b # 0 /\ b \in DOMAIN offered /\ source.what # "malformed"
      BY <1>2, <1>6 DEF Meant
    <2>1. CASE IsExact(source, offered, b)
      <3>1. exact = {b}
        BY <2>0, <2>1 DEF IsExact
      <3>2. ~(Cardinality(exact) > 1) /\ exact # {} /\ (CHOOSE i \in exact : TRUE) = b
        BY <1>4, <3>1
      <3> QED BY <1>1, <2>0, <3>2
    <2>2. CASE Best(source, offered, b)
      <3>1. exact = {} /\ b \in fit
        BY <2>0, <2>2 DEF Best
      <3>2. \A i \in fit : i = b \/ ScopeScore(source, offered[i]) < ScopeScore(source, offered[b])
        BY <2>2 DEF Best
      <3>3. top = {b}
        <4>1. b \in top
          BY <3>1, <3>2, ScoreIs
        <4>2. ASSUME NEW i \in top PROVE i = b
          BY <3>1, <3>2, <4>2, ScoreIs
        <4> QED BY <4>1, <4>2
      <3>4. ~(Cardinality(exact) > 1) /\ ~(Cardinality(top) > 1) /\ top # {} /\ (CHOOSE i \in top : TRUE) = b
        BY <1>4, <3>1, <3>3
      <3> QED BY <1>1, <2>0, <3>1, <3>4
    <2> QED BY <1>6, <2>1, <2>2 DEF Meant
  <1> QED BY <1>5, <1>6

\* Actions of which each is one of those offered, and no two are the same one, ...
PartOf(others, offered, origin) ==
    /\ origin \in [DOMAIN others -> DOMAIN offered]
    /\ \A i \in DOMAIN others : others[i] = offered[origin[i]]
    /\ \A i, j \in DOMAIN others : origin[i] = origin[j] => i = j

\* ... among which an action is mapped to what it was.
LEMMA MapStays ==
    ASSUME NEW A, NEW offered \in Seq(A), NEW others \in Seq(A), NEW source,
           NEW origin, PartOf(others, offered, origin),
           NEW b \in DOMAIN others, MapStableActionId(source, offered).at = origin[b],
           MapStableActionId(source, offered).at # 0
    PROVE  MapStableActionId(source, others).at = b /\ b # 0
  <1> USE DEF PartOf
  <1>1. Meant(source, offered, origin[b])
    BY MapIs
  <1>2. CASE IsExact(source, offered, origin[b])
    <2>1. IsExact(source, others, b)
      BY <1>2 DEF IsExact
    <2> QED BY <1>1, <2>1, MapIs DEF Meant
  <1>3. CASE Best(source, offered, origin[b])
    <2>1. \A i \in DOMAIN others : Fits(source, others, i) <=> Fits(source, offered, origin[i])
      BY DEF Fits
    <2>2. Best(source, others, b)
      BY <1>3, <2>1 DEF Best
    <2> QED BY <1>1, <2>2, MapIs DEF Meant
  <1> QED BY <1>1, <1>2, <1>3 DEF Meant

\* It is mapped to the same without any one of the others, ...
LEMMA FirmWithout ==
    ASSUME NEW A, NEW offered \in Seq(A), NEW source, MapStableActionId(source, offered).at # 0,
           NEW j \in DOMAIN offered \ {MapStableActionId(source, offered).at}
    PROVE  LET again == MapStableActionId(source, RemoveAt(offered, j))
           IN again.at # 0 /\ RemoveAt(offered, j)[again.at] = offered[MapStableActionId(source, offered).at]
  <1> DEFINE b == MapStableActionId(source, offered).at
             others == RemoveAt(offered, j)
             n == Len(offered)
             old == [i \in 1 .. n - 1 |-> IF i < j THEN i ELSE i + 1]
             c == IF b < j THEN b ELSE b - 1
  <1>1. b \in DOMAIN offered
    BY MapIs DEF Meant
  <1>2. n \in Nat /\ DOMAIN offered = 1 .. n /\ j \in 1 .. n /\ b \in 1 .. n /\ j # b
    BY <1>1
  <1> HIDE DEF b
  <1>3. /\ others \in Seq(A) /\ DOMAIN others = 1 .. n - 1
        /\ \A i \in 1 .. n - 1 : others[i] = offered[IF i < j THEN i ELSE i + 1]
    <2>1. /\ SubSeq(offered, 1, j - 1) \in Seq(A) /\ Len(SubSeq(offered, 1, j - 1)) = j - 1
          /\ SubSeq(offered, j + 1, n) \in Seq(A) /\ Len(SubSeq(offered, j + 1, n)) = n - j
          /\ \A i \in 1 .. j - 1 : SubSeq(offered, 1, j - 1)[i] = offered[i]
          /\ \A i \in 1 .. n - j : SubSeq(offered, j + 1, n)[i] = offered[i + j]
      <3>1. (\A i \in 1 .. j - 1 : offered[i] \in A) /\ \A i \in j + 1 .. n : offered[i] \in A
        BY <1>2
      <3>2. 1 \in Int /\ j - 1 \in Int /\ j + 1 \in Int /\ n \in Int
        BY <1>2
      <3>3. /\ SubSeq(offered, 1, j - 1) \in Seq(A)
            /\ Len(SubSeq(offered, 1, j - 1)) = IF 1 <= j - 1 THEN (j - 1) - 1 + 1 ELSE 0
            /\ \A i \in 1 .. (j - 1) - 1 + 1 : SubSeq(offered, 1, j - 1)[i] = offered[1 + i - 1]
        BY <3>1, <3>2, SubSeqProperties
      <3>4. /\ SubSeq(offered, j + 1, n) \in Seq(A)
            /\ Len(SubSeq(offered, j + 1, n)) = IF j + 1 <= n THEN n - (j + 1) + 1 ELSE 0
            /\ \A i \in 1 .. n - (j + 1) + 1 : SubSeq(offered, j + 1, n)[i] = offered[(j + 1) + i - 1]
        BY <3>1, <3>2, SubSeqProperties
      <3> DEFINE u == SubSeq(offered, 1, j - 1)
                 v == SubSeq(offered, j + 1, n)
      <3> HIDE DEF u, v
      <3>5. u \in Seq(A) /\ Len(u) = j - 1 /\ \A i \in 1 .. j - 1 : u[i] = offered[i]
        <4>1. /\ Len(u) = IF 1 <= j - 1 THEN (j - 1) - 1 + 1 ELSE 0
              /\ \A i \in 1 .. (j - 1) - 1 + 1 : u[i] = offered[1 + i - 1]
          BY <3>3 DEF u
        <4>2. \A i \in 1 .. j - 1 : i \in 1 .. (j - 1) - 1 + 1 /\ 1 + i - 1 = i
          BY <1>2
        <4>3. Len(u) = j - 1
          BY <1>2, <4>1
        <4> QED BY <3>3, <4>1, <4>2, <4>3 DEF u
      <3>6. v \in Seq(A) /\ Len(v) = n - j /\ \A i \in 1 .. n - j : v[i] = offered[i + j]
        <4>1. /\ Len(v) = IF j + 1 <= n THEN n - (j + 1) + 1 ELSE 0
              /\ \A i \in 1 .. n - (j + 1) + 1 : v[i] = offered[(j + 1) + i - 1]
          BY <3>4 DEF v
        <4>2. \A i \in 1 .. n - j : i \in 1 .. n - (j + 1) + 1 /\ (j + 1) + i - 1 = i + j
          BY <1>2
        <4>3. Len(v) = n - j
          BY <1>2, <4>1
        <4> QED BY <3>4, <4>1, <4>2, <4>3 DEF v
      <3> QED BY <3>5, <3>6 DEF u, v
    <2>2. others = SubSeq(offered, 1, j - 1) \o SubSeq(offered, j + 1, n)
      BY DEF RemoveAt
    <2> DEFINE u == SubSeq(offered, 1, j - 1)
               v == SubSeq(offered, j + 1, n)
    <2> HIDE DEF u, v, others
    <2>3. /\ others \in Seq(A) /\ DOMAIN others = 1 .. Len(u) + Len(v)
          /\ \A i \in 1 .. Len(u) + Len(v) : others[i] = IF i <= Len(u) THEN u[i] ELSE v[i - Len(u)]
      BY <2>1, <2>2 DEF u, v
    <2>4. /\ Len(u) = j - 1 /\ Len(v) = n - j /\ Len(u) + Len(v) = n - 1
          /\ \A i \in 1 .. j - 1 : u[i] = offered[i]
          /\ \A i \in 1 .. n - j : v[i] = offered[i + j]
      <3>1. Len(u) = j - 1 /\ Len(v) = n - j
        BY <2>1 DEF u, v
      <3>2. /\ \A i \in 1 .. j - 1 : u[i] = offered[i]
            /\ \A i \in 1 .. n - j : v[i] = offered[i + j]
        BY <2>1 DEF u, v
      <3>3. Len(u) + Len(v) = n - 1
        BY <1>2, <3>1
      <3> QED BY <3>1, <3>2, <3>3
    <2>5. ASSUME NEW i \in 1 .. n - 1 PROVE others[i] = offered[IF i < j THEN i ELSE i + 1]
      <3>1. CASE i < j
        BY <1>2, <2>3, <2>4, <3>1
      <3>2. CASE i >= j
        <4>1. i - (j - 1) \in 1 .. n - j /\ (i - (j - 1)) + j = i + 1
          BY <1>2, <3>2
        <4>2. others[i] = v[i - (j - 1)]
          <5>1. i \in 1 .. Len(u) + Len(v) /\ ~(i <= Len(u)) /\ Len(u) = j - 1
            BY <1>2, <2>4, <3>2
          <5> QED BY <2>3, <5>1
        <4>3. v[i - (j - 1)] = offered[(i - (j - 1)) + j]
          BY <2>4, <4>1
        <4>4. (IF i < j THEN i ELSE i + 1) = i + 1
          BY <1>2, <3>2
        <4> QED BY <4>1, <4>2, <4>3, <4>4
      <3> QED BY <1>2, <3>1, <3>2
    <2> QED BY <2>3, <2>4, <2>5
  <1> HIDE DEF others
  <1>4. /\ old \in [DOMAIN others -> DOMAIN offered]
        /\ \A i \in DOMAIN others : others[i] = offered[old[i]]
        /\ \A i, k \in DOMAIN others : old[i] = old[k] => i = k
        /\ c \in DOMAIN others /\ old[c] = b
    <2>1. \A i \in 1 .. n - 1 : (IF i < j THEN i ELSE i + 1) \in 1 .. n
      BY <1>2
    <2>2. \A i, k \in 1 .. n - 1 : old[i] = old[k] => i = k
      BY <1>2
    <2>3. c \in 1 .. n - 1 /\ old[c] = b
      BY <1>2
    <2> QED BY <1>2, <1>3, <2>1, <2>2, <2>3
  <1> HIDE DEF old, c
  <1>5. MapStableActionId(source, others).at = c /\ c # 0
    <2>1. MapStableActionId(source, offered).at = old[c] /\ MapStableActionId(source, offered).at # 0
      BY <1>4 DEF b
    <2>2. others \in Seq(A)
      BY <1>3
    <2>3. PartOf(others, offered, old) /\ c \in DOMAIN others
      BY <1>4 DEF PartOf
    <2> QED BY <2>1, <2>2, <2>3, MapStays
  <1>6. others[c] = offered[b]
    BY <1>4
  <1> QED BY <1>5, <1>6 DEF b, others

\* ... and the other way round.
LEMMA FirmReversed ==
    ASSUME NEW A, NEW offered \in Seq(A), NEW source, MapStableActionId(source, offered).at # 0
    PROVE  LET again == MapStableActionId(source, Reverse(offered))
           IN again.at # 0 /\ Reverse(offered)[again.at] = offered[MapStableActionId(source, offered).at]
  <1> DEFINE b == MapStableActionId(source, offered).at
             others == Reverse(offered)
             n == Len(offered)
             old == [i \in 1 .. n |-> (n - i) + 1]
             c == (n - b) + 1
  <1>1. b \in DOMAIN offered
    BY MapIs DEF Meant
  <1>2. n \in Nat /\ DOMAIN offered = 1 .. n /\ b \in 1 .. n
    BY <1>1
  <1> HIDE DEF b
  <1>3. /\ others \in Seq(A) /\ DOMAIN others = 1 .. n
        /\ \A i \in 1 .. n : others[i] = offered[(n - i) + 1]
    <2>1. others = [i \in 1 .. n |-> offered[(n - i) + 1]]
      BY DEF Reverse
    <2>2. \A i \in 1 .. n : (n - i) + 1 \in 1 .. n
      BY <1>2
    <2>3. others \in [1 .. n -> A]
      BY <1>2, <2>1, <2>2
    <2> QED BY <1>2, <2>1, <2>3, SeqDef
  <1> HIDE DEF others
  <1>4. /\ old \in [DOMAIN others -> DOMAIN offered]
        /\ \A i \in DOMAIN others : others[i] = offered[old[i]]
        /\ \A i, k \in DOMAIN others : old[i] = old[k] => i = k
        /\ c \in DOMAIN others /\ old[c] = b
    BY <1>2, <1>3
  <1> HIDE DEF old, c
  <1>5. MapStableActionId(source, others).at = c /\ c # 0
    <2>1. MapStableActionId(source, offered).at = old[c] /\ MapStableActionId(source, offered).at # 0
      BY <1>4 DEF b
    <2>2. others \in Seq(A)
      BY <1>3
    <2>3. PartOf(others, offered, old) /\ c \in DOMAIN others
      BY <1>4 DEF PartOf
    <2> QED BY <2>1, <2>2, <2>3, MapStays
  <1>6. others[c] = offered[b]
    BY <1>4
  <1> QED BY <1>5, <1>6 DEF b, others

\* A sequence with one element more.
LEMMA AppendIs ==
    ASSUME NEW S, NEW t \in Seq(S), NEW e \in S
    PROVE  /\ Append(t, e) \in Seq(S) /\ Len(Append(t, e)) = Len(t) + 1
           /\ Append(t, e)[Len(t) + 1] = e /\ \A k \in 1 .. Len(t) : Append(t, e)[k] = t[k]
  OBVIOUS

-----------------------------------------------------------------------------
\* An action stands for another: it says the same, and in no other scope.
StandsFor(a, b) == a.what = b.what /\ (a.within = b.within \/ a.within = <<>> \/ b.within = <<>>)

\* What the trace of a round shows from where the round began.
ShownFrom(s, x, t, y, f) ==
    /\ ShowsFrom(s, x, t) \in [state : DOMAIN s.offers, shows : BOOLEAN]
    /\ ShowsFrom(s, x, t).state = y /\ (ShowsFrom(s, x, t).shows <=> f)

SiteIds == UNION {ToSet(site.offers[x]) : x \in DOMAIN site.offers}

CrossTyped ==
    /\ site \in Sites /\ sourceTrace \in SourceTraces
    /\ crossAt \in {"reset", "replay", "judge", "reported", "refused"} /\ round \in {1, 2}
    /\ began \in Seq(DOMAIN site.offers)
RoundInv ==
    /\ crossAt = "reset" => Len(began) = round - 1
    /\ crossAt \in {"replay", "judge", "reported"} =>
         /\ Len(began) = round
         /\ mapped \in Seq(SiteIds) /\ Len(mapped) <= Len(sourceTrace)
         /\ \A k \in DOMAIN mapped : StandsFor(mapped[k], sourceTrace[k])
         /\ shownState \in DOMAIN site.offers
         /\ ShownFrom(site, began[round], mapped, shownState, failed)
    /\ crossAt \in {"judge", "reported"} => round = 2 /\ failed
    /\ round = 2 => Len(began) >= 1 /\ ShownFrom(site, began[1], firstRound[1], firstRound[2], TRUE)
    /\ crossAt = "reported" => firstRound = <<mapped, shownState>>
CrossInv == CrossTyped /\ RoundInv

\* What an action is mapped to stands for it.
LEMMA StandsIs ==
    ASSUME NEW A, NEW offered \in Seq(A), NEW source, MapStableActionId(source, offered).at # 0
    PROVE  /\ MapStableActionId(source, offered).at \in DOMAIN offered
           /\ StandsFor(offered[MapStableActionId(source, offered).at], source)
  <1> DEFINE b == MapStableActionId(source, offered).at
  <1>1. Meant(source, offered, b)
    BY MapIs
  <1> HIDE DEF b
  <1>2. ASSUME IsExact(source, offered, b) PROVE StandsFor(offered[b], source)
    BY <1>2 DEF IsExact, StandsFor
  <1>3. ASSUME Best(source, offered, b) PROVE StandsFor(offered[b], source)
    BY <1>3 DEF Best, Fits, SameComparable, ScopeScore, StandsFor
  <1>4. b \in DOMAIN offered /\ StandsFor(offered[b], source)
    BY <1>1, <1>2, <1>3 DEF Meant
  <1> QED BY <1>4 DEF b

\* A site, typed.
LEMMA SiteIs ==
    ASSUME CrossTyped
    PROVE  /\ site.opens \subseteq DOMAIN site.offers /\ "lost" \notin DOMAIN site.offers
           /\ \A x \in DOMAIN site.offers :
                /\ site.offers[x] \in Seq(SiteIds)
                /\ \A i \in DOMAIN site.offers[x] :
                     /\ site.offers[x][i] \in ToSet(site.offers[x])
                     /\ site.goes[<<x, site.offers[x][i]>>] \in DOMAIN site.offers
           /\ Len(sourceTrace) \in Nat
  <1>1. /\ site.opens \subseteq DOMAIN site.offers /\ "lost" \notin DOMAIN site.offers
        /\ \A x \in DOMAIN site.offers :
             /\ site.offers[x] \in Seq(ToSet(site.offers[x]))
             /\ \A id \in ToSet(site.offers[x]) : site.goes[<<x, id>>] \in DOMAIN site.offers
    BY CrossAssumption DEF CrossTyped
  <1>2. ASSUME NEW x \in DOMAIN site.offers
        PROVE  /\ site.offers[x] \in Seq(SiteIds)
               /\ \A i \in DOMAIN site.offers[x] : site.offers[x][i] \in ToSet(site.offers[x])
    <2>1. ToSet(site.offers[x]) \subseteq SiteIds
      BY DEF SiteIds
    <2>2. site.offers[x] \in Seq(ToSet(site.offers[x]))
      BY <1>1
    <2>3. site.offers[x] \in Seq(SiteIds)
      <3> DEFINE q == site.offers[x]
                 I == ToSet(q)
      <3> HIDE DEF q, I
      <3>1. q \in Seq(I) /\ I \subseteq SiteIds
        BY <2>1, <2>2 DEF q, I
      <3>2. q \in Seq(SiteIds)
        BY <3>1
      <3> QED BY <3>2 DEF q
    <2> QED BY <2>2, <2>3
  <1>3. Len(sourceTrace) \in Nat
    BY CrossAssumption DEF CrossTyped
  <1> QED BY <1>1, <1>2, <1>3

\* The invariant of the replays of another mode holds as they begin, ...
LEMMA CrossInvInit == CrossInit => CrossInv
  <1> SUFFICES ASSUME CrossInit PROVE CrossInv
    OBVIOUS
  <1>1. <<>> \in Seq(DOMAIN site.offers) /\ Len(<<>>) = 0
    OBVIOUS
  <1>2. CrossTyped
    BY <1>1 DEF CrossInit, CrossTyped
  <1> QED BY <1>1, <1>2 DEF CrossInit, CrossInv, RoundInv

\* ... every step keeps it, ...
LEMMA CrossInvStep == CrossInv /\ [CrossNext]_crossVars => CrossInv'
  <1> SUFFICES ASSUME CrossInv, [CrossNext]_crossVars PROVE CrossInv'
    OBVIOUS
  <1>1. site' = site /\ sourceTrace' = sourceTrace /\ SiteIds' = SiteIds
    BY DEF CrossNext, ResetBrowser, MapAndExecute, RoundEnds, JudgeRounds, crossVars, SiteIds
  <1>2. CrossTyped /\ began \in Seq(DOMAIN site.offers) /\ Len(began) \in Nat
    BY DEF CrossInv, CrossTyped
  <1>3. CASE ResetBrowser
    <2>1. crossAt = "reset" /\ Len(began) = round - 1 /\ UNCHANGED <<round, firstRound>>
      BY <1>3 DEF ResetBrowser, CrossInv, RoundInv
    <2>2. CASE lacks # {}
      <3>1. crossAt' = "refused" /\ UNCHANGED began
        BY <1>3, <2>2 DEF ResetBrowser, Refuse
      <3> QED BY <1>1, <1>2, <2>1, <3>1 DEF CrossInv, CrossTyped, RoundInv
    <2>3. CASE lacks = {}
      <3>1. /\ shownState' \in DOMAIN site.offers /\ began' = Append(began, shownState')
            /\ mapped' = <<>> /\ failed' = FALSE /\ crossAt' = "replay"
        BY <1>2, <1>3, <2>3, SiteIs DEF ResetBrowser
      <3>2. /\ began' \in Seq(DOMAIN site.offers) /\ Len(began') = round
            /\ began'[round] = shownState' /\ \A k \in 1 .. round - 1 : began'[k] = began[k]
        <4> DEFINE S == DOMAIN site.offers
        <4>1. began \in Seq(S) /\ shownState' \in S /\ Len(began) = round - 1 /\ round \in {1, 2}
          BY <1>2, <2>1, <3>1 DEF CrossTyped
        <4> HIDE DEF S
        <4>2. /\ began' \in Seq(S) /\ Len(began') = Len(began) + 1 /\ began'[Len(began) + 1] = shownState'
              /\ \A k \in 1 .. Len(began) : began'[k] = began[k]
          BY <3>1, <4>1, AppendIs
        <4> QED BY <4>1, <4>2 DEF S
      <3>3. ShowsFrom(site, shownState', <<>>) = NotShown(shownState')
        <4>1. <<>> \in Seq({0})
          OBVIOUS
        <4> QED BY <4>1, ShowsMore
      <3>4. ShownFrom(site, began'[round], mapped', shownState', failed')
        <4> DEFINE y == shownState'
        <4>1. y \in DOMAIN site.offers /\ began'[round] = y /\ mapped' = <<>> /\ ~failed'
          BY <3>1, <3>2
        <4> HIDE DEF y
        <4>2. /\ NotShown(y) \in [state : DOMAIN site.offers, shows : BOOLEAN]
              /\ NotShown(y).state = y /\ ~NotShown(y).shows
          BY <4>1 DEF NotShown
        <4>3. ShowsFrom(site, y, <<>>) = NotShown(y)
          BY <3>3 DEF y
        <4> QED BY <4>1, <4>2, <4>3 DEF ShownFrom, y
      <3>5. mapped' \in Seq(SiteIds) /\ Len(mapped') = 0 /\ DOMAIN mapped' = {}
        BY <3>1
      <3>6. Len(mapped') <= Len(sourceTrace)
        BY <1>2, <3>5, SiteIs
      <3>7. round = 2 => Len(began') >= 1 /\ ShownFrom(site, began'[1], firstRound[1], firstRound[2], TRUE)
        <4> SUFFICES ASSUME round = 2 PROVE Len(began') >= 1 /\ ShownFrom(site, began'[1], firstRound[1], firstRound[2], TRUE)
          OBVIOUS
        <4>1. ShownFrom(site, began[1], firstRound[1], firstRound[2], TRUE)
          BY DEF CrossInv, RoundInv
        <4>2. Len(began') >= 1 /\ began'[1] = began[1]
          BY <3>2
        <4> QED BY <4>1, <4>2
      <3>8. CrossTyped'
        BY <1>1, <1>2, <2>1, <3>1, <3>2 DEF CrossTyped
      <3>9. RoundInv'
        BY <1>1, <1>2, <2>1, <3>1, <3>2, <3>4, <3>5, <3>6, <3>7 DEF RoundInv
      <3> QED BY <3>8, <3>9 DEF CrossInv
    <2> QED BY <2>2, <2>3
  <1>4. CASE MapAndExecute
    <2> DEFINE offered == site.offers[shownState]
               match == MapStableActionId(sourceTrace[Len(mapped) + 1], offered)
               id == offered[match.at]
    <2>1. crossAt = "replay" /\ Len(mapped) < Len(sourceTrace) /\ UNCHANGED <<round, firstRound, began>>
      BY <1>4 DEF MapAndExecute
    <2>2. /\ Len(began) = round /\ mapped \in Seq(SiteIds) /\ shownState \in DOMAIN site.offers
          /\ \A k \in DOMAIN mapped : StandsFor(mapped[k], sourceTrace[k])
          /\ ShownFrom(site, began[round], mapped, shownState, failed)
      BY <2>1 DEF CrossInv, RoundInv
    <2>3. CASE match.at = 0
      <3>1. crossAt' = "refused" /\ UNCHANGED <<shownState, mapped, failed>>
        BY <1>4, <2>3 DEF MapAndExecute, Refuse
      <3> QED BY <1>1, <1>2, <2>1, <3>1 DEF CrossInv, CrossTyped, RoundInv
    <2>4. CASE match.at # 0
      <3>1. /\ mapped' = Append(mapped, id) /\ shownState' = site.goes[<<shownState, id>>]
            /\ failed' = (failed \/ <<shownState, id>> \in site.fails) /\ crossAt' = crossAt
        BY <1>4, <2>4 DEF MapAndExecute
      <3>2. offered \in Seq(SiteIds)
        BY <1>2, <2>2, SiteIs
      <3>3. match.at \in DOMAIN offered /\ StandsFor(id, sourceTrace[Len(mapped) + 1])
        BY <2>4, <3>2, StandsIs
      <3>4. id \in SiteIds /\ id \in ToSet(offered) /\ shownState' \in DOMAIN site.offers
        <4>1. id \in SiteIds
          <5> HIDE DEF offered, match
          <5> QED BY <3>2, <3>3
        <4>2. id \in ToSet(offered) /\ site.goes[<<shownState, id>>] \in DOMAIN site.offers
          BY <1>2, <2>2, <3>3, SiteIs
        <4> QED BY <3>1, <4>1, <4>2
      <3> HIDE DEF id
      <3>5. /\ mapped' \in Seq(SiteIds) /\ Len(mapped') = Len(mapped) + 1 /\ mapped'[Len(mapped) + 1] = id
            /\ \A k \in 1 .. Len(mapped) : mapped'[k] = mapped[k]
        BY <2>2, <3>1, <3>4
      <3>6. ASSUME NEW k \in DOMAIN mapped' PROVE StandsFor(mapped'[k], sourceTrace[k])
        <4>1. k = Len(mapped) + 1 \/ k \in 1 .. Len(mapped)
          BY <2>2, <3>5
        <4>2. DOMAIN mapped = 1 .. Len(mapped)
          BY <2>2
        <4> QED BY <2>2, <3>3, <3>5, <4>1, <4>2
      <3>7. ShowsFrom(site, began[round], mapped') = ReplayExactly(site, ShowsFrom(site, began[round], mapped), id)
        BY <2>2, <3>1, <3>4, ShowsMore
      <3>8. ShownFrom(site, began[round], mapped', shownState', failed')
        <4> DEFINE r == ShowsFrom(site, began[round], mapped)
        <4>1. r.state = shownState /\ (r.shows <=> failed) /\ shownState # "lost"
          BY <1>2, <2>2, SiteIs DEF ShownFrom
        <4> HIDE DEF r
        <4>2. ReplayExactly(site, r, id) =
                [state |-> site.goes[<<r.state, id>>], shows |-> r.shows \/ <<r.state, id>> \in site.fails]
          BY <3>4, <4>1 DEF ReplayExactly
        <4>4. ReplayExactly(site, r, id) \in [state : DOMAIN site.offers, shows : BOOLEAN]
          <5>1. site.goes[<<r.state, id>>] \in DOMAIN site.offers
            BY <3>1, <3>4, <4>1
          <5>2. (r.shows \/ <<r.state, id>> \in site.fails) \in BOOLEAN
            OBVIOUS
          <5> QED BY <4>2, <5>1, <5>2
        <4>3. /\ ReplayExactly(site, r, id).state = site.goes[<<shownState, id>>]
              /\ ReplayExactly(site, r, id).shows <=> (r.shows \/ <<shownState, id>> \in site.fails)
          <5>1. ReplayExactly(site, r, id).state = site.goes[<<r.state, id>>]
            BY <4>2
          <5>2. ReplayExactly(site, r, id).shows <=> (r.shows \/ <<r.state, id>> \in site.fails)
            <6> DEFINE f == r.shows \/ <<r.state, id>> \in site.fails
                       y == site.goes[<<r.state, id>>]
            <6>1. ReplayExactly(site, r, id) = [state |-> y, shows |-> f]
              BY <4>2
            <6> HIDE DEF f, y
            <6>2. ReplayExactly(site, r, id).shows = f
              BY <6>1
            <6> QED BY <6>2 DEF f
          <5>3. r.state = shownState
            BY <4>1
          <5> QED BY <5>1, <5>2, <5>3
        <4> QED BY <3>1, <3>7, <4>1, <4>3, <4>4 DEF ShownFrom, r
      <3>9. Len(mapped') <= Len(sourceTrace)
        BY <1>2, <2>1, <2>2, <3>5, SiteIs
      <3>10. CrossTyped'
        BY <1>1, <1>2, <2>1, <3>1 DEF CrossTyped
      <3>11. RoundInv'
        BY <1>1, <2>1, <2>2, <3>1, <3>4, <3>5, <3>6, <3>8, <3>9 DEF CrossInv, RoundInv
      <3> QED BY <3>10, <3>11 DEF CrossInv
    <2> QED BY <2>3, <2>4
  <1>5. CASE RoundEnds
    <2>1. crossAt = "replay" /\ UNCHANGED <<shownState, mapped, failed, began>>
      BY <1>5 DEF RoundEnds
    <2>2. CASE ~failed
      <3>1. crossAt' = "refused" /\ UNCHANGED <<round, firstRound>>
        BY <1>5, <2>2 DEF RoundEnds, Refuse
      <3> QED BY <1>1, <1>2, <2>1, <3>1 DEF CrossInv, CrossTyped, RoundInv
    <2>3. CASE failed /\ round = 1
      <3>1. crossAt' = "reset" /\ round' = 2 /\ firstRound' = <<mapped, shownState>>
        BY <1>5, <2>3 DEF RoundEnds
      <3>2. Len(began) = 1 /\ ShownFrom(site, began[1], mapped, shownState, TRUE)
        BY <2>1, <2>3 DEF CrossInv, RoundInv, ShownFrom
      <3>3. firstRound'[1] = mapped /\ firstRound'[2] = shownState
        BY <3>1
      <3>4. ShownFrom(site, began[1], firstRound'[1], firstRound'[2], TRUE)
        BY <3>2, <3>3
      <3>6. CrossTyped'
        BY <1>1, <1>2, <2>1, <3>1 DEF CrossTyped
      <3>7. RoundInv'
        <4>1. Len(began') = 1 /\ round' = 2 /\ crossAt' = "reset" /\ began' = began
          BY <2>1, <3>1, <3>2
        <4>3. (round = 2 => Len(began) >= 1 /\ ShownFrom(site, began[1], firstRound[1], firstRound[2], TRUE))'
          <5>1. site' = site /\ began' = began
            BY <1>1, <4>1
          <5>2. ShownFrom(site', began'[1], firstRound'[1], firstRound'[2], TRUE)
            BY <3>4, <5>1
          <5>3. Len(began') >= 1
            BY <4>1
          <5> QED BY <5>2, <5>3
        <4>4. crossAt' = "reset" => Len(began') = round' - 1
          BY <4>1
        <4> QED BY <4>1, <4>3, <4>4 DEF RoundInv
      <3> QED BY <3>6, <3>7 DEF CrossInv
    <2>4. CASE failed /\ round # 1
      <3>1. crossAt' = "judge" /\ UNCHANGED <<round, firstRound>> /\ round = 2
        BY <1>2, <1>5, <2>4 DEF RoundEnds, CrossTyped
      <3> QED BY <1>1, <1>2, <2>1, <2>4, <3>1 DEF CrossInv, CrossTyped, RoundInv
    <2> QED BY <2>2, <2>3, <2>4
  <1>6. CASE JudgeRounds
    <2>1. crossAt = "judge" /\ UNCHANGED <<round, shownState, mapped, failed, firstRound, began>>
      BY <1>6 DEF JudgeRounds
    <2>2. crossAt' = "refused" \/ (crossAt' = "reported" /\ firstRound = <<mapped, shownState>>)
      BY <1>6 DEF JudgeRounds, Refuse
    <2> QED BY <1>1, <1>2, <2>1, <2>2 DEF CrossInv, CrossTyped, RoundInv
  <1>7. CASE UNCHANGED crossVars
    BY <1>1, <1>2, <1>7 DEF crossVars, CrossInv, CrossTyped, RoundInv
  <1> QED BY <1>3, <1>4, <1>5, <1>6, <1>7 DEF CrossNext

\* ... and from it the target trace stands and the mapping is firm.
LEMMA CrossInvImplies ==
    ASSUME CrossInv
    PROVE  CrossModeStands
  <1>0. CrossTyped
    BY DEF CrossInv
  <1>1. TargetTraceStands
    <2> SUFFICES ASSUME crossAt = "reported" PROVE
            /\ Len(began) = 2
            /\ \A k \in DOMAIN began : ShowsFrom(site, began[k], mapped) = [state |-> shownState, shows |-> TRUE]
            /\ \A k \in DOMAIN mapped :
                 LET scopes == {mapped[k].within, sourceTrace[k].within} \ {<<>>}
                 IN mapped[k].what = sourceTrace[k].what /\ Cardinality(scopes) <= 1
      BY DEF TargetTraceStands
    <2>1. /\ firstRound = <<mapped, shownState>> /\ round = 2 /\ failed /\ Len(began) = 2
          /\ DOMAIN began = 1 .. 2
          /\ ShownFrom(site, began[1], firstRound[1], firstRound[2], TRUE) /\ ShownFrom(site, began[round], mapped, shownState, failed)
      <3>1. /\ firstRound = <<mapped, shownState>> /\ round = 2 /\ failed /\ Len(began) = round
            /\ ShownFrom(site, began[round], mapped, shownState, failed)
        BY DEF CrossInv, RoundInv
      <3>2. ShownFrom(site, began[1], firstRound[1], firstRound[2], TRUE)
        BY <3>1 DEF CrossInv, RoundInv
      <3>3. DOMAIN began = 1 .. Len(began)
        BY <1>0 DEF CrossTyped
      <3> QED BY <3>1, <3>2, <3>3
    <2>2. /\ firstRound[1] = mapped /\ firstRound[2] = shownState
          /\ \A k \in DOMAIN began : ShownFrom(site, began[k], mapped, shownState, TRUE)
      BY <2>1 DEF ShownFrom
    <2>3. ASSUME NEW k \in DOMAIN began
          PROVE  ShowsFrom(site, began[k], mapped) = [state |-> shownState, shows |-> TRUE]
      <3> DEFINE r == ShowsFrom(site, began[k], mapped)
      <3>1. r \in [state : DOMAIN site.offers, shows : BOOLEAN] /\ r.state = shownState /\ r.shows
        BY <2>2 DEF ShownFrom
      <3> HIDE DEF r
      <3>2. r = [state |-> shownState, shows |-> TRUE]
        BY <3>1
      <3> QED BY <3>2 DEF r
    <2>4. ASSUME NEW k \in DOMAIN mapped
          PROVE  LET scopes == {mapped[k].within, sourceTrace[k].within} \ {<<>>}
                 IN mapped[k].what = sourceTrace[k].what /\ Cardinality(scopes) <= 1
      <3> DEFINE a == mapped[k].within
                 b == sourceTrace[k].within
                 scopes == {a, b} \ {<<>>}
      <3>1. mapped[k].what = sourceTrace[k].what /\ (a = b \/ a = <<>> \/ b = <<>>)
        BY DEF CrossInv, RoundInv, StandsFor
      <3>2. IsFiniteSet({a, b})
        <4>1. IsFiniteSet({a}) /\ {a, b} = {a} \cup {b}
          BY FS_Singleton
        <4> QED BY <4>1, FS_AddElement
      <3>3. IsFiniteSet(scopes) /\ ~ \E x, y \in scopes : x # y
        BY <3>1, <3>2, FS_Subset
      <3> HIDE DEF scopes
      <3>4. ~(Cardinality(scopes) > 1) /\ Cardinality(scopes) \in Nat
        BY <3>3, ManyIs, FS_CardinalityType
      <3> QED BY <3>1, <3>4 DEF scopes
    <2> QED BY <2>1, <2>3, <2>4
  <1>2. MappingIsFirm
    <2> DEFINE offered == site.offers[shownState]
               source == sourceTrace[Len(mapped) + 1]
               match == MapStableActionId(source, offered)
    <2> SUFFICES ASSUME crossAt = "replay", match.at # 0
                 PROVE  /\ LET again == MapStableActionId(source, Reverse(offered))
                           IN again.at # 0 /\ Reverse(offered)[again.at] = offered[match.at]
                        /\ \A j \in DOMAIN offered \ {match.at} :
                             LET again == MapStableActionId(source, RemoveAt(offered, j))
                             IN again.at # 0 /\ RemoveAt(offered, j)[again.at] = offered[match.at]
      BY DEF MappingIsFirm
    <2>1. offered \in Seq(SiteIds)
      BY <1>0, SiteIs DEF CrossInv, RoundInv
    <2> HIDE DEF offered, source
    <2>2. LET again == MapStableActionId(source, Reverse(offered))
          IN again.at # 0 /\ Reverse(offered)[again.at] = offered[match.at]
      BY <2>1, FirmReversed
    <2>3. \A j \in DOMAIN offered \ {match.at} :
             LET again == MapStableActionId(source, RemoveAt(offered, j))
             IN again.at # 0 /\ RemoveAt(offered, j)[again.at] = offered[match.at]
      BY <2>1, FirmWithout
    <2> QED BY <2>2, <2>3
  <1> QED BY <1>1, <1>2 DEF CrossModeStands

-----------------------------------------------------------------------------
\* The invariants hold of each of the three by itself, ...
LEMMA FindingInvAlways == FindingSpec => []FindingInv
  <1>1. FindingInv /\ [FindingNext]_vars => FindingInv'
    BY FindingInvStep DEF findingVars
  <1> QED BY FindingInvInit, <1>1, PTL DEF FindingSpec

\* The same of the opaque replays, ...
LEMMA OpaqueInvAlways == OpaqueSpec => []OpaqueInv
  BY OpaqueInvInit, OpaqueInvStep, PTL DEF OpaqueSpec

\* ... and of the replays of another mode.
LEMMA CrossInvAlways == CrossSpec => []CrossInv
  BY CrossInvInit, CrossInvStep, PTL DEF CrossSpec

\* ... and where a behaviour is of one of several.
ComponentsInv == FindingInv /\ OpaqueInv /\ CrossInv

\* A step of one of them leaves the others as they are.
LEMMA ComponentsInvAlways == ComponentsSpec => []ComponentsInv
  <1>1. ComponentsInit => ComponentsInv
    <2> SUFFICES ASSUME ComponentsInit PROVE ComponentsInv
      OBVIOUS
    <2>1. FindingInit /\ OpaqueInit /\ CrossInit
      BY DEF ComponentsInit
    <2> QED BY <2>1, FindingInvInit, OpaqueInvInit, CrossInvInit DEF ComponentsInv
  <1>2. ComponentsInv /\ [ComponentsNext]_<<findingVars, scheduleVars, setupVars, replayVars, about>>
          => ComponentsInv'
    <2> SUFFICES ASSUME ComponentsInv,
                        [ComponentsNext]_<<findingVars, scheduleVars, setupVars, replayVars, about>>
                 PROVE  ComponentsInv'
      OBVIOUS
    <2>1. [FindingNext]_findingVars
      BY DEF ComponentsNext
    <2>2. [OpaqueNext]_opaqueVars /\ [CrossNext]_crossVars
      BY DEF ComponentsNext, replayVars
    <2> QED BY <2>1, <2>2, FindingInvStep, OpaqueInvStep, CrossInvStep DEF ComponentsInv
  <1> QED BY <1>1, <1>2, PTL DEF ComponentsSpec

\* What is done with a failure is what its replays justify, for any failures of which no
\* two share a class, any number of campaigns, and any application.  A finding is promoted
\* and shrunk only where it reproduced in every campaign (web-replay-gate.mjs,
\* web-actionable-finding.mjs); an exported opaque replay is a replay of the page that
\* reaches the target (opaque-driver-replay.mjs); a failure reported of another mode is
\* one of its target trace alone (cross-mode-replay.mjs).
THEOREM ReplaysAlwaysJustify ==
    ASSUME ClassesDiffer
    PROVE  ComponentsSpec => []ReplaysJustify
  <1>1. ComponentsInv => ReplaysJustify
    BY FindingInvImplies, OpaqueInvImplies, CrossInvImplies DEF ComponentsInv, ReplaysJustify
  <1> QED BY ComponentsInvAlways, <1>1, PTL

\* What is called one-minimal is: no action of a finding's trace, or of an opaque replay
\* whose runs do not disturb each other, can be left out, for traces of any length
\* (web-actionable-finding.mjs, opaque-driver-replay.mjs).
THEOREM AlwaysOneMinimal == ComponentsSpec => []OneMinimal
  <1>1. ComponentsInv => OneMinimal
    BY FindingInvImplies, OpaqueInvImplies DEF ComponentsInv, OneMinimal
  <1> QED BY ComponentsInvAlways, <1>1, PTL

\* A finding's trace called one-minimal is, whatever classes its failures have
\* (web-actionable-finding.mjs).
THEOREM FindingAlwaysMinimal == FindingSpec => []FindingIsMinimal
  <1>1. FindingInv => FindingIsMinimal
    BY FindingInvImplies
  <1> QED BY FindingInvAlways, <1>1, PTL

\* What is exported of a page replays on it, and is reported one-minimal only where it is
\* (opaque-driver-replay.mjs).
THEOREM OpaqueAlwaysFaithful == OpaqueSpec => [](OpaqueFaithful /\ OpaqueMinimal)
  <1>1. OpaqueInv => OpaqueFaithful /\ OpaqueMinimal
    BY OpaqueInvImplies
  <1> QED BY OpaqueInvAlways, <1>1, PTL

\* A failure reported of another mode needs the source trace no more, and what an action
\* is mapped to depends neither on the others offered nor on their order, for every site
\* and every source trace (cross-mode-replay.mjs).
THEOREM CrossModeAlwaysStands == CrossSpec => []CrossModeStands
  <1>1. CrossInv => CrossModeStands
    BY CrossInvImplies
  <1> QED BY CrossInvAlways, <1>1, PTL

-----------------------------------------------------------------------------
\* The operations of a state have places, of which one is first, ...
LEMMA FirstIs ==
    ASSUME NEW S \in SUBSET (Nat \X Nat), S # {}
    PROVE  First(S) \in S
  <1> DEFINE A == {p[1] : p \in S}
  <1>1. PICK m \in A : \A a \in A : m <= a
    <2>1. A \in SUBSET Nat /\ A # {}
      OBVIOUS
    <2> QED BY <2>1, SmallestExists
  <1> DEFINE B == {p[2] : p \in {q \in S : q[1] = m}}
  <1>2. PICK n \in B : \A b \in B : n <= b
    <2>1. B \in SUBSET Nat /\ B # {}
      OBVIOUS
    <2> QED BY <2>1, SmallestExists
  <1>3. PICK p \in S : p[1] = m /\ p[2] = n
    OBVIOUS
  <1>4. ASSUME NEW q \in S PROVE p[1] < q[1] \/ (p[1] = q[1] /\ p[2] <= q[2])
    <2>1. q[1] \in A /\ m <= q[1] /\ m \in Nat /\ q[1] \in Nat
      BY <1>1
    <2>2. CASE q[1] = m
      <3>1. q[2] \in B
        BY <2>2
      <3> QED BY <1>2, <1>3, <2>2, <3>1
    <2>3. CASE q[1] # m
      BY <1>3, <2>1, <2>3
    <2> QED BY <2>2, <2>3
  <1>5. \E r \in S : \A q \in S : r[1] < q[1] \/ (r[1] = q[1] /\ r[2] <= q[2])
    BY <1>4
  <1> QED BY <1>5 DEF First

\* ... and lead to states of the scenario.
LEMMA OperationsAre ==
    ASSUME NEW s \in Scenarios, NEW x \in StatesOf(s)
    PROVE  /\ Places(s, x) \in SUBSET (Nat \X Nat)
           /\ \A p \in Places(s, x) : OperationAt(s, x, p) \in OperationsOf(s, x)
           /\ \A op \in OperationsOf(s, x) : After(s, x, op) \in StatesOf(s)
  <1>1. ASSUME NEW p \in Places(s, x)
        PROVE  /\ p \in Nat \X Nat /\ OperationAt(s, x, p) \in OperationsOf(s, x)
               /\ After(s, x, OperationAt(s, x, p)) \in StatesOf(s)
    <2>1. PICK i \in DOMAIN Contexts : p \in {i} \X DOMAIN Operations(s, x, Contexts[i])
      BY DEF Places
    <2>2. p[1] = i /\ p[2] \in DOMAIN Operations(s, x, Contexts[i]) /\ p = <<p[1], p[2]>>
      BY <2>1
    <2>3. i \in Nat /\ p[2] \in Nat
      BY <2>2, SchedulerAssumption
    <2>4. Transitioned(s, x, Contexts[i], Operations(s, x, Contexts[i])[p[2]]) \in StatesOf(s)
      BY <2>2, SchedulerAssumption
    <2>5. OperationAt(s, x, p)[1] = Contexts[i] /\ OperationAt(s, x, p)[2] = Operations(s, x, Contexts[i])[p[2]]
      BY <2>2 DEF OperationAt
    <2>6. After(s, x, OperationAt(s, x, p)) \in StatesOf(s)
      BY <2>4, <2>5 DEF After
    <2>7. p \in Nat \X Nat
      BY <2>2, <2>3
    <2> QED BY <2>6, <2>7 DEF OperationsOf
  <1>2. ASSUME NEW op \in OperationsOf(s, x) PROVE After(s, x, op) \in StatesOf(s)
    <2>1. PICK p \in Places(s, x) : op = OperationAt(s, x, p)
      BY DEF OperationsOf
    <2> QED BY <1>1, <2>1
  <1> QED BY <1>1, <1>2

\* The replay of a schedule is defined, operation by operation, ...
ReplayBegins(s) == [ok |-> TRUE, state |-> InitialState(s)]
AreReplayed(f, s, t, n) ==
    f = [k \in 0 .. n |-> IF k = 0 THEN ReplayBegins(s) ELSE ReplayOperation(s, f[k - 1], t[k])]

\* It is: as a function of the operations done, ...
LEMMA ReplayedExist == ASSUME NEW s, NEW t, NEW n \in Nat PROVE \E f : AreReplayed(f, s, t, n)
  <1> DEFINE S == {k \in 0 .. n : \E f : AreReplayed(f, s, t, k)}
  <1>1. 0 \in S
    <2> DEFINE f == [k \in 0 .. 0 |-> ReplayBegins(s)]
    <2>1. f = [k \in 0 .. 0 |-> IF k = 0 THEN ReplayBegins(s) ELSE ReplayOperation(s, f[k - 1], t[k])]
      OBVIOUS
    <2>2. AreReplayed(f, s, t, 0)
      BY <2>1 DEF AreReplayed
    <2> HIDE DEF f
    <2> QED BY <2>2
  <1>2. ASSUME NEW k \in 0 .. n - 1, k \in S PROVE k + 1 \in S
    <2>1. PICK f : AreReplayed(f, s, t, k)
      BY <1>2
    <2> DEFINE w(i) == IF i = 0 THEN ReplayBegins(s) ELSE ReplayOperation(s, f[i - 1], t[i])
               g == [i \in 0 .. k + 1 |-> w(i)]
    <2>2. \A i \in 0 .. k : f[i] = g[i]
      BY <2>1 DEF AreReplayed
    <2>3. \A i \in 0 .. k + 1 : i # 0 => i - 1 \in 0 .. k
      BY <1>2
    <2> DEFINE h == [i \in 0 .. k + 1 |-> IF i = 0 THEN ReplayBegins(s) ELSE ReplayOperation(s, g[i - 1], t[i])]
    <2>4. \A i \in 0 .. k + 1 : g[i] = h[i]
      BY <2>2, <2>3
    <2>5. g = h
      BY <2>4
    <2>6. AreReplayed(g, s, t, k + 1)
      BY <2>5 DEF AreReplayed
    <2> QED BY <1>2, <2>6
  <1> HIDE DEF S
  <1>3. \A k \in 0 .. n : k \in S
    BY <1>1, <1>2, CountUp
  <1>4. n \in S
    BY <1>3
  <1> QED BY <1>4 DEF S

\* ... in which each result goes on from the one before, ...
LEMMA ReplayedAre ==
    ASSUME NEW s, NEW A, NEW t \in Seq(A)
    PROVE  /\ ReplayedAlong(s, t)[0] = ReplayBegins(s)
           /\ \A k \in 1 .. Len(t) : ReplayedAlong(s, t)[k] = ReplayOperation(s, ReplayedAlong(s, t)[k - 1], t[k])
  <1>1. Len(t) \in Nat
    OBVIOUS
  <1>2. \E f : AreReplayed(f, s, t, Len(t))
    BY <1>1, ReplayedExist
  <1>3. ReplayedAlong(s, t) = CHOOSE f : AreReplayed(f, s, t, Len(t))
    BY DEF ReplayedAlong, AreReplayed, ReplayBegins
  <1>4. AreReplayed(ReplayedAlong(s, t), s, t, Len(t))
    BY <1>2, <1>3
  <1> QED BY <1>1, <1>4 DEF AreReplayed

\* ... and goes on from where the shorter one ended.
LEMMA ReplaysMore ==
    ASSUME NEW s, NEW A, NEW t \in Seq(A), NEW op \in A
    PROVE  /\ ReplaySchedule(s, <<>>) = ReplayBegins(s)
           /\ ReplaySchedule(s, Append(t, op)) = ReplayOperation(s, ReplaySchedule(s, t), op)
  <1> DEFINE u == Append(t, op)
             T == ReplayedAlong(s, t)
             U == ReplayedAlong(s, u)
             S == {k \in 0 .. Len(t) : U[k] = T[k]}
  <1>1. u \in Seq(A) /\ Len(u) = Len(t) + 1 /\ Len(t) \in Nat /\ u[Len(t) + 1] = op /\ \A k \in 1 .. Len(t) : u[k] = t[k]
    OBVIOUS
  <1> HIDE DEF u
  <1>2. /\ T[0] = U[0]
        /\ \A k \in 1 .. Len(t) : T[k] = ReplayOperation(s, T[k - 1], t[k])
        /\ \A k \in 1 .. Len(u) : U[k] = ReplayOperation(s, U[k - 1], u[k])
    <2>1. t \in Seq(A) /\ u \in Seq(A)
      BY <1>1
    <2>2. /\ T[0] = ReplayBegins(s)
          /\ \A k \in 1 .. Len(t) : T[k] = ReplayOperation(s, T[k - 1], t[k])
      BY <2>1, ReplayedAre
    <2>3. /\ U[0] = ReplayBegins(s)
          /\ \A k \in 1 .. Len(u) : U[k] = ReplayOperation(s, U[k - 1], u[k])
      BY <2>1, ReplayedAre
    <2> QED BY <2>2, <2>3
  <1>3. ReplaySchedule(s, t) = T[Len(t)] /\ ReplaySchedule(s, u) = U[Len(u)]
    BY DEF ReplaySchedule
  <1>4. ReplaySchedule(s, <<>>) = ReplayBegins(s)
    <2>1. <<>> \in Seq(A) /\ Len(<<>>) = 0
      OBVIOUS
    <2> QED BY <2>1, ReplayedAre DEF ReplaySchedule
  <1> HIDE DEF T, U
  <1>5. 0 \in S
    BY <1>1, <1>2
  <1>6. ASSUME NEW k \in 0 .. Len(t) - 1, k \in S PROVE k + 1 \in S
    <2>1. k + 1 \in 1 .. Len(t) /\ k + 1 \in 1 .. Len(u) /\ (k + 1) - 1 = k
      BY <1>1
    <2>2. T[k + 1] = ReplayOperation(s, T[k], t[k + 1]) /\ U[k + 1] = ReplayOperation(s, U[k], u[k + 1])
      BY <1>2, <2>1
    <2> QED BY <1>1, <1>6, <2>1, <2>2
  <1> HIDE DEF S
  <1>7. \A k \in 0 .. Len(t) : k \in S
    BY <1>1, <1>5, <1>6, CountUp
  <1>8. U[Len(t)] = T[Len(t)]
    BY <1>1, <1>7 DEF S
  <1>9. Len(u) \in 1 .. Len(u) /\ Len(u) - 1 = Len(t)
    BY <1>1
  <1> QED BY <1>1, <1>2, <1>3, <1>4, <1>8, <1>9 DEF u

-----------------------------------------------------------------------------
\* What n operations reach is defined, one after the other, ...
Further(s, r) == r \cup UNION {Successors(s, x) : x \in r}
ReachBegins(s) == {InitialState(s)}
AreReached(f, s, n) == f = [k \in 0 .. n |-> IF k = 0 THEN ReachBegins(s) ELSE Further(s, f[k - 1])]

\* It is: as a function of their number, ...
LEMMA ReachedExist == ASSUME NEW s, NEW n \in Nat PROVE \E f : AreReached(f, s, n)
  <1> DEFINE S == {k \in 0 .. n : \E f : AreReached(f, s, k)}
  <1>1. 0 \in S
    <2> DEFINE f == [k \in 0 .. 0 |-> ReachBegins(s)]
    <2>1. f = [k \in 0 .. 0 |-> IF k = 0 THEN ReachBegins(s) ELSE Further(s, f[k - 1])]
      OBVIOUS
    <2>2. AreReached(f, s, 0)
      BY <2>1 DEF AreReached
    <2> HIDE DEF f
    <2> QED BY <2>2
  <1>2. ASSUME NEW k \in 0 .. n - 1, k \in S PROVE k + 1 \in S
    <2>1. PICK f : AreReached(f, s, k)
      BY <1>2
    <2> DEFINE w(i) == IF i = 0 THEN ReachBegins(s) ELSE Further(s, f[i - 1])
               g == [i \in 0 .. k + 1 |-> w(i)]
    <2>2. \A i \in 0 .. k : f[i] = g[i]
      BY <2>1 DEF AreReached
    <2>3. \A i \in 0 .. k + 1 : i # 0 => i - 1 \in 0 .. k
      BY <1>2
    <2> DEFINE h == [i \in 0 .. k + 1 |-> IF i = 0 THEN ReachBegins(s) ELSE Further(s, g[i - 1])]
    <2>4. \A i \in 0 .. k + 1 : g[i] = h[i]
      BY <2>2, <2>3
    <2>5. g = h
      BY <2>4
    <2>6. AreReached(g, s, k + 1)
      BY <2>5 DEF AreReached
    <2> QED BY <1>2, <2>6
  <1> HIDE DEF S
  <1>3. \A k \in 0 .. n : k \in S
    BY <1>1, <1>2, CountUp
  <1>4. n \in S
    BY <1>3
  <1> QED BY <1>4 DEF S

\* ... of which a longer one begins as a shorter one does, ...
LEMMA ReachedAgree ==
    ASSUME NEW s, NEW n \in Nat, NEW f, AreReached(f, s, n), NEW m \in Nat, NEW g, AreReached(g, s, m), n <= m
    PROVE  f[n] = g[n]
  <1> DEFINE S == {k \in 0 .. n : f[k] = g[k]}
  <1>1. 0 \in S
    BY DEF AreReached
  <1>2. ASSUME NEW k \in 0 .. n - 1, k \in S PROVE k + 1 \in S
    <2>1. k + 1 \in 0 .. n /\ k + 1 \in 0 .. m /\ k + 1 # 0 /\ (k + 1) - 1 = k
      OBVIOUS
    <2>2. f[k + 1] = Further(s, f[k]) /\ g[k + 1] = Further(s, g[k])
      BY <2>1 DEF AreReached
    <2> QED BY <1>2, <2>1, <2>2
  <1> HIDE DEF S
  <1>3. \A k \in 0 .. n : k \in S
    BY <1>1, <1>2, CountUp
  <1>4. n \in S
    BY <1>3
  <1> QED BY <1>4 DEF S

\* ... so that one operation more reaches the successors.
LEMMA ReachedIs ==
    ASSUME NEW s, NEW n \in Nat
    PROVE  /\ ReachedIn(s, 0) = {InitialState(s)}
           /\ ReachedIn(s, n + 1) = Further(s, ReachedIn(s, n))
  <1> DEFINE F(k) == CHOOSE f : AreReached(f, s, k)
  <1>1. ASSUME NEW k \in Nat PROVE ReachedIn(s, k) = F(k)[k] /\ AreReached(F(k), s, k)
    <2>1. \E f : AreReached(f, s, k)
      BY ReachedExist
    <2>2. ReachedIn(s, k) = F(k)[k]
      BY DEF ReachedIn, AreReached, Further, ReachBegins
    <2> QED BY <2>1, <2>2
  <1> HIDE DEF F
  <1>2. ReachedIn(s, 0) = {InitialState(s)}
    BY <1>1 DEF AreReached, ReachBegins
  <1>3. F(n)[n] = F(n + 1)[n]
    <2>1. n + 1 \in Nat /\ n <= n + 1
      OBVIOUS
    <2> QED BY <1>1, <2>1, ReachedAgree
  <1>4. F(n + 1)[n + 1] = Further(s, F(n + 1)[n])
    <2>1. n + 1 \in Nat /\ n + 1 \in 0 .. n + 1 /\ n + 1 # 0 /\ (n + 1) - 1 = n
      OBVIOUS
    <2>2. AreReached(F(n + 1), s, n + 1)
      BY <1>1, <2>1
    <2> QED BY <2>1, <2>2 DEF AreReached
  <1>5. n + 1 \in Nat
    OBVIOUS
  <1> QED BY <1>1, <1>2, <1>3, <1>4, <1>5

\* More operations reach no less.
LEMMA ReachedGrows ==
    ASSUME NEW s, NEW m \in Nat, NEW n \in Nat, m <= n
    PROVE  ReachedIn(s, m) \subseteq ReachedIn(s, n)
  <1> DEFINE S == {k \in 0 .. n - m : ReachedIn(s, m) \subseteq ReachedIn(s, m + k)}
  <1>0. n - m \in Nat
    OBVIOUS
  <1>1. 0 \in S
    BY <1>0
  <1>2. ASSUME NEW k \in 0 .. (n - m) - 1, k \in S PROVE k + 1 \in S
    <2>1. m + k \in Nat /\ k + 1 \in 0 .. n - m /\ m + (k + 1) = (m + k) + 1
      OBVIOUS
    <2>2. ReachedIn(s, (m + k) + 1) = Further(s, ReachedIn(s, m + k))
      BY <2>1, ReachedIs
    <2>3. ReachedIn(s, m) \subseteq ReachedIn(s, (m + k) + 1)
      BY <1>2, <2>2 DEF Further
    <2> QED BY <2>1, <2>3
  <1> HIDE DEF S
  <1>3. \A k \in 0 .. n - m : k \in S
    BY <1>0, <1>1, <1>2, CountUp
  <1>4. n - m \in S
    BY <1>0, <1>3
  <1>5. m + (n - m) = n
    OBVIOUS
  <1> QED BY <1>4, <1>5 DEF S

-----------------------------------------------------------------------------
\* What is open is in expansion, or was when the transitions ended; the other states
\* wait in line or have been expanded.
Ops(s) == UNION {OperationsOf(s, x) : x \in StatesOf(s)}
ContextOpen == contextAt = "expand" \/ "transitions" \in limits
InLine(q) == {q[k] : k \in DOMAIN q}
Expanded == {x \in DOMAIN known : x \notin InLine(line) /\ ~(ContextOpen /\ x = expanding)}

ContextTyped ==
    /\ scenario \in Scenarios /\ bounds \in Bounds
    /\ DOMAIN known \subseteq StatesOf(scenario) /\ known \in [DOMAIN known -> Seq(Ops(scenario))]
    /\ line \in Seq(DOMAIN known) /\ expanding \in DOMAIN known
    /\ left \in SUBSET Places(scenario, expanding)
    /\ contextAt \in {"queue", "expand", "done"} /\ limits \in SUBSET {"depth", "transitions", "states"}

\* The line is in the order of depths, which differ by one at the most; no state in it is
\* less deep than the one in expansion, nor that one than those expanded.
LineInv ==
    /\ \A j \in DOMAIN line, k \in DOMAIN line :
         /\ j < k => line[j] # line[k] /\ Depth(line[j]) <= Depth(line[k])
         /\ Depth(line[k]) <= Depth(line[j]) + 1
    /\ \A x \in Expanded, y \in InLine(line) : Depth(x) <= Depth(y)
    /\ ContextOpen =>
         /\ expanding \notin InLine(line) /\ Depth(expanding) < bounds.maxDepth
         /\ \A y \in InLine(line) : Depth(expanding) <= Depth(y) /\ Depth(y) <= Depth(expanding) + 1
         /\ \A x \in Expanded : Depth(x) <= Depth(expanding)
    /\ "transitions" \in limits => contextAt = "done"
    /\ contextAt = "done" => line = <<>> \/ "transitions" \in limits

\* What the operations tried led to is known, one step deeper at the most, while there
\* is room for more states; and what it violates is noted.
Covered(x, op) ==
    /\ "states" \notin limits => /\ After(scenario, x, op) \in DOMAIN known
                                 /\ Depth(After(scenario, x, op)) <= Depth(x) + 1
    /\ Violating(scenario, After(scenario, x, op)) => Append(known[x], op) \in violations
CoverInv ==
    /\ \A x \in Expanded : Depth(x) < bounds.maxDepth => \A op \in OperationsOf(scenario, x) : Covered(x, op)
    /\ ContextOpen => \A p \in Places(scenario, expanding) \ left :
                        Covered(expanding, OperationAt(scenario, expanding, p))
    /\ "states" \in limits => Cardinality(DOMAIN known) >= bounds.maxStates

DepthInv ==
    /\ \A x \in DOMAIN known : Depth(x) <= bounds.maxDepth
    /\ \A x \in Expanded : Depth(x) = bounds.maxDepth /\ OperationsOf(scenario, x) # {} => "depth" \in limits
    /\ "depth" \in limits => \E x \in DOMAIN known : Depth(x) = bounds.maxDepth /\ OperationsOf(scenario, x) # {}

\* A trace leads to its state and none that is shorter does; one noted leads to a
\* violation.
LeadsTo(s, t, x) ==
    /\ ReplaySchedule(s, t) = [ok |-> TRUE, state |-> x] /\ x \in ReachedIn(s, Len(t))
    /\ Len(t) > 0 => x \notin ReachedIn(s, Len(t) - 1)
Violates(s, t) == ReplaySchedule(s, t).ok /\ Violating(s, ReplaySchedule(s, t).state)
TraceInv ==
    /\ InitialState(scenario) \in DOMAIN known /\ known[InitialState(scenario)] = <<>>
    /\ \A x \in DOMAIN known : LeadsTo(scenario, known[x], x)
    /\ \A t \in violations : Violates(scenario, t)

ContextInv == ContextTyped /\ LineInv /\ CoverInv /\ DepthInv /\ TraceInv

\* The invariant holds as an exploration begins.
LEMMA ContextInvInit == ContextInit => ContextInv
  <1> SUFFICES ASSUME ContextInit PROVE ContextInv
    OBVIOUS
  <1> DEFINE x0 == InitialState(scenario)
  <1>1. scenario \in Scenarios /\ bounds \in Bounds /\ x0 \in StatesOf(scenario)
    BY SchedulerAssumption DEF ContextInit
  <1>2. /\ known = [x \in {x0} |-> <<>>] /\ line = <<x0>> /\ expanding = x0 /\ left = {}
        /\ violations = {} /\ limits = {} /\ contextAt = "queue"
    BY DEF ContextInit
  <1>3. bounds.maxDepth \in Nat \ {0}
    BY <1>1, SchedulerAssumption
  <1>4. DOMAIN known = {x0} /\ known[x0] = <<>> /\ Len(known[x0]) = 0
    BY <1>2
  <1>5. DOMAIN line = {1} /\ line[1] = x0 /\ InLine(line) = {x0}
    BY <1>2 DEF InLine
  <1>6. ~ContextOpen /\ Expanded = {}
    BY <1>2, <1>4, <1>5 DEF ContextOpen, Expanded
  <1>7. ReplaySchedule(scenario, <<>>) = ReplayBegins(scenario)
    <2>1. <<>> \in Seq({0})
      OBVIOUS
    <2> QED BY <2>1, ReplaysMore
  <1>8. LeadsTo(scenario, <<>>, x0)
    <2>1. ReachedIn(scenario, 0) = {x0}
      BY ReachedIs
    <2> QED BY <1>7, <2>1 DEF LeadsTo, ReplayBegins
  <1> HIDE DEF x0
  <1>9. ContextTyped
    <2>1. known \in [DOMAIN known -> Seq(Ops(scenario))]
      BY <1>2
    <2>2. line \in Seq(DOMAIN known)
      BY <1>2, <1>4
    <2> QED BY <1>1, <1>2, <1>4, <2>1, <2>2 DEF ContextTyped
  <1>10. LineInv
    BY <1>2, <1>4, <1>5, <1>6 DEF LineInv, Depth
  <1>11. CoverInv
    BY <1>2, <1>6 DEF CoverInv
  <1>12. DepthInv
    BY <1>2, <1>3, <1>4, <1>6 DEF DepthInv, Depth
  <1>13. TraceInv
    BY <1>2, <1>4, <1>8 DEF TraceInv, x0
  <1> QED BY <1>9, <1>10, <1>11, <1>12, <1>13 DEF ContextInv

\* A state that is not known while those of less than n operations have all been expanded
\* is not reached by n.
LEMMA NearAreKnown ==
    ASSUME ContextInv, "states" \notin limits, NEW n \in Nat, n <= bounds.maxDepth,
           \A x \in DOMAIN known : Depth(x) < n => x \in Expanded
    PROVE  ReachedIn(scenario, n) \subseteq DOMAIN known
  <1> DEFINE s == scenario
             K == DOMAIN known
             Near(k) == ReachedIn(s, k) \subseteq K /\ \A x \in ReachedIn(s, k) : Depth(x) <= k
             S == {k \in 0 .. n : Near(k)}
  <1>1. \A x \in K : known[x] \in Seq(Ops(s)) /\ Depth(x) \in Nat
    <2>1. \A x \in K : known[x] \in Seq(Ops(s))
      BY DEF ContextInv, ContextTyped
    <2> QED BY <2>1 DEF Depth
  <1>2. 0 \in S
    <2>1. ReachedIn(s, 0) = {InitialState(s)}
      BY ReachedIs
    <2>2. InitialState(s) \in K /\ known[InitialState(s)] = <<>>
      BY DEF ContextInv, TraceInv
    <2>3. Depth(InitialState(s)) = 0
      BY <2>2 DEF Depth
    <2> QED BY <2>1, <2>2, <2>3
  <1>3. ASSUME NEW k \in 0 .. n - 1, k \in S PROVE k + 1 \in S
    <2>1. k \in Nat /\ k + 1 \in 0 .. n /\ k < n /\ ReachedIn(s, k + 1) = Further(s, ReachedIn(s, k))
      BY <1>3, ReachedIs
    <2>2. ASSUME NEW y \in ReachedIn(s, k + 1) PROVE y \in K /\ Depth(y) <= k + 1
      <3>1. CASE y \in ReachedIn(s, k)
        <4>1. y \in K /\ Depth(y) <= k /\ Depth(y) \in Nat
          BY <1>1, <1>3, <3>1
        <4> QED BY <2>1, <4>1
      <3>2. CASE y \notin ReachedIn(s, k)
        <4>1. PICK x \in ReachedIn(s, k) : y \in Successors(s, x)
          BY <2>1, <3>2 DEF Further
        <4>2. PICK op \in OperationsOf(s, x) : y = After(s, x, op)
          BY <4>1 DEF Successors
        <4>3. x \in K /\ Depth(x) <= k /\ Depth(x) \in Nat
          BY <1>1, <1>3
        <4>4. bounds.maxDepth \in Nat
          BY SchedulerAssumption DEF ContextInv, ContextTyped
        <4>5. x \in Expanded /\ Depth(x) < bounds.maxDepth
          BY <2>1, <4>3, <4>4
        <4>6. Covered(x, op)
          BY <4>5 DEF ContextInv, CoverInv
        <4>7. y \in K /\ Depth(y) <= Depth(x) + 1
          BY <4>2, <4>6 DEF Covered
        <4>8. Depth(y) \in Nat
          BY <1>1, <4>7
        <4> QED BY <2>1, <4>3, <4>7, <4>8
      <3> QED BY <3>1, <3>2
    <2> QED BY <2>1, <2>2
  <1> HIDE DEF S
  <1>4. \A k \in 0 .. n : k \in S
    BY <1>2, <1>3, CountUp
  <1>5. n \in S
    BY <1>4
  <1> QED BY <1>5 DEF S

-----------------------------------------------------------------------------
\* What is left when the first is taken.
LEMMA TailIs ==
    ASSUME NEW S, NEW q \in Seq(S), q # <<>>
    PROVE  /\ Tail(q) \in Seq(S) /\ Head(q) = q[1] /\ 1 \in DOMAIN q /\ Head(q) \in S
           /\ \A k \in DOMAIN Tail(q) : k + 1 \in DOMAIN q /\ Tail(q)[k] = q[k + 1] /\ 1 < k + 1 /\ k \in Nat
           /\ InLine(q) = {Head(q)} \cup InLine(Tail(q))
  <1>1. /\ Tail(q) \in Seq(S) /\ Head(q) = q[1] /\ 1 \in DOMAIN q /\ Head(q) \in S
        /\ Len(q) \in Nat /\ Len(q) # 0 /\ Len(Tail(q)) = Len(q) - 1 /\ DOMAIN q = 1 .. Len(q)
        /\ DOMAIN Tail(q) = 1 .. Len(q) - 1 /\ \A k \in 1 .. Len(q) - 1 : Tail(q)[k] = q[k + 1]
    OBVIOUS
  <1>2. \A k \in DOMAIN Tail(q) : k + 1 \in DOMAIN q /\ Tail(q)[k] = q[k + 1] /\ 1 < k + 1 /\ k \in Nat
    BY <1>1
  <1>3. \A k \in DOMAIN q : k = 1 \/ (k - 1 \in DOMAIN Tail(q) /\ Tail(q)[k - 1] = q[k])
    BY <1>1
  <1> DEFINE r == Tail(q)
             h == Head(q)
  <1>4. h = q[1] /\ 1 \in DOMAIN q
    BY <1>1
  <1> HIDE DEF r, h
  <1>5. InLine(q) = {h} \cup InLine(r)
    <2>1. ASSUME NEW y \in InLine(q) PROVE y \in {h} \cup InLine(r)
      <3>1. PICK k \in DOMAIN q : y = q[k]
        BY <2>1 DEF InLine
      <3>2. k = 1 \/ (k - 1 \in DOMAIN r /\ r[k - 1] = y)
        BY <1>3, <3>1 DEF r
      <3> QED BY <1>4, <3>1, <3>2 DEF InLine
    <2>2. ASSUME NEW y \in {h} \cup InLine(r) PROVE y \in InLine(q)
      <3>1. CASE y = h
        BY <1>4, <3>1 DEF InLine
      <3>2. CASE y \in InLine(r)
        <4>1. PICK k \in DOMAIN r : y = r[k]
          BY <3>2 DEF InLine
        <4>2. k + 1 \in DOMAIN q /\ q[k + 1] = y
          BY <1>2, <4>1 DEF r
        <4> QED BY <4>2 DEF InLine
      <3> QED BY <2>2, <3>1, <3>2
    <2> QED BY <2>1, <2>2
  <1> QED BY <1>1, <1>2, <1>5 DEF r, h

\* The depths are numbers, and so are the bounds.
LEMMA DepthsAre ==
    ASSUME ContextTyped
    PROVE  /\ \A x \in DOMAIN known : Depth(x) \in Nat /\ known[x] \in Seq(Ops(scenario)) /\ x \in StatesOf(scenario)
           /\ bounds.maxDepth \in Nat \ {0} /\ scenario \in Scenarios
           /\ InLine(line) \subseteq DOMAIN known /\ Expanded \subseteq DOMAIN known
           /\ \A k \in DOMAIN line : k \in Nat /\ line[k] \in InLine(line)
  <1>1. \A x \in DOMAIN known : known[x] \in Seq(Ops(scenario)) /\ x \in StatesOf(scenario)
    BY DEF ContextTyped
  <1>2. \A x \in DOMAIN known : Depth(x) \in Nat
    BY <1>1 DEF Depth
  <1>3. \A k \in DOMAIN line : k \in Nat /\ line[k] \in DOMAIN known
    BY DEF ContextTyped
  <1> QED BY <1>1, <1>2, <1>3, SchedulerAssumption DEF ContextTyped, InLine, Expanded

\* What stays as it is while no state is found.
LEMMA CoverStays ==
    ASSUME UNCHANGED <<scenario, known, violations>>, limits \subseteq limits',
           NEW x, NEW op, Covered(x, op)
    PROVE  Covered(x, op)'
  <1>1. (After(scenario, x, op))' = After(scenario, x, op)
    BY DEF After
  <1>2. \A y : Depth(y)' = Depth(y)
    BY DEF Depth
  <1> QED BY <1>1, <1>2 DEF Covered

\* A state is taken: expanded at once where the bound is reached, ...
LEMMA TakeDeep ==
    ASSUME ContextInv, TakeState, Depth(Head(line)) >= bounds.maxDepth
    PROVE  ContextInv'
  <1> DEFINE h == Head(line)
             K == DOMAIN known
  <1> USE DEF ContextInv
  <1>1. /\ contextAt = "queue" /\ line # <<>> /\ line' = Tail(line)
        /\ limits' = limits \cup (IF OperationsOf(scenario, h) = {} THEN {} ELSE {"depth"})
        /\ UNCHANGED <<scenario, bounds, known, tried, violations, expanding, left, contextAt>>
    BY DEF TakeState
  <1>2. /\ line' \in Seq(K) /\ h = line[1] /\ 1 \in DOMAIN line /\ h \in K
        /\ \A k \in DOMAIN line' : k + 1 \in DOMAIN line /\ line'[k] = line[k + 1] /\ 1 < k + 1 /\ k \in Nat
        /\ InLine(line) = {h} \cup InLine(line')
    <2>1. line \in Seq(K) /\ line # <<>>
      BY <1>1 DEF ContextTyped
    <2> HIDE DEF K
    <2> QED BY <1>1, <2>1, TailIs
  <1>3. /\ \A x \in DOMAIN known : Depth(x) \in Nat /\ known[x] \in Seq(Ops(scenario)) /\ x \in StatesOf(scenario)
        /\ bounds.maxDepth \in Nat \ {0} /\ scenario \in Scenarios
        /\ InLine(line) \subseteq DOMAIN known /\ Expanded \subseteq DOMAIN known
        /\ \A k \in DOMAIN line : k \in Nat /\ line[k] \in InLine(line)
    BY DepthsAre
  <1>4. \A x : Depth(x)' = Depth(x)
    BY <1>1 DEF Depth
  <1>5. "transitions" \notin limits /\ "transitions" \notin limits' /\ ~ContextOpen /\ ~ContextOpen'
    BY <1>1 DEF LineInv, ContextOpen
  <1>6. Depth(h) = bounds.maxDepth
    <2>1. Depth(h) <= bounds.maxDepth
      BY <1>2 DEF DepthInv
    <2> QED BY <1>2, <1>3, <2>1
  <1>7. Expanded' \subseteq Expanded \cup {h}
    BY <1>1, <1>2, <1>5 DEF Expanded
  <1> HIDE DEF h
  <1>8. ContextTyped'
    BY <1>1, <1>2 DEF ContextTyped
  <1>9. LineInv'
    <2>1. ASSUME NEW j \in DOMAIN line', NEW k \in DOMAIN line'
          PROVE  /\ j < k => line'[j] # line'[k] /\ Depth(line'[j]) <= Depth(line'[k])
                 /\ Depth(line'[k]) <= Depth(line'[j]) + 1
      <3>1. j + 1 \in DOMAIN line /\ k + 1 \in DOMAIN line /\ line'[j] = line[j + 1] /\ line'[k] = line[k + 1]
            /\ j \in Nat /\ k \in Nat
        BY <1>2
      <3>2. j < k => j + 1 < k + 1
        BY <3>1
      <3> QED BY <3>1, <3>2 DEF LineInv
    <2>2. ASSUME NEW x \in Expanded', NEW y \in InLine(line') PROVE Depth(x) <= Depth(y)
      <3>1. y \in InLine(line)
        BY <1>2
      <3>2. CASE x \in Expanded
        BY <3>1, <3>2 DEF LineInv
      <3>3. CASE x = h
        <4>1. PICK k \in DOMAIN line' : y = line'[k]
          BY DEF InLine
        <4>2. y = line[k + 1] /\ 1 < k + 1 /\ k + 1 \in DOMAIN line
          BY <1>2, <4>1
        <4> QED BY <1>2, <3>3, <4>2 DEF LineInv
      <3> QED BY <1>7, <3>2, <3>3
    <2> QED BY <1>1, <1>4, <1>5, <2>1, <2>2 DEF LineInv
  <1>10. CoverInv'
    <2>1. ASSUME NEW x \in Expanded', Depth(x) < bounds.maxDepth, NEW op \in OperationsOf(scenario, x)
          PROVE  Covered(x, op)'
      <3>1. x \in Expanded
        <4>1. x # h
          BY <1>2, <1>3, <1>6, <2>1
        <4> QED BY <1>7, <4>1
      <3>2. Covered(x, op)
        BY <2>1, <3>1 DEF CoverInv
      <3> QED BY <1>1, <3>2, CoverStays
    <2>2. (\A x \in Expanded : Depth(x) < bounds.maxDepth => \A op \in OperationsOf(scenario, x) : Covered(x, op))'
      <3>1. ASSUME NEW x \in Expanded', Depth(x)' < bounds.maxDepth', NEW op \in OperationsOf(scenario, x)'
            PROVE  Covered(x, op)'
        <4>1. Depth(x) < bounds.maxDepth /\ op \in OperationsOf(scenario, x)
          BY <1>1, <1>4, <3>1
        <4> QED BY <2>1, <4>1
      <3> QED BY <3>1
    <2>3. "states" \in limits' => "states" \in limits
      BY <1>1
    <2> QED BY <1>1, <1>5, <2>2, <2>3 DEF CoverInv
  <1>11. DepthInv'
    <2>1. ASSUME NEW x \in Expanded', Depth(x) = bounds.maxDepth, OperationsOf(scenario, x) # {}
          PROVE  "depth" \in limits'
      <3>1. CASE x = h
        BY <1>1, <2>1, <3>1 DEF h
      <3>2. CASE x # h
        <4>1. x \in Expanded
          BY <1>7, <3>2
        <4> QED BY <1>1, <2>1, <4>1 DEF DepthInv
      <3> QED BY <3>1, <3>2
    <2>2. ASSUME "depth" \in limits'
          PROVE  \E x \in K : Depth(x) = bounds.maxDepth /\ OperationsOf(scenario, x) # {}
      <3>1. CASE "depth" \in limits
        BY <3>1 DEF DepthInv
      <3>2. CASE "depth" \notin limits
        <4>1. OperationsOf(scenario, h) # {}
          BY <1>1, <2>2, <3>2 DEF h
        <4> QED BY <1>2, <1>6, <4>1
      <3> QED BY <3>1, <3>2
    <2> QED BY <1>1, <1>4, <2>1, <2>2 DEF DepthInv
  <1>12. TraceInv'
    BY <1>1 DEF TraceInv
  <1> QED BY <1>8, <1>9, <1>10, <1>11, <1>12

\* ... put in expansion where it is not, ...
LEMMA TakeShallow ==
    ASSUME ContextInv, TakeState, ~(Depth(Head(line)) >= bounds.maxDepth)
    PROVE  ContextInv'
  <1> DEFINE h == Head(line)
             K == DOMAIN known
  <1> USE DEF ContextInv
  <1>1. /\ contextAt = "queue" /\ line # <<>> /\ line' = Tail(line)
        /\ expanding' = h /\ left' = Places(scenario, h) /\ contextAt' = "expand"
        /\ UNCHANGED <<scenario, bounds, known, tried, violations, limits>>
    BY DEF TakeState
  <1>2. /\ line' \in Seq(K) /\ h = line[1] /\ 1 \in DOMAIN line /\ h \in K
        /\ \A k \in DOMAIN line' : k + 1 \in DOMAIN line /\ line'[k] = line[k + 1] /\ 1 < k + 1 /\ k \in Nat
        /\ InLine(line) = {h} \cup InLine(line')
    <2>1. line \in Seq(K) /\ line # <<>>
      BY <1>1 DEF ContextTyped
    <2> HIDE DEF K
    <2> QED BY <1>1, <2>1, TailIs
  <1>3. /\ \A x \in DOMAIN known : Depth(x) \in Nat /\ known[x] \in Seq(Ops(scenario)) /\ x \in StatesOf(scenario)
        /\ bounds.maxDepth \in Nat \ {0} /\ scenario \in Scenarios
        /\ InLine(line) \subseteq DOMAIN known /\ Expanded \subseteq DOMAIN known
        /\ \A k \in DOMAIN line : k \in Nat /\ line[k] \in InLine(line)
    BY DepthsAre
  <1>4. \A x : Depth(x)' = Depth(x)
    BY <1>1 DEF Depth
  <1>5. "transitions" \notin limits /\ "transitions" \notin limits' /\ ~ContextOpen /\ ContextOpen'
    BY <1>1 DEF LineInv, ContextOpen
  <1>6. Depth(h) < bounds.maxDepth
    BY <1>2, <1>3
  <1>7. Expanded' \subseteq Expanded
    BY <1>1, <1>2, <1>5 DEF Expanded
  <1> HIDE DEF h
  <1>13. \A k \in DOMAIN line' : line'[k] # h /\ Depth(h) <= Depth(line'[k]) /\ Depth(line'[k]) <= Depth(h) + 1
    <2>1. ASSUME NEW k \in DOMAIN line'
          PROVE line'[k] # h /\ Depth(h) <= Depth(line'[k]) /\ Depth(line'[k]) <= Depth(h) + 1
      <3>1. line'[k] = line[k + 1] /\ 1 < k + 1 /\ k + 1 \in DOMAIN line
        BY <1>2
      <3> QED BY <1>2, <3>1 DEF LineInv
    <2> QED BY <2>1
  <1>8. ContextTyped'
    BY <1>1, <1>2 DEF ContextTyped
  <1>9. LineInv'
    <2>1. ASSUME NEW j \in DOMAIN line', NEW k \in DOMAIN line'
          PROVE  /\ j < k => line'[j] # line'[k] /\ Depth(line'[j]) <= Depth(line'[k])
                 /\ Depth(line'[k]) <= Depth(line'[j]) + 1
      <3>1. j + 1 \in DOMAIN line /\ k + 1 \in DOMAIN line /\ line'[j] = line[j + 1] /\ line'[k] = line[k + 1]
            /\ j \in Nat /\ k \in Nat
        BY <1>2
      <3>2. j < k => j + 1 < k + 1
        BY <3>1
      <3> QED BY <3>1, <3>2 DEF LineInv
    <2>2. ASSUME NEW x \in Expanded', NEW y \in InLine(line') PROVE Depth(x) <= Depth(y)
      <3>1. y \in InLine(line) /\ x \in Expanded
        BY <1>2, <1>7
      <3> QED BY <3>1 DEF LineInv
    <2>3. ASSUME NEW y \in InLine(line') PROVE y # h /\ Depth(h) <= Depth(y) /\ Depth(y) <= Depth(h) + 1
      BY <1>13 DEF InLine
    <2>4. ASSUME NEW x \in Expanded' PROVE Depth(x) <= Depth(h)
      <3>1. h \in InLine(line) /\ x \in Expanded
        BY <1>2, <1>7
      <3> QED BY <3>1 DEF LineInv
    <2>5. h \notin InLine(line')
      BY <2>3
    <2> QED BY <1>1, <1>4, <1>5, <1>6, <2>1, <2>2, <2>3, <2>4, <2>5 DEF LineInv
  <1>10. CoverInv'
    <2>1. ASSUME NEW x \in Expanded', Depth(x)' < bounds.maxDepth', NEW op \in OperationsOf(scenario, x)'
          PROVE  Covered(x, op)'
      <3>1. x \in Expanded /\ Depth(x) < bounds.maxDepth /\ op \in OperationsOf(scenario, x)
        BY <1>1, <1>4, <1>7, <2>1
      <3>2. Covered(x, op)
        BY <3>1 DEF CoverInv
      <3> QED BY <1>1, <3>2, CoverStays
    <2>2. \A p \in (Places(scenario, expanding) \ left)' : Covered(expanding, OperationAt(scenario, expanding, p))'
      BY <1>1
    <2> QED BY <1>1, <2>1, <2>2 DEF CoverInv
  <1>11. DepthInv'
    BY <1>1, <1>4, <1>7 DEF DepthInv
  <1>12. TraceInv'
    BY <1>1 DEF TraceInv
  <1> QED BY <1>8, <1>9, <1>10, <1>11, <1>12

\* ... and expanded when all its operations were tried.
LEMMA ExpandedStep == ASSUME ContextInv, StateExpanded PROVE ContextInv'
  <1> DEFINE e == expanding
  <1> USE DEF ContextInv
  <1>1. /\ contextAt = "expand" /\ left = {} /\ contextAt' = "queue"
        /\ UNCHANGED <<scenario, bounds, known, line, expanding, left, tried, violations, limits>>
    BY DEF StateExpanded
  <1>3. /\ \A x \in DOMAIN known : Depth(x) \in Nat /\ known[x] \in Seq(Ops(scenario)) /\ x \in StatesOf(scenario)
        /\ bounds.maxDepth \in Nat \ {0} /\ scenario \in Scenarios
        /\ InLine(line) \subseteq DOMAIN known /\ Expanded \subseteq DOMAIN known
        /\ \A k \in DOMAIN line : k \in Nat /\ line[k] \in InLine(line)
    BY DepthsAre
  <1>4. \A x : Depth(x)' = Depth(x)
    BY <1>1 DEF Depth
  <1>5. "transitions" \notin limits /\ "transitions" \notin limits' /\ ContextOpen /\ ~ContextOpen'
    BY <1>1 DEF LineInv, ContextOpen
  <1>7. Expanded' \subseteq Expanded \cup {e}
    BY <1>1, <1>5 DEF Expanded
  <1>8. ContextTyped'
    BY <1>1 DEF ContextTyped
  <1>9. LineInv'
    <2>1. ASSUME NEW x \in Expanded', NEW y \in InLine(line) PROVE Depth(x) <= Depth(y)
      BY <1>5, <1>7 DEF LineInv
    <2>2. \A j \in DOMAIN line, k \in DOMAIN line :
            /\ j < k => line[j] # line[k] /\ Depth(line[j]) <= Depth(line[k])
            /\ Depth(line[k]) <= Depth(line[j]) + 1
      BY DEF LineInv
    <2> QED BY <1>1, <1>4, <1>5, <2>1, <2>2 DEF LineInv
  <1>10. CoverInv'
    <2>1. ASSUME NEW x \in Expanded', Depth(x)' < bounds.maxDepth', NEW op \in OperationsOf(scenario, x)'
          PROVE  Covered(x, op)'
      <3>1. Depth(x) < bounds.maxDepth /\ op \in OperationsOf(scenario, x)
        BY <1>1, <1>4, <2>1
      <3>2. CASE x \in Expanded
        <4>1. Covered(x, op)
          BY <3>1, <3>2 DEF CoverInv
        <4> QED BY <1>1, <4>1, CoverStays
      <3>3. CASE x = e
        <4>1. PICK p \in Places(scenario, e) : op = OperationAt(scenario, e, p)
          BY <3>1, <3>3 DEF OperationsOf
        <4>2. Covered(x, op)
          BY <1>1, <1>5, <3>3, <4>1 DEF CoverInv
        <4> QED BY <1>1, <4>2, CoverStays
      <3> QED BY <1>7, <3>2, <3>3
    <2> QED BY <1>1, <1>5, <2>1 DEF CoverInv
  <1>11. DepthInv'
    <2>1. Depth(e) # bounds.maxDepth
      <3>1. Depth(e) < bounds.maxDepth
        BY <1>5 DEF LineInv
      <3>2. e \in DOMAIN known
        BY DEF ContextTyped
      <3> QED BY <1>3, <3>1, <3>2
    <2> QED BY <1>1, <1>4, <1>7, <2>1 DEF DepthInv
  <1>12. TraceInv'
    BY <1>1 DEF TraceInv
  <1> QED BY <1>8, <1>9, <1>10, <1>11, <1>12

\* What trying an operation is: which one, what it leads to, and along which trace; and
\* what it changes.
Tries(op, y, t) ==
    /\ op = OperationAt(scenario, expanding, First(left))
    /\ y = After(scenario, expanding, op) /\ t = Append(known[expanding], op)
Tried(op, y, t) ==
    /\ contextAt = "expand" /\ left # {} /\ left' = left \ {First(left)} /\ First(left) \in left
    /\ violations' = IF Violating(scenario, y) THEN violations \cup {t} ELSE violations
    /\ UNCHANGED <<scenario, bounds, expanding, contextAt>>
    /\ ContextOpen /\ ContextOpen' /\ "transitions" \notin limits /\ "transitions" \notin limits'
    /\ op \in OperationsOf(scenario, expanding) /\ op \in Ops(scenario) /\ y \in StatesOf(scenario)
    /\ expanding \in DOMAIN known /\ Depth(expanding) < bounds.maxDepth
    /\ t \in Seq(Ops(scenario)) /\ Len(t) = Depth(expanding) + 1
    /\ ReplaySchedule(scenario, t) = [ok |-> TRUE, state |-> y]
    /\ \/ UNCHANGED <<known, line>> /\ ((limits' = limits /\ y \in DOMAIN known) \/ limits' = limits \cup {"states"})
       \/ /\ y \notin DOMAIN known /\ "states" \notin limits
          /\ known' = [x \in DOMAIN known \cup {y} |-> IF x = y THEN t ELSE known[x]]
          /\ line' = Append(line, y) /\ UNCHANGED limits
    /\ "states" \in limits' => Cardinality(DOMAIN known') >= bounds.maxStates

\* An operation is tried: what it shows is noted, and so what was tried stays covered.
LEMMA TryIs ==
    ASSUME ContextInv, TryOperation, NEW op, NEW y, NEW t, Tries(op, y, t)
    PROVE  Tried(op, y, t)
  <1> DEFINE e == expanding
  <1> USE DEF ContextInv, Tries
  <1>1. /\ contextAt = "expand" /\ left # {} /\ left' = left \ {First(left)}
        /\ violations' = IF Violating(scenario, y) THEN violations \cup {t} ELSE violations
        /\ UNCHANGED <<scenario, bounds, expanding, contextAt>>
        /\ IF y \in DOMAIN known THEN UNCHANGED <<known, line, limits>>
           ELSE IF Cardinality(DOMAIN known) >= bounds.maxStates
                THEN limits' = limits \cup {"states"} /\ UNCHANGED <<known, line>>
           ELSE /\ known' = [x \in DOMAIN known \cup {y} |-> IF x = y THEN t ELSE known[x]]
                /\ line' = Append(line, y) /\ UNCHANGED limits
    BY DEF TryOperation
  <1>2. "transitions" \notin limits /\ "transitions" \notin limits' /\ ContextOpen /\ ContextOpen'
    <2>1. "transitions" \notin limits
      BY <1>1 DEF LineInv
    <2>2. "transitions" \notin limits'
      BY <1>1, <2>1
    <2> QED BY <1>1, <2>1, <2>2 DEF ContextOpen
  <1>3. scenario \in Scenarios /\ e \in DOMAIN known /\ e \in StatesOf(scenario) /\ known[e] \in Seq(Ops(scenario))
    BY DEF ContextTyped
  <1>4. /\ Places(scenario, e) \in SUBSET (Nat \X Nat)
        /\ \A p \in Places(scenario, e) : OperationAt(scenario, e, p) \in OperationsOf(scenario, e)
        /\ \A o \in OperationsOf(scenario, e) : After(scenario, e, o) \in StatesOf(scenario)
    BY <1>3, OperationsAre
  <1>5. First(left) \in left /\ First(left) \in Places(scenario, e)
    <2>1. left \in SUBSET (Nat \X Nat) /\ left \in SUBSET Places(scenario, e)
      BY <1>4 DEF ContextTyped
    <2>2. First(left) \in left
      BY <1>1, <2>1, FirstIs
    <2> QED BY <2>1, <2>2
  <1>6. op \in OperationsOf(scenario, e) /\ op \in Ops(scenario) /\ y \in StatesOf(scenario)
    <2>1. op \in OperationsOf(scenario, e)
      BY <1>4, <1>5
    <2> QED BY <1>3, <1>4, <2>1 DEF Ops
  <1>7. t \in Seq(Ops(scenario)) /\ Len(t) = Depth(e) + 1
    <2> DEFINE A == Ops(scenario)
               u == known[e]
    <2>1. u \in Seq(A) /\ op \in A /\ t = Append(u, op)
      BY <1>3, <1>6
    <2> HIDE DEF A, u
    <2>2. t \in Seq(A) /\ Len(t) = Len(u) + 1
      BY <2>1
    <2> QED BY <2>2 DEF A, u, Depth
  <1>8. ReplaySchedule(scenario, t) = [ok |-> TRUE, state |-> y]
    <2>1. ReplaySchedule(scenario, t) = ReplayOperation(scenario, ReplaySchedule(scenario, known[e]), op)
      BY <1>3, <1>6, ReplaysMore
    <2>2. ReplaySchedule(scenario, known[e]) = [ok |-> TRUE, state |-> e]
      BY <1>3 DEF TraceInv, LeadsTo
    <2> DEFINE r == ReplaySchedule(scenario, known[e])
    <2>3. r.ok /\ r.state = e
      BY <2>2
    <2>4. ReplaySchedule(scenario, t) = ReplayOperation(scenario, r, op) /\ r = [ok |-> TRUE, state |-> e]
      BY <2>1, <2>2
    <2>5. op \in OperationsOf(scenario, r.state) /\ After(scenario, r.state, op) = y
      BY <1>6, <2>3
    <2> HIDE DEF r
    <2>6. ReplayOperation(scenario, r, op) = [r EXCEPT !.state = y]
      BY <2>3, <2>5 DEF ReplayOperation
    <2> QED BY <2>4, <2>6
  <1>9. Depth(e) < bounds.maxDepth
    BY <1>2 DEF LineInv
  <1>10. "states" \in limits => Cardinality(DOMAIN known) >= bounds.maxStates
    BY DEF CoverInv
  <1>11. "states" \in limits' => Cardinality(DOMAIN known') >= bounds.maxStates
    BY <1>1, <1>10
  <1>12. \/ UNCHANGED <<known, line>> /\ ((limits' = limits /\ y \in DOMAIN known) \/ limits' = limits \cup {"states"})
         \/ /\ y \notin DOMAIN known /\ "states" \notin limits
            /\ known' = [x \in DOMAIN known \cup {y} |-> IF x = y THEN t ELSE known[x]]
            /\ line' = Append(line, y) /\ UNCHANGED limits
    BY <1>1, <1>10
  <1> QED BY <1>1, <1>2, <1>3, <1>5, <1>6, <1>7, <1>8, <1>9, <1>11, <1>12 DEF Tried

\* What is known is one step deeper than the state in expansion at the most.
LEMMA OneDeeper ==
    ASSUME ContextInv, ContextOpen
    PROVE  \A z \in DOMAIN known : Depth(z) <= Depth(expanding) + 1
  <1> SUFFICES ASSUME NEW z \in DOMAIN known PROVE Depth(z) <= Depth(expanding) + 1
    OBVIOUS
  <1>1. ContextTyped /\ LineInv
    BY DEF ContextInv
  <1>2. Depth(z) \in Nat /\ Depth(expanding) \in Nat
    BY <1>1, DepthsAre DEF ContextTyped
  <1>3. z \in InLine(line) => Depth(z) <= Depth(expanding) + 1
    BY <1>1 DEF LineInv
  <1>4. z \in Expanded => Depth(z) <= Depth(expanding)
    BY <1>1 DEF LineInv
  <1>5. z \in InLine(line) \/ z = expanding \/ z \in Expanded
    BY DEF Expanded
  <1> QED BY <1>2, <1>3, <1>4, <1>5

\* It leads to a state that is known, or that there is no room for, ...
LEMMA TryKnown ==
    ASSUME ContextInv, TryOperation, UNCHANGED <<known, line>>, NEW op, NEW y, NEW t, Tries(op, y, t)
    PROVE  ContextInv'
  <1> DEFINE e == expanding
  <1>1. /\ contextAt = "expand" /\ left # {} /\ left' = left \ {First(left)} /\ First(left) \in left
        /\ violations' = IF Violating(scenario, y) THEN violations \cup {t} ELSE violations
        /\ UNCHANGED <<scenario, bounds, expanding, contextAt>>
        /\ ContextOpen /\ ContextOpen' /\ "transitions" \notin limits /\ "transitions" \notin limits'
        /\ op \in OperationsOf(scenario, expanding) /\ op \in Ops(scenario) /\ y \in StatesOf(scenario)
        /\ expanding \in DOMAIN known /\ Depth(expanding) < bounds.maxDepth
        /\ t \in Seq(Ops(scenario)) /\ Len(t) = Depth(expanding) + 1
        /\ ReplaySchedule(scenario, t) = [ok |-> TRUE, state |-> y]
        /\ \/ UNCHANGED <<known, line>> /\ ((limits' = limits /\ y \in DOMAIN known) \/ limits' = limits \cup {"states"})
           \/ /\ y \notin DOMAIN known /\ "states" \notin limits
              /\ known' = [x \in DOMAIN known \cup {y} |-> IF x = y THEN t ELSE known[x]]
              /\ line' = Append(line, y) /\ UNCHANGED limits
        /\ "states" \in limits' => Cardinality(DOMAIN known') >= bounds.maxStates
    <2>1. Tried(op, y, t)
      BY TryIs
    <2> QED BY <2>1 DEF Tried, Tries
  <1>18. op = OperationAt(scenario, e, First(left)) /\ y = After(scenario, e, op) /\ t = Append(known[e], op)
    BY DEF Tries
  <1> USE DEF ContextInv
  <1>3. /\ \A x \in DOMAIN known : Depth(x) \in Nat /\ known[x] \in Seq(Ops(scenario)) /\ x \in StatesOf(scenario)
        /\ bounds.maxDepth \in Nat \ {0} /\ scenario \in Scenarios
        /\ InLine(line) \subseteq DOMAIN known /\ Expanded \subseteq DOMAIN known
        /\ \A k \in DOMAIN line : k \in Nat /\ line[k] \in InLine(line)
    BY DepthsAre
  <1>4. \A x : Depth(x)' = Depth(x)
    BY DEF Depth
  <1>2. (limits' = limits /\ y \in DOMAIN known) \/ limits' = limits \cup {"states"}
    <2>1. ~(y \notin DOMAIN known /\ known' = [x \in DOMAIN known \cup {y} |-> IF x = y THEN t ELSE known[x]])
      OBVIOUS
    <2> QED BY <1>1, <2>1
  <1>5. limits \subseteq limits' /\ limits' \subseteq limits \cup {"states"} /\ violations \subseteq violations'
    BY <1>1, <1>2
  <1>7. Expanded' = Expanded
    BY <1>1 DEF Expanded
  <1>13. \A z \in DOMAIN known : Depth(z) <= Depth(e) + 1
    BY <1>1, OneDeeper
  <1>8. ContextTyped'
    BY <1>1, <1>5 DEF ContextTyped
  <1>9. LineInv'
    BY <1>1, <1>4, <1>7 DEF LineInv
  <1>10. CoverInv'
    <2>1. ASSUME NEW x, NEW o, Covered(x, o) PROVE Covered(x, o)'
      <3>1. (After(scenario, x, o))' = After(scenario, x, o)
        BY <1>1 DEF After
      <3> QED BY <1>1, <1>4, <1>5, <2>1, <3>1 DEF Covered
    <2>2. ASSUME NEW x \in Expanded', Depth(x)' < bounds.maxDepth', NEW o \in OperationsOf(scenario, x)'
          PROVE  Covered(x, o)'
      <3>1. x \in Expanded /\ Depth(x) < bounds.maxDepth /\ o \in OperationsOf(scenario, x)
        BY <1>1, <1>4, <1>7, <2>2
      <3>2. Covered(x, o)
        BY <3>1 DEF CoverInv
      <3> QED BY <2>1, <3>2
    <2>3. ASSUME NEW p \in (Places(scenario, expanding) \ left)'
          PROVE  Covered(expanding, OperationAt(scenario, expanding, p))'
      <3>1. p \in Places(scenario, e) /\ (p \notin left \/ p = First(left))
        BY <1>1, <2>3
      <3>2. CASE p \notin left
        <4>1. Covered(e, OperationAt(scenario, e, p))
          BY <1>1, <3>1, <3>2 DEF CoverInv
        <4>2. \A o : Covered(e, o) => Covered(e, o)'
          BY <2>1, <1>1
        <4> QED BY <1>1, <4>1, <4>2
      <3>3. CASE p = First(left)
        <4>1. Violating(scenario, y) => t \in violations'
          BY <1>1
        <4>2. "states" \notin limits' => y \in DOMAIN known /\ Depth(y) <= Depth(e) + 1
          <5>1. ASSUME "states" \notin limits' PROVE y \in DOMAIN known
            BY <1>2, <5>1
          <5>2. ASSUME y \in DOMAIN known PROVE Depth(y) <= Depth(e) + 1
            BY <1>13, <5>2
          <5> QED BY <5>1, <5>2
        <4>3. /\ (After(scenario, expanding, OperationAt(scenario, expanding, p)))' = y
              /\ (Append(known[expanding], OperationAt(scenario, expanding, p)))' = t
          BY <1>1, <1>18, <3>3 DEF After, OperationAt
        <4> QED BY <1>1, <1>4, <4>1, <4>2, <4>3 DEF Covered
      <3> QED BY <3>1, <3>2, <3>3
    <2> QED BY <1>1, <2>2, <2>3 DEF CoverInv
  <1>11. DepthInv'
    <2>1. "depth" \in limits' <=> "depth" \in limits
      BY <1>5
    <2> QED BY <1>1, <1>4, <1>7, <2>1 DEF DepthInv
  <1>12. TraceInv'
    <2>1. ASSUME NEW u \in violations' PROVE Violates(scenario, u)
      <3>1. CASE u \in violations
        BY <3>1 DEF TraceInv
      <3>2. CASE u = t /\ Violating(scenario, y)
        <4>1. ReplaySchedule(scenario, u).ok /\ ReplaySchedule(scenario, u).state = y
          BY <1>1, <3>2
        <4> QED BY <3>2, <4>1 DEF Violates
      <3>3. u \in violations \/ (u = t /\ Violating(scenario, y))
        BY <1>1, <2>1
      <3> QED BY <3>1, <3>2, <3>3
    <2> QED BY <1>1, <2>1 DEF TraceInv
  <1> QED BY <1>8, <1>9, <1>10, <1>11, <1>12

\* ... or to one that is new, which its trace is the first to reach.
LEMMA TryNew ==
    ASSUME ContextInv, TryOperation, ~UNCHANGED <<known, line>>,
           NEW op, NEW y, NEW t, Tries(op, y, t)
    PROVE  ContextInv'
  <1> DEFINE e == expanding
             K == DOMAIN known
             D(x) == Len(known'[x])
  <1>1. /\ contextAt = "expand" /\ left # {} /\ left' = left \ {First(left)} /\ First(left) \in left
        /\ violations' = IF Violating(scenario, y) THEN violations \cup {t} ELSE violations
        /\ UNCHANGED <<scenario, bounds, expanding, contextAt>>
        /\ ContextOpen /\ ContextOpen' /\ "transitions" \notin limits /\ "transitions" \notin limits'
        /\ op \in OperationsOf(scenario, expanding) /\ op \in Ops(scenario) /\ y \in StatesOf(scenario)
        /\ expanding \in DOMAIN known /\ Depth(expanding) < bounds.maxDepth
        /\ t \in Seq(Ops(scenario)) /\ Len(t) = Depth(expanding) + 1
        /\ ReplaySchedule(scenario, t) = [ok |-> TRUE, state |-> y]
        /\ \/ UNCHANGED <<known, line>> /\ ((limits' = limits /\ y \in DOMAIN known) \/ limits' = limits \cup {"states"})
           \/ /\ y \notin DOMAIN known /\ "states" \notin limits
              /\ known' = [x \in DOMAIN known \cup {y} |-> IF x = y THEN t ELSE known[x]]
              /\ line' = Append(line, y) /\ UNCHANGED limits
        /\ "states" \in limits' => Cardinality(DOMAIN known') >= bounds.maxStates
    <2>1. Tried(op, y, t)
      BY TryIs
    <2> QED BY <2>1 DEF Tried, Tries
  <1>18. op = OperationAt(scenario, e, First(left)) /\ y = After(scenario, e, op) /\ t = Append(known[e], op)
    BY DEF Tries
  <1> USE DEF ContextInv
  <1>3. /\ \A x \in DOMAIN known : Depth(x) \in Nat /\ known[x] \in Seq(Ops(scenario)) /\ x \in StatesOf(scenario)
        /\ bounds.maxDepth \in Nat \ {0} /\ scenario \in Scenarios
        /\ InLine(line) \subseteq DOMAIN known /\ Expanded \subseteq DOMAIN known
        /\ \A k \in DOMAIN line : k \in Nat /\ line[k] \in InLine(line)
    BY DepthsAre
  <1>2. /\ y \notin K /\ "states" \notin limits /\ limits' = limits
        /\ known' = [x \in K \cup {y} |-> IF x = y THEN t ELSE known[x]]
        /\ line' = Append(line, y)
    BY <1>1
  <1>4. DOMAIN known' = K \cup {y} /\ known'[y] = t /\ \A x \in K : known'[x] = known[x]
    BY <1>2
  <1>5. (\A x \in K : D(x) = Depth(x)) /\ D(y) = Depth(e) + 1
    <2>1. \A x : D(x) = Len(known'[x])
      OBVIOUS
    <2> QED BY <1>1, <1>4, <2>1 DEF Depth
  <1>17. \A x : Depth(x)' = D(x)
    BY DEF Depth
  <1> HIDE DEF D
  <1>6. /\ line' \in Seq(K \cup {y}) /\ DOMAIN line' = DOMAIN line \cup {Len(line) + 1} /\ Len(line) \in Nat
        /\ DOMAIN line = 1 .. Len(line) /\ line'[Len(line) + 1] = y /\ \A k \in DOMAIN line : line'[k] = line[k]
    <2>1. line \in Seq(K)
      BY DEF ContextTyped
    <2> HIDE DEF K
    <2> QED BY <1>2, <2>1
  <1>7. InLine(line') = InLine(line) \cup {y}
    <2>1. ASSUME NEW z \in InLine(line') PROVE z \in InLine(line) \cup {y}
      <3>1. PICK k \in DOMAIN line' : z = line'[k]
        BY <2>1 DEF InLine
      <3> QED BY <1>6, <3>1 DEF InLine
    <2>2. ASSUME NEW z \in InLine(line) PROVE z \in InLine(line')
      <3>1. PICK k \in DOMAIN line : z = line[k]
        BY <2>2 DEF InLine
      <3> QED BY <1>6, <3>1 DEF InLine
    <2>3. y \in InLine(line')
      BY <1>6 DEF InLine
    <2> QED BY <2>1, <2>2, <2>3
  <1>8. Expanded' = Expanded
    <2>1. e \in K
      BY <1>1
    <2> QED BY <1>1, <1>2, <1>4, <1>7, <2>1 DEF Expanded
  <1>9. \A z \in K : Depth(z) <= Depth(e) + 1
    BY <1>1, OneDeeper
  <1>10. y \notin ReachedIn(scenario, Depth(e)) /\ y \in ReachedIn(scenario, Depth(e) + 1)
    <2>1. Depth(e) \in Nat /\ bounds.maxDepth \in Nat /\ Depth(e) <= bounds.maxDepth
      BY <1>1, <1>3
    <2>2. ASSUME NEW x \in DOMAIN known, Depth(x) < Depth(e) PROVE x \in Expanded
      <3>1. x \notin InLine(line)
        <4>1. ASSUME x \in InLine(line) PROVE FALSE
          <5>1. Depth(e) <= Depth(x) /\ Depth(x) \in Nat
            BY <1>1, <1>3, <4>1 DEF LineInv
          <5> QED BY <2>1, <2>2, <5>1
        <4> QED BY <4>1
      <3>2. x # e
        BY <2>1, <2>2
      <3> QED BY <3>1, <3>2 DEF Expanded
    <2> DEFINE d == Depth(e)
    <2>3. \A x \in DOMAIN known : Depth(x) < d => x \in Expanded
      BY <2>2
    <2>4. d \in Nat /\ d <= bounds.maxDepth /\ "states" \notin limits
      BY <1>2, <2>1
    <2> HIDE DEF d
    <2>5. ReachedIn(scenario, d) \subseteq DOMAIN known
      BY <2>3, <2>4, NearAreKnown
    <2>6. e \in ReachedIn(scenario, d)
      BY <1>1 DEF TraceInv, LeadsTo, d, Depth
    <2>7. ReachedIn(scenario, d + 1) = Further(scenario, ReachedIn(scenario, d))
      BY <2>4, ReachedIs
    <2>8. y \in Successors(scenario, e)
      BY <1>1, <1>18 DEF Successors
    <2>9. y \in ReachedIn(scenario, d + 1)
      <3> HIDE DEF e
      <3> QED BY <2>6, <2>7, <2>8 DEF Further
    <2>10. y \notin ReachedIn(scenario, d)
      BY <1>2, <2>5
    <2> QED BY <2>9, <2>10 DEF d
  <1>11. violations \subseteq violations' /\ (Violating(scenario, y) => t \in violations')
         /\ \A u \in violations' : u \in violations \/ (u = t /\ Violating(scenario, y))
    BY <1>1
  <1>12. ContextTyped'
    <2>1. DOMAIN known' \subseteq StatesOf(scenario)
      BY <1>1, <1>4 DEF ContextTyped
    <2>2. known' \in [DOMAIN known' -> Seq(Ops(scenario))]
      <3>1. \A x \in DOMAIN known' : known'[x] \in Seq(Ops(scenario))
        BY <1>1, <1>3, <1>4
      <3> QED BY <1>2, <1>4, <3>1
    <2>3. line' \in Seq(DOMAIN known') /\ expanding' \in DOMAIN known'
      BY <1>1, <1>4, <1>6
    <2>4. left' \in SUBSET Places(scenario, expanding)
      BY <1>1 DEF ContextTyped
    <2> QED BY <1>1, <1>2, <2>1, <2>2, <2>3, <2>4 DEF ContextTyped
  <1>13. LineInv'
    <2>0. /\ Depth(e) \in Nat /\ e \in K /\ D(e) = Depth(e) /\ Depth(e) < bounds.maxDepth
          /\ \A x \in K : Depth(x) \in Nat
      BY <1>1, <1>3, <1>5
    <2>1. ASSUME NEW j \in DOMAIN line', NEW k \in DOMAIN line'
          PROVE  /\ j < k => line'[j] # line'[k] /\ D(line'[j]) <= D(line'[k])
                 /\ D(line'[k]) <= D(line'[j]) + 1
      <3>1. \A m \in DOMAIN line : /\ line'[m] = line[m] /\ line[m] \in K /\ line[m] # y
                                   /\ D(line'[m]) = Depth(line[m]) /\ Depth(line[m]) \in Nat
                                   /\ Depth(e) <= Depth(line[m]) /\ Depth(line[m]) <= Depth(e) + 1
        <4>1. ASSUME NEW m \in DOMAIN line PROVE line[m] \in InLine(line) /\ line[m] \in K /\ line'[m] = line[m]
          BY <1>3, <1>6
        <4>2. ASSUME NEW m \in DOMAIN line
              PROVE  Depth(e) <= Depth(line[m]) /\ Depth(line[m]) <= Depth(e) + 1
          BY <1>1, <4>1 DEF LineInv
        <4> QED BY <1>2, <1>5, <2>0, <4>1, <4>2
      <3>2. CASE j \in DOMAIN line /\ k \in DOMAIN line
        <4>1. /\ j < k => line[j] # line[k] /\ Depth(line[j]) <= Depth(line[k])
              /\ Depth(line[k]) <= Depth(line[j]) + 1
          BY <3>2 DEF LineInv
        <4> QED BY <3>1, <3>2, <4>1
      <3>3. CASE j \in DOMAIN line /\ k = Len(line) + 1
        <4>1. line'[k] = y /\ D(line'[k]) = Depth(e) + 1
          BY <1>5, <1>6, <3>3
        <4> QED BY <2>0, <3>1, <3>3, <4>1
      <3>4. CASE j = Len(line) + 1 /\ k \in DOMAIN line
        <4>1. line'[j] = y /\ D(line'[j]) = Depth(e) + 1 /\ ~(j < k)
          BY <1>5, <1>6, <3>4
        <4> QED BY <2>0, <3>1, <3>4, <4>1
      <3>5. CASE j = Len(line) + 1 /\ k = Len(line) + 1
        <4>1. line'[j] = y /\ D(line'[j]) = Depth(e) + 1 /\ ~(j < k) /\ j = k
          BY <1>5, <1>6, <3>5
        <4> QED BY <2>0, <4>1
      <3> QED BY <1>6, <3>2, <3>3, <3>4, <3>5
    <2>2. ASSUME NEW x \in Expanded' PROVE x \in K /\ x \in Expanded /\ D(x) = Depth(x) /\ Depth(x) <= Depth(e)
      <3>1. x \in Expanded /\ x \in K
        BY <1>3, <1>8
      <3> QED BY <1>1, <1>5, <3>1 DEF LineInv
    <2>3. ASSUME NEW z \in InLine(line')
          PROVE  z # e /\ Depth(e) <= D(z) /\ D(z) <= Depth(e) + 1
      <3>1. CASE z = y
        BY <1>2, <1>5, <2>0, <3>1
      <3>2. CASE z \in InLine(line)
        <4>1. z \in K /\ D(z) = Depth(z)
          BY <1>3, <1>5, <3>2
        <4> QED BY <1>1, <3>2, <4>1 DEF LineInv
      <3> QED BY <1>7, <3>1, <3>2
    <2>4. ASSUME NEW x \in Expanded', NEW z \in InLine(line') PROVE D(x) <= D(z)
      <3>1. z = y \/ z \in InLine(line)
        BY <1>7
      <3>2. z \in InLine(line) => D(z) = Depth(z) /\ Depth(z) \in Nat
        BY <1>3, <1>5
      <3>3. D(z) \in Nat /\ Depth(x) \in Nat
        BY <1>5, <2>0, <2>2, <3>1, <3>2
      <3> QED BY <2>0, <2>2, <2>3, <3>3
    <2> QED BY <1>1, <2>0, <2>1, <2>2, <2>3, <2>4 DEF LineInv, Depth, D
  <1>14. CoverInv'
    <2>1. ASSUME NEW x \in K, NEW o, Covered(x, o) PROVE Covered(x, o)'
      <3> DEFINE z == After(scenario, x, o)
      <3>1. (After(scenario, x, o))' = z
        BY <1>1 DEF After
      <3>2. z \in K /\ Depth(z) <= Depth(x) + 1
        BY <1>2, <2>1 DEF Covered
      <3>3. z \in DOMAIN known' /\ D(z) <= D(x) + 1
        <4> HIDE DEF z
        <4> QED BY <1>4, <1>5, <3>2
      <3>4. Violating(scenario, z) => Append(known[x], o) \in violations'
        BY <1>11, <2>1 DEF Covered
      <3>5. known'[x] = known[x]
        BY <1>4
      <3> HIDE DEF z
      <3> QED BY <1>1, <3>1, <3>3, <3>4, <3>5, <1>17 DEF Covered
    <2>2. ASSUME NEW x \in Expanded', D(x) < bounds.maxDepth, NEW o \in OperationsOf(scenario, x)'
          PROVE  Covered(x, o)'
      <3>1. x \in Expanded /\ x \in K
        BY <1>3, <1>8
      <3>2. Depth(x) < bounds.maxDepth /\ o \in OperationsOf(scenario, x)
        <4>1. D(x) = Depth(x)
          BY <1>5, <3>1
        <4> QED BY <1>1, <2>2, <4>1
      <3>3. Covered(x, o)
        BY <3>1, <3>2 DEF CoverInv
      <3> QED BY <2>1, <3>1, <3>3
    <2>3. ASSUME NEW p \in (Places(scenario, expanding) \ left)'
          PROVE  Covered(expanding, OperationAt(scenario, expanding, p))'
      <3>1. p \in Places(scenario, e) /\ (p \notin left \/ p = First(left))
        BY <1>1, <2>3
      <3>2. CASE p \notin left
        <4>1. Covered(e, OperationAt(scenario, e, p))
          BY <1>1, <3>1, <3>2 DEF CoverInv
        <4>2. \A o : Covered(e, o) => Covered(e, o)'
          BY <2>1, <1>1
        <4> QED BY <1>1, <4>1, <4>2
      <3>3. CASE p = First(left)
        <4>1. /\ (After(scenario, expanding, OperationAt(scenario, expanding, p)))' = y
              /\ OperationAt(scenario, expanding, p)' = op
          BY <1>1, <1>18, <3>3 DEF After, OperationAt
        <4>2. known'[e] = known[e] /\ expanding' = e /\ e \in K
          <5>1. e \in K /\ expanding' = e
            BY <1>1
          <5> QED BY <1>4, <5>1
        <4>3. (Append(known[expanding], OperationAt(scenario, expanding, p)))' = t
          BY <1>18, <4>1, <4>2
        <4>4. D(e) = Depth(e)
          BY <1>5, <4>2
        <4>5. y \in DOMAIN known' /\ D(y) = Depth(e) + 1 /\ Depth(e) \in Nat
          BY <1>3, <1>4, <1>5, <4>2
        <4> QED BY <1>1, <1>11, <4>1, <4>3, <4>4, <4>5, <1>17 DEF Covered
      <3> QED BY <3>1, <3>2, <3>3
    <2> QED BY <1>1, <2>2, <2>3, <1>17 DEF CoverInv
  <1>15. DepthInv'
    <2>1. ASSUME NEW x \in DOMAIN known' PROVE D(x) <= bounds.maxDepth
      <3>1. CASE x = y
        BY <1>1, <1>3, <1>5, <3>1
      <3>2. CASE x \in K
        BY <1>5, <3>2 DEF DepthInv
      <3> QED BY <1>4, <3>1, <3>2
    <2>2. ASSUME NEW x \in Expanded', D(x) = bounds.maxDepth, OperationsOf(scenario, x) # {}
          PROVE  "depth" \in limits
      <3>1. x \in Expanded /\ x \in K
        BY <1>3, <1>8
      <3>2. Depth(x) = bounds.maxDepth
        BY <1>5, <2>2, <3>1
      <3> QED BY <2>2, <3>1, <3>2 DEF DepthInv
    <2>3. ASSUME "depth" \in limits
          PROVE  \E x \in DOMAIN known' : D(x) = bounds.maxDepth /\ OperationsOf(scenario, x) # {}
      <3>1. PICK x \in K : Depth(x) = bounds.maxDepth /\ OperationsOf(scenario, x) # {}
        BY <2>3 DEF DepthInv
      <3>2. x \in DOMAIN known' /\ D(x) = bounds.maxDepth
        BY <1>4, <1>5, <3>1
      <3> QED BY <3>1, <3>2
    <2> QED BY <1>1, <1>2, <2>1, <2>2, <2>3, <1>17 DEF DepthInv
  <1>16. TraceInv'
    <2>1. ASSUME NEW u \in violations' PROVE Violates(scenario, u)
      <3>1. CASE u \in violations
        BY <3>1 DEF TraceInv
      <3>2. CASE u = t /\ Violating(scenario, y)
        <4>1. ReplaySchedule(scenario, u).ok /\ ReplaySchedule(scenario, u).state = y
          BY <1>1, <3>2
        <4> QED BY <3>2, <4>1 DEF Violates
      <3> QED BY <1>11, <3>1, <3>2
    <2>2. LeadsTo(scenario, t, y)
      <3>1. Len(t) = Depth(e) + 1 /\ Depth(e) \in Nat /\ ReplaySchedule(scenario, t) = [ok |-> TRUE, state |-> y]
        BY <1>1, <1>3
      <3>2. Len(t) - 1 = Depth(e)
        BY <3>1
      <3> HIDE DEF e
      <3> QED BY <1>10, <3>1, <3>2 DEF LeadsTo
    <2>3. InitialState(scenario) \in K /\ known[InitialState(scenario)] = <<>> /\ \A x \in K : LeadsTo(scenario, known[x], x)
      BY DEF TraceInv
    <2> HIDE DEF K
    <2>4. InitialState(scenario) \in DOMAIN known' /\ known'[InitialState(scenario)] = <<>>
      BY <1>4, <2>3
    <2>5. ASSUME NEW x \in DOMAIN known' PROVE LeadsTo(scenario, known'[x], x)
      BY <1>4, <2>2, <2>3
    <2> QED BY <1>1, <2>1, <2>4, <2>5 DEF TraceInv
  <1> QED BY <1>12, <1>13, <1>14, <1>15, <1>16

\* The exploration ends, with transitions missing ...
LEMMA TransitionsEndStep == ASSUME ContextInv, TransitionsEnd PROVE ContextInv'
  <1> USE DEF ContextInv
  <1>1. /\ contextAt = "expand" /\ limits' = limits \cup {"transitions"} /\ contextAt' = "done"
        /\ UNCHANGED <<scenario, bounds, known, line, expanding, left, tried, violations>>
    BY DEF TransitionsEnd
  <1>2. ContextOpen /\ ContextOpen' /\ \A x : Depth(x)' = Depth(x)
    BY <1>1 DEF ContextOpen, Depth
  <1>3. Expanded' = Expanded
    BY <1>1, <1>2 DEF Expanded
  <1>4. \A x, op : Covered(x, op) => Covered(x, op)'
    BY <1>1, CoverStays
  <1>5. ContextTyped'
    BY <1>1 DEF ContextTyped
  <1>6. LineInv'
    BY <1>1, <1>2, <1>3 DEF LineInv
  <1>7. CoverInv'
    <2>1. ASSUME NEW x \in Expanded', Depth(x)' < bounds.maxDepth', NEW op \in OperationsOf(scenario, x)'
          PROVE  Covered(x, op)'
      <3>1. x \in Expanded /\ Depth(x) < bounds.maxDepth /\ op \in OperationsOf(scenario, x)
        BY <1>1, <1>2, <1>3, <2>1
      <3>2. Covered(x, op)
        BY <3>1 DEF CoverInv
      <3> QED BY <1>4, <3>2
    <2>2. ASSUME NEW p \in (Places(scenario, expanding) \ left)'
          PROVE  Covered(expanding, OperationAt(scenario, expanding, p))'
      <3>1. Covered(expanding, OperationAt(scenario, expanding, p))
        BY <1>1, <1>2 DEF CoverInv
      <3> QED BY <1>1, <1>4, <3>1
    <2>3. "states" \in limits' => "states" \in limits
      BY <1>1
    <2> QED BY <1>1, <1>2, <2>1, <2>2, <2>3 DEF CoverInv
  <1>8. DepthInv'
    <2>1. "depth" \in limits' <=> "depth" \in limits
      BY <1>1
    <2> QED BY <1>1, <1>2, <1>3, <2>1 DEF DepthInv
  <1>9. TraceInv'
    BY <1>1 DEF TraceInv
  <1> QED BY <1>5, <1>6, <1>7, <1>8, <1>9

\* ... or with none, when the line is empty.
LEMMA QueueEndsStep == ASSUME ContextInv, QueueEnds PROVE ContextInv'
  <1> USE DEF ContextInv
  <1>1. /\ contextAt = "queue" /\ line = <<>> /\ contextAt' = "done"
        /\ UNCHANGED <<scenario, bounds, known, line, expanding, left, tried, violations, limits>>
    BY DEF QueueEnds
  <1>2. ~ContextOpen /\ ~ContextOpen' /\ \A x : Depth(x)' = Depth(x)
    <2>1. "transitions" \notin limits
      BY <1>1 DEF LineInv
    <2> QED BY <1>1, <2>1 DEF ContextOpen, Depth
  <1>3. Expanded' = Expanded
    BY <1>1, <1>2 DEF Expanded
  <1>5. ContextTyped'
    BY <1>1 DEF ContextTyped
  <1>6. LineInv'
    BY <1>1, <1>2, <1>3 DEF LineInv
  <1>7. CoverInv'
    <2>1. ASSUME NEW x \in Expanded', Depth(x)' < bounds.maxDepth', NEW op \in OperationsOf(scenario, x)'
          PROVE  Covered(x, op)'
      <3>1. x \in Expanded /\ Depth(x) < bounds.maxDepth /\ op \in OperationsOf(scenario, x)
        BY <1>1, <1>2, <1>3, <2>1
      <3>2. Covered(x, op)
        BY <3>1 DEF CoverInv
      <3> QED BY <1>1, <3>2, CoverStays
    <2> QED BY <1>1, <1>2, <2>1 DEF CoverInv
  <1>8. DepthInv'
    BY <1>1, <1>2, <1>3 DEF DepthInv
  <1>9. TraceInv'
    BY <1>1 DEF TraceInv
  <1> QED BY <1>5, <1>6, <1>7, <1>8, <1>9

\* So every step keeps the invariant, ...
LEMMA ContextInvStep == ContextInv /\ [ContextNext]_contextVars => ContextInv'
  <1> SUFFICES ASSUME ContextInv, [ContextNext]_contextVars PROVE ContextInv'
    OBVIOUS
  <1>1. CASE TakeState
    BY <1>1, TakeDeep, TakeShallow
  <1>2. CASE TryOperation
    <2> DEFINE op0 == OperationAt(scenario, expanding, First(left))
               y0 == After(scenario, expanding, op0)
               t0 == Append(known[expanding], op0)
    <2>1. Tries(op0, y0, t0)
      BY DEF Tries
    <2> HIDE DEF op0, y0, t0
    <2>2. CASE UNCHANGED <<known, line>>
      BY <1>2, <2>1, <2>2, TryKnown
    <2>3. CASE ~UNCHANGED <<known, line>>
      BY <1>2, <2>1, <2>3, TryNew
    <2> QED BY <2>2, <2>3
  <1>3. CASE StateExpanded
    BY <1>3, ExpandedStep
  <1>4. CASE TransitionsEnd
    BY <1>4, TransitionsEndStep
  <1>5. CASE QueueEnds
    BY <1>5, QueueEndsStep
  <1>6. CASE UNCHANGED contextVars
    <2>1. UNCHANGED <<scenario, bounds, known, line, expanding, left, tried, violations, limits, contextAt>>
      BY <1>6 DEF contextVars
    <2>2. UNCHANGED <<Expanded, ContextOpen>> /\ \A x : Depth(x)' = Depth(x)
      BY <2>1 DEF Expanded, ContextOpen, Depth
    <2>3. \A x, op : Covered(x, op)' = Covered(x, op)
      BY <2>1 DEF Covered, After, Depth
    <2>4. ContextTyped' /\ LineInv' /\ DepthInv' /\ TraceInv'
      BY <2>1, <2>2 DEF ContextInv, ContextTyped, LineInv, DepthInv, TraceInv
    <2>5. CoverInv'
      BY <2>1, <2>2, <2>3 DEF ContextInv, CoverInv
    <2> QED BY <2>4, <2>5 DEF ContextInv
  <1> QED BY <1>1, <1>2, <1>3, <1>4, <1>5, <1>6 DEF ContextNext

\* ... from which, at the end, the traces replay, none could be shorter, and the limits
\* are true.
LEMMA ContextInvImplies == ContextInv => InterleavingsExact
  <1> SUFFICES ASSUME ContextInv, contextAt = "done" PROVE InterleavingsExact
    BY DEF InterleavingsExact, InterleavingsReplay, LimitsAreTrue
  <1> DEFINE K == DOMAIN known
  <1>1. /\ \A x \in DOMAIN known : Depth(x) \in Nat /\ known[x] \in Seq(Ops(scenario)) /\ x \in StatesOf(scenario)
        /\ bounds.maxDepth \in Nat \ {0} /\ scenario \in Scenarios
        /\ InLine(line) \subseteq DOMAIN known /\ Expanded \subseteq DOMAIN known
        /\ \A k \in DOMAIN line : k \in Nat /\ line[k] \in InLine(line)
    BY DepthsAre DEF ContextInv
  <1>2. InterleavingsReplay
    <2>1. \A x \in K : LeadsTo(scenario, known[x], x)
      BY DEF ContextInv, TraceInv
    <2>2. \A u \in violations : Violates(scenario, u)
      BY DEF ContextInv, TraceInv
    <2> QED BY <2>1, <2>2 DEF InterleavingsReplay, LeadsTo, Violates, Depth
  <1>3. ASSUME "transitions" \notin limits PROVE Expanded = K
    <2>1. line = <<>> /\ ~ContextOpen
      BY <1>3 DEF ContextInv, LineInv, ContextOpen
    <2>2. InLine(line) = {}
      BY <2>1 DEF InLine
    <2> QED BY <2>1, <2>2 DEF Expanded
  <1>4. ASSUME limits \cap {"transitions", "states"} = {}
        PROVE  /\ K = ReachedIn(scenario, bounds.maxDepth)
               /\ "depth" \in limits <=> \E x \in K : Depth(x) = bounds.maxDepth /\ OperationsOf(scenario, x) # {}
    <2>1. "transitions" \notin limits /\ "states" \notin limits /\ Expanded = K
      BY <1>3, <1>4
    <2> DEFINE n == bounds.maxDepth
    <2>2. n \in Nat /\ n <= bounds.maxDepth /\ \A x \in DOMAIN known : Depth(x) < n => x \in Expanded
      BY <1>1, <2>1
    <2>3. ReachedIn(scenario, n) \subseteq K
      <3> HIDE DEF n
      <3> QED BY <2>1, <2>2, NearAreKnown
    <2>4. ASSUME NEW x \in K PROVE x \in ReachedIn(scenario, n)
      <3> DEFINE m == Depth(x)
      <3>1. m \in Nat /\ m <= n /\ n \in Nat
        BY <1>1, <2>2 DEF ContextInv, DepthInv
      <3>2. x \in ReachedIn(scenario, m)
        BY DEF ContextInv, TraceInv, LeadsTo, Depth
      <3> HIDE DEF m, n
      <3>3. ReachedIn(scenario, m) \subseteq ReachedIn(scenario, n)
        BY <3>1, ReachedGrows
      <3> QED BY <3>2, <3>3
    <2>5. "depth" \in limits <=> \E x \in K : Depth(x) = bounds.maxDepth /\ OperationsOf(scenario, x) # {}
      BY <2>1 DEF ContextInv, DepthInv
    <2> QED BY <2>3, <2>4, <2>5
  <1>5. ASSUME limits = {} PROVE UNION {Successors(scenario, x) : x \in K} \subseteq K
    <2>1. "transitions" \notin limits /\ "states" \notin limits /\ "depth" \notin limits /\ Expanded = K
      BY <1>3, <1>5
    <2>2. ASSUME NEW x \in K, NEW y \in Successors(scenario, x) PROVE y \in K
      <3>1. PICK op \in OperationsOf(scenario, x) : y = After(scenario, x, op)
        BY <2>2 DEF Successors
      <3>2. Depth(x) # bounds.maxDepth
        BY <2>1, <3>1 DEF ContextInv, DepthInv
      <3>3. Depth(x) <= bounds.maxDepth
        BY DEF ContextInv, DepthInv
      <3>4. Depth(x) < bounds.maxDepth
        BY <1>1, <3>2, <3>3
      <3>5. Covered(x, op)
        BY <2>1, <3>1, <3>4 DEF ContextInv, CoverInv
      <3> QED BY <2>1, <3>1, <3>5 DEF Covered
    <2> QED BY <2>2
  <1>6. ASSUME "transitions" \notin limits, NEW x \in K, Depth(x) < bounds.maxDepth,
               NEW op \in OperationsOf(scenario, x), Violating(scenario, After(scenario, x, op))
        PROVE  Append(known[x], op) \in violations
    <2>1. x \in Expanded
      BY <1>3, <1>6
    <2>2. Covered(x, op)
      BY <1>6, <2>1 DEF ContextInv, CoverInv
    <2> QED BY <1>6, <2>2 DEF Covered
  <1>7. LimitsAreTrue
    BY <1>4, <1>5, <1>6 DEF LimitsAreTrue
  <1> QED BY <1>2, <1>7 DEF InterleavingsExact

\* What a multi-context exploration reports is exact: every state it keeps is one its
\* trace replays to and none shorter, every failure replays; with no limit of transitions
\* or states told, what it found is what the depth reaches, the depth limit is told
\* exactly when it cut something off, and no violation of the states kept is missed.
THEOREM InterleavingsAlwaysExact == ContextSpec => []InterleavingsExact
  <1>1. ContextInit => ContextInv
    BY ContextInvInit
  <1>2. ContextInv /\ [ContextNext]_contextVars => ContextInv'
    BY ContextInvStep
  <1>3. ContextInv => InterleavingsExact
    BY ContextInvImplies
  <1> QED BY <1>1, <1>2, <1>3, PTL DEF ContextSpec

-----------------------------------------------------------------------------
\* The managed setup: any number of processes, runs, failed calls and crashes.
\* The strengthening of OnlyVerified: a backup holds what was in place, and whoever
\* is past the verification still has the staged directory it verified.
SetupInv ==
    /\ OnlyVerified
    /\ \A p \in Pids, x \in Parts : backup[p][x] \in Kept
    /\ \A p \in Pids : process[p].step \in {"clear", "swapOut", "swapIn"} =>
                          staging[p][process[p].part] = "ready"

LEMMA SetupInvInit == SetupInit => SetupInv
  BY SetupAssumption
  DEF SetupInit, SetupInv, OnlyVerified, SetupTypeOK, Process, Kept, Contents, Ended, Parts

\* Going to another step changes that step and nothing else of the processes.
LEMMA GotoFacts ==
    ASSUME SetupInv, NEW p \in Pids, NEW step \in Ended \cup SetupSteps, Goto(p, step)
    PROVE  /\ process' \in [Pids -> Process]
           /\ \A q \in Pids : /\ process'[q].part = process[q].part
                              /\ process'[q].step = IF q = p THEN step ELSE process[q].step
  <1>1. process \in [Pids -> Process]
    BY DEF SetupInv, OnlyVerified, SetupTypeOK
  <1>2. process' = [process EXCEPT ![p] = [process[p] EXCEPT !.step = step]]
    BY <1>1 DEF Goto
  <1>3. [process[p] EXCEPT !.step = step] \in Process
    BY <1>1 DEF Process
  <1> QED BY <1>1, <1>2, <1>3 DEF Process

\* A process that notes a failed call and goes elsewhere.
LEMMA FailedRecord ==
    ASSUME NEW record \in Process, NEW n \in Nat, NEW step \in Ended \cup SetupSteps
    PROVE  [record EXCEPT !.faults = n, !.step = step] \in Process
  BY DEF Process

\* Writing one directory of one process.
PutIn(tree, p, x, content) == [tree EXCEPT ![p][x] = content]
LEMMA PutFacts ==
    ASSUME NEW S, NEW tree \in [Pids -> [Parts -> S]], NEW p \in Pids, NEW x \in Parts,
           NEW content \in S
    PROVE  PutIn(tree, p, x, content) \in [Pids -> [Parts -> S]]
  <1>1. [tree[p] EXCEPT ![x] = content] \in [Parts -> S]
    OBVIOUS
  <1> QED BY <1>1 DEF PutIn

\* Steps of the process at which nothing is claimed of its staged directory.
Quiet == (Ended \cup SetupSteps) \ {"clear", "swapOut", "swapIn"}

LEMMA QuietGoto ==
    ASSUME SetupInv, NEW p \in Pids, NEW step \in Quiet, Goto(p, step), UNCHANGED <<system, places>>
    PROVE  SetupInv'
  <1>1. /\ process' \in [Pids -> Process]
        /\ \A q \in Pids : /\ process'[q].part = process[q].part
                           /\ process'[q].step = IF q = p THEN step ELSE process[q].step
    BY GotoFacts DEF Quiet
  <1> QED BY <1>1 DEF SetupInv, OnlyVerified, SetupTypeOK, Quiet, places

LEMMA QuietAdvance ==
    ASSUME SetupInv, NEW p \in Pids, Advance(p), UNCHANGED <<system, places>>
    PROVE  SetupInv'
  <1>1. process \in [Pids -> Process]
    BY DEF SetupInv, OnlyVerified, SetupTypeOK
  <1>2. CASE process[p].part = "browsers"
    BY <1>2, QuietGoto DEF Advance, Quiet, SetupSteps, Ended
  <1>3. CASE process[p].part # "browsers"
    <2> DEFINE part == IF process[p].part = "node" THEN "js" ELSE "browsers"
               moved == [process[p] EXCEPT !.step = "check", !.part = part]
    <2>1. process' = [process EXCEPT ![p] = moved]
      BY <1>1, <1>3 DEF Advance
    <2>2. moved \in Process /\ moved.step = "check"
      BY <1>1 DEF Process, SetupSteps, Parts
    <2> HIDE DEF moved
    <2>3. process' \in [Pids -> Process] /\ process'[p].step = "check"
      BY <1>1, <2>1, <2>2
    <2>4. \A q \in Pids \ {p} : process'[q] = process[q]
      BY <1>1, <2>1
    <2> QED BY <2>3, <2>4 DEF SetupInv, OnlyVerified, SetupTypeOK, places
  <1> QED BY <1>2, <1>3

LEMMA SetupInvStep == SetupInv /\ [SetupNext]_setupVars => SetupInv'
  <1> SUFFICES ASSUME SetupInv, [SetupNext]_setupVars PROVE SetupInv'
    OBVIOUS
  <1> USE DEF Kept, Contents, Ended, SetupSteps
  <1>t. /\ final \in [Parts -> Kept] /\ archive \in Kept /\ partial \in [Pids -> Contents]
        /\ staging \in [Pids -> [Parts -> Contents]] /\ backup \in [Pids -> [Parts -> Contents]]
        /\ process \in [Pids -> Process] /\ \A q \in Pids : process[q].part \in Parts
    BY DEF SetupInv, OnlyVerified, SetupTypeOK, Process
  <1>1. CASE UNCHANGED setupVars
    BY <1>1 DEF SetupInv, OnlyVerified, SetupTypeOK, setupVars, places
  <1>2. ASSUME NEW x \in Parts, Spoil(x) PROVE SetupInv'
    <2>1. final' \in [Parts -> Kept]
      BY <1>2, <1>t DEF Spoil
    <2> QED BY <1>2, <2>1 DEF Spoil, SetupInv, OnlyVerified, SetupTypeOK
  <1>3. ASSUME NEW p \in Pids, SetupStep(p) PROVE SetupInv'
    <2> DEFINE x == process[p].part
    <2>x. x \in Parts
      BY <1>t
    \* Each remaining step of a process sends it somewhere and keeps what follows.
    <2>g. ASSUME NEW step \in Ended \cup SetupSteps, Goto(p, step),
                 system' \in BOOLEAN, final' \in [Parts -> Kept], archive' \in Kept,
                 partial' \in [Pids -> Contents],
                 staging' \in [Pids -> [Parts -> Contents]],
                 backup' \in [Pids -> [Parts -> Kept]],
                 \A q \in Pids \ {p} : staging'[q] = staging[q],
                 step \in {"clear", "swapOut", "swapIn"} => staging'[p][x] = "ready"
          PROVE  SetupInv'
      <3>1. /\ process' \in [Pids -> Process]
            /\ \A q \in Pids : /\ process'[q].part = process[q].part
                               /\ process'[q].step = IF q = p THEN step ELSE process[q].step
        BY <2>g, GotoFacts
      <3>2. \A q \in Pids : process'[q].step \in {"clear", "swapOut", "swapIn"} =>
                               staging'[q][process'[q].part] = "ready"
        BY <2>g, <3>1 DEF SetupInv
      <3> QED BY <2>g, <3>1, <3>2 DEF SetupInv, OnlyVerified, SetupTypeOK
    <2>b. system \in BOOLEAN /\ backup \in [Pids -> [Parts -> Kept]]
      BY <1>t DEF SetupInv, OnlyVerified, SetupTypeOK
    <2>s. \A content \in Contents :
             /\ PutIn(staging, p, x, content) \in [Pids -> [Parts -> Contents]]
             /\ \A q \in Pids \ {p} : PutIn(staging, p, x, content)[q] = staging[q]
      <3> HIDE DEF Kept, Contents, Ended, SetupSteps, x
      <3> TAKE content \in Contents
      <3>1. staging \in [Pids -> [Parts -> Contents]]
        BY <1>t
      <3>2. PutIn(staging, p, x, content) \in [Pids -> [Parts -> Contents]]
        BY <3>1, <2>x, PutFacts
      <3>3. \A q \in Pids \ {p} : PutIn(staging, p, x, content)[q] = staging[q]
        BY <3>1 DEF PutIn
      <3> QED BY <3>2, <3>3
    <2>k. \A content \in Kept : PutIn(backup, p, x, content) \in [Pids -> [Parts -> Kept]]
      <3> HIDE DEF Kept, Contents, Ended, SetupSteps, x
      <3> QED BY <2>b, <2>x, PutFacts
    <2> USE <1>t, <2>x, <2>b
    <2>1. CASE Begin(p)
      <3> DEFINE begun == [step |-> "check", part |-> IF system THEN "js" ELSE "node",
                           had |-> FALSE, alone |-> \A r \in Pids : ~Running(r),
                           faults |-> 0, found |-> final]
                 beside(q) == [process[q] EXCEPT !.alone = FALSE]
      <3>1. process' = [q \in Pids |-> IF q = p THEN begun ELSE beside(q)]
        BY <2>1 DEF Begin
      <3>2. begun \in Process /\ begun.step = "check"
        <4>1. (\A r \in Pids : ~Running(r)) \in BOOLEAN
          OBVIOUS
        <4>2. final \in [Parts -> Contents]
          OBVIOUS
        <4> HIDE DEF Kept, Contents
        <4> QED BY <4>1, <4>2 DEF Process, Parts
      <3>3. \A q \in Pids : /\ beside(q) \in Process /\ beside(q).step = process[q].step
                            /\ beside(q).part = process[q].part
        <4> HIDE DEF Kept, Contents, Ended, SetupSteps
        <4> QED BY DEF Process
      <3> HIDE DEF begun, beside
      <3>4. process' \in [Pids -> Process] /\ process'[p].step = "check"
        BY <3>1, <3>2, <3>3
      <3>5. \A q \in Pids \ {p} : /\ process'[q].step = process[q].step
                                  /\ process'[q].part = process[q].part
        BY <3>1, <3>3
      <3>6. UNCHANGED <<system, places>>
        BY <2>1 DEF Begin
      <3> QED BY <3>4, <3>5, <3>6 DEF places, SetupInv, OnlyVerified, SetupTypeOK
    <2>2. CASE Check(p)
      BY <2>2, QuietGoto, QuietAdvance DEF Check, At, Quiet
    <2>3. CASE LookUp(p)
      BY <2>3, QuietGoto DEF LookUp, At, Quiet
    <2>4. CASE Discard(p)
      <3>1. Goto(p, "download")
        BY <2>4 DEF Discard
      <3> QED BY <2>4, <3>1, <2>g DEF Discard, At
    <2>5. CASE Download(p)
      <3>1. Goto(p, "hash")
        BY <2>5 DEF Download
      <3> QED BY <2>5, <3>1, <2>g DEF Download, At
    <2>6. CASE Hash(p)
      <3>1. PICK step \in {"prepare", "failed"} : Goto(p, step)
        BY <2>6 DEF Hash
      <3> QED BY <2>6, <3>1, <2>g DEF Hash, At
    <2>7. CASE Prepare(p)
      <3>1. PICK step \in {"fill", "failed"} : Goto(p, step)
        BY <2>7 DEF Prepare
      <3>2. staging' = staging \/ staging' = PutIn(staging, p, x, "partial")
        BY <2>7 DEF Prepare, PutIn
      <3>3. staging' \in [Pids -> [Parts -> Contents]] /\ \A q \in Pids \ {p} : staging'[q] = staging[q]
        BY <3>2, <2>s
      <3> QED BY <2>7, <3>1, <3>3, <2>g DEF Prepare, At
    <2>8. CASE Fill(p)
      <3>1. PICK step \in {"verify", "failed"} : Goto(p, step)
        BY <2>8 DEF Fill
      <3>2. PICK content \in Contents : staging' = PutIn(staging, p, x, content)
        BY <2>8 DEF Fill, PutIn
      <3>3. staging' \in [Pids -> [Parts -> Contents]] /\ \A q \in Pids \ {p} : staging'[q] = staging[q]
        BY <3>2, <2>s
      <3> QED BY <2>8, <3>1, <3>3, <2>g DEF Fill, At
    <2>9. CASE VerifyStaged(p)
      <3>1. CASE Works(x, staging[p][x])
        <4>1. Goto(p, "clear") /\ staging' = staging /\ staging[p][x] = "ready"
          BY <2>9, <3>1 DEF VerifyStaged, Works
        <4> QED BY <2>9, <4>1, <2>g DEF VerifyStaged, At
      <3>2. CASE ~Works(x, staging[p][x])
        <4>1. Goto(p, "failed")
          BY <2>9, <3>2 DEF VerifyStaged
        <4>2. staging' = staging \/ staging' = PutIn(staging, p, x, "absent")
          BY <2>9, <3>2 DEF VerifyStaged, PutIn
        <4>3. staging' \in [Pids -> [Parts -> Contents]] /\ \A q \in Pids \ {p} : staging'[q] = staging[q]
          BY <4>2, <2>s
        <4> QED BY <2>9, <4>1, <4>3, <2>g DEF VerifyStaged, At
      <3> QED BY <3>1, <3>2
    <2>10. CASE Clear(p)
      <3> DEFINE moved == [process[p] EXCEPT !.had = (final[x] # "absent"),
                                             !.step = IF final[x] # "absent" THEN "swapOut" ELSE "swapIn"]
      <3>1. process' = [process EXCEPT ![p] = moved]
        BY <2>10 DEF Clear
      <3>2. moved \in Process /\ moved.part = process[p].part
        <4>1. (final[x] # "absent") \in BOOLEAN /\ process[p] \in Process
          OBVIOUS
        <4> HIDE DEF x, Kept, Contents
        <4> QED BY <4>1 DEF Process
      <3> HIDE DEF moved
      <3>3. process' \in [Pids -> Process] /\ \A q \in Pids : process'[q].part = process[q].part
        BY <3>1, <3>2
      <3>4. \A q \in Pids \ {p} : process'[q] = process[q]
        BY <3>1
      <3>5. backup' \in [Pids -> [Parts -> Kept]]
        BY <2>10, <2>k DEF Clear, PutIn
      <3>6. process[p].step = "clear" /\ UNCHANGED <<system, final, archive, partial, staging>>
        BY <2>10 DEF Clear, At
      <3>7. staging[p][x] = "ready"
        BY <3>6 DEF SetupInv
      <3>8. \A q \in Pids : process'[q].step \in {"clear", "swapOut", "swapIn"} =>
                               staging'[q][process'[q].part] = "ready"
        BY <3>3, <3>4, <3>6, <3>7 DEF SetupInv
      <3> QED BY <3>3, <3>5, <3>6, <3>8 DEF SetupInv, OnlyVerified, SetupTypeOK
    <2>11. CASE SwapOut(p)
      <3>0. process[p].step = "swapOut" /\ UNCHANGED <<system, archive, partial, staging>>
        BY <2>11 DEF SwapOut, At
      <3>1. staging[p][x] = "ready"
        BY <3>0 DEF SetupInv
      <3>2. PICK step \in {"swapIn", "failed"} : Goto(p, step)
        BY <2>11 DEF SwapOut
      <3>3. final' \in [Parts -> Kept]
        BY <2>11 DEF SwapOut
      <3>4. backup' = backup \/ (backup' = PutIn(backup, p, x, final[x]))
        BY <2>11 DEF SwapOut, PutIn
      <3>5. backup' \in [Pids -> [Parts -> Kept]]
        <4>1. final[x] \in Kept
          OBVIOUS
        <4> QED BY <3>4, <4>1, <2>k
      <3> QED BY <3>0, <3>1, <3>2, <3>3, <3>5, <2>g
    <2>12. CASE SwapIn(p)
      <3>0. process[p].step = "swapIn" /\ UNCHANGED <<system, archive, partial>>
        BY <2>12 DEF SwapIn, At
      <3>1. staging[p][x] = "ready"
        BY <3>0 DEF SetupInv
      <3>2. PICK step \in {"recheck", "restore", "failed"} : Goto(p, step)
        BY <2>12 DEF SwapIn, GiveUp
      <3>3. final' \in [Parts -> Kept]
        BY <2>12, <3>1 DEF SwapIn
      <3>4. backup' \in [Pids -> [Parts -> Kept]]
        <4>1. PICK content \in {"absent", backup[p][x]} :
                 backup' = backup \/ backup' = PutIn(backup, p, x, content)
          BY <2>12 DEF SwapIn, PutIn
        <4>2. content \in Kept
          OBVIOUS
        <4> QED BY <4>1, <4>2, <2>k
      <3>5. staging' \in [Pids -> [Parts -> Contents]] /\ \A q \in Pids \ {p} : staging'[q] = staging[q]
        <4>1. staging' = staging \/ staging' = PutIn(staging, p, x, "absent")
          BY <2>12 DEF SwapIn, PutIn
        <4> QED BY <4>1, <2>s
      <3> QED BY <3>0, <3>2, <3>3, <3>4, <3>5, <2>g
    <2>13. CASE Restore(p)
      <3>0. Goto(p, "failed") /\ UNCHANGED <<system, archive, partial, staging>>
        BY <2>13 DEF Restore, At
      <3>1. final' \in [Parts -> Kept]
        BY <2>13 DEF Restore
      <3>2. backup' \in [Pids -> [Parts -> Kept]]
        <4>1. backup' = backup \/ backup' = PutIn(backup, p, x, "absent")
          BY <2>13 DEF Restore, PutIn
        <4> QED BY <4>1, <2>k
      <3> QED BY <3>0, <3>1, <3>2, <2>g
    <2>14. CASE Recheck(p)
      BY <2>14, QuietGoto, QuietAdvance DEF Recheck, At, Quiet
    <2>15. CASE Probe(p)
      BY <2>15, QuietGoto DEF Probe, At, Quiet
    <2>16. CASE Fault(p)
      <3> DEFINE step == CASE process[p].step = "download" -> "hash"
                           [] process[p].step = "fill" -> "verify"
                           [] process[p].step = "swapIn" /\ process[p].had -> "restore"
                           [] OTHER -> "failed"
                 moved == [process[p] EXCEPT !.faults = @ + 1, !.step = step]
      <3>1. process' = [process EXCEPT ![p] = moved]
        BY <2>16 DEF Fault, Faulty
      <3>2. moved.step \in {"hash", "verify", "restore", "failed"} /\ moved \in Process
        <4>1. step \in {"hash", "verify", "restore", "failed"}
          OBVIOUS
        <4>2. step \in Ended \cup SetupSteps
          BY <4>1
        <4>3. process[p] \in Process
          OBVIOUS
        <4>4. moved.step = step
          BY <4>3 DEF Process
        <4>5. moved \in Process
          <5>1. process[p].faults + 1 \in Nat
            BY <4>3 DEF Process
          <5> HIDE DEF step, Kept, Contents, Ended, SetupSteps
          <5> QED BY <4>2, <4>3, <5>1, FailedRecord
        <4> HIDE DEF step
        <4> QED BY <4>1, <4>4, <4>5
      <3> HIDE DEF moved
      <3>3. process' \in [Pids -> Process] /\ process'[p].step \in {"hash", "verify", "restore", "failed"}
        BY <3>1, <3>2
      <3>4. \A q \in Pids \ {p} : process'[q] = process[q]
        BY <3>1
      <3>5. partial' \in [Pids -> Contents]
        BY <2>16 DEF Fault
      <3>6. staging' \in [Pids -> [Parts -> Contents]] /\ \A q \in Pids \ {p} : staging'[q] = staging[q]
        <4>1. staging' = staging \/ staging' = PutIn(staging, p, x, "bad")
          BY <2>16 DEF Fault, PutIn
        <4> QED BY <4>1, <2>s
      <3>7. UNCHANGED <<system, final, archive, backup>>
        BY <2>16 DEF Fault
      <3> QED BY <3>3, <3>4, <3>5, <3>6, <3>7 DEF SetupInv, OnlyVerified, SetupTypeOK
    <2>17. CASE Leftover(p)
      <3>0. process[p].step = "swapIn" /\ Goto(p, "recheck") /\ UNCHANGED <<system, archive, partial, backup>>
        BY <2>17 DEF Leftover
      <3>1. staging[p][x] = "ready"
        BY <3>0 DEF SetupInv
      <3>2. final' \in [Parts -> Kept]
        BY <2>17, <3>1 DEF Leftover
      <3>3. staging' \in [Pids -> [Parts -> Contents]] /\ \A q \in Pids \ {p} : staging'[q] = staging[q]
        BY <2>17 DEF Leftover
      <3> QED BY <3>0, <3>2, <3>3, <2>g
    <2>18. CASE Crash(p)
      BY <2>18, QuietGoto DEF Crash, Quiet, places
    <2> QED BY <1>3, <2>1, <2>2, <2>3, <2>4, <2>5, <2>6, <2>7, <2>8, <2>9, <2>10, <2>11,
               <2>12, <2>13, <2>14, <2>15, <2>16, <2>17, <2>18 DEF SetupStep
  <1> QED BY <1>1, <1>2, <1>3 DEF SetupNext

\* Only what was verified is ever promoted, however many setups run, crash, fail or
\* inherit the directories of a process of their pid.
THEOREM PromotesVerified == SetupSpec => []OnlyVerified
  <1>1. SetupInit => SetupInv
    BY SetupInvInit
  <1>2. SetupInv /\ [SetupNext]_setupVars => SetupInv'
    BY SetupInvStep
  <1>3. SetupInv => OnlyVerified
    BY DEF SetupInv
  <1> QED BY <1>1, <1>2, <1>3, PTL DEF SetupSpec
-----------------------------------------------------------------------------
\* What a setup that runs alone knows at each of its steps.
Undisturbed(p) ==
    LET me == process[p]
        x == process[p].part
    IN /\ x # "node" => NodeWorks
       /\ x = "browsers" => final["js"] = "ready"
       /\ \A y \in Parts : me.found[y] = "ready" => final[y] = "ready"
       /\ me.step \notin {"check", "probe"} => me.found[x] # "ready"
       /\ me.step \in {"prepare", "fill"} /\ x = "node" => archive = "ready"
       /\ me.step = "hash" /\ me.faults = 0 => partial[p] = "ready"
       /\ me.step = "verify" /\ me.faults = 0 => staging[p][x] = "ready"
       /\ me.step = "swapOut" => final[x] # "absent" /\ backup[p][x] = "absent" /\ me.had
       /\ me.step = "swapIn" => final[x] = "absent" /\ (me.had => backup[p][x] # "absent")
       /\ me.step = "restore" => final[x] = "absent" /\ backup[p][x] # "absent" /\ me.faults > 0
       /\ me.step = "recheck" => final[x] = "ready"
       /\ me.step = "probe" => final["browsers"] = "ready" /\ x = "browsers"
       /\ \A y \in Parts : me.found[y] # "absent" /\ final[y] = "absent" =>
                              y = x /\ (me.step = "restore" \/ (me.step = "swapIn" /\ me.had))

\* ... and what is so when it has failed.
FailedAlone(p) ==
    /\ process[p].faults > 0
    /\ process[p].faults = 1 =>
         \A x \in Parts : process[p].found[x] # "absent" => final[x] # "absent"

Alone(p) ==
    process[p].alone =>
        /\ \A q \in Pids \ {p} : ~Running(q)
        /\ Running(p) => Undisturbed(p)
        /\ process[p].step = "failed" => FailedAlone(p)

AloneInv == \A p \in Pids : Alone(p)

-----------------------------------------------------------------------------
\* What a process keeps for the whole of its run, unless another begins.
SameFound(p) == process'[p].alone = process[p].alone /\ process'[p].found = process[p].found
OthersSame(p) == \A q \in Pids \ {p} : process'[q] = process[q]

LEMMA GotoRecord ==
    ASSUME SetupTypeOK, NEW p \in Pids, NEW step, Goto(p, step)
    PROVE  /\ process'[p].step = step /\ process'[p].part = process[p].part
           /\ process'[p].had = process[p].had
           /\ process'[p].faults = process[p].faults /\ SameFound(p) /\ OthersSame(p)
  <1>1. process \in [Pids -> Process]
    BY DEF SetupTypeOK
  <1>2. process' = [process EXCEPT ![p] = [process[p] EXCEPT !.step = step]]
    BY <1>1 DEF Goto
  <1>3. process'[p] = [process[p] EXCEPT !.step = step] /\ process[p] \in Process
    BY <1>1, <1>2
  <1> QED BY <1>1, <1>2, <1>3 DEF Process, SameFound, OthersSame

\* A part that is ready is left for the next, or for the probe of all.
LEMMA AdvanceRecord ==
    ASSUME SetupTypeOK, NEW p \in Pids, Advance(p)
    PROVE  /\ IF process[p].part = "browsers"
              THEN process'[p].step = "probe" /\ process'[p].part = "browsers"
              ELSE /\ process'[p].step = "check"
                   /\ process'[p].part = IF process[p].part = "node" THEN "js" ELSE "browsers"
           /\ process'[p].had = process[p].had
           /\ process'[p].faults = process[p].faults /\ SameFound(p) /\ OthersSame(p)
  <1>1. CASE process[p].part = "browsers"
    BY <1>1, GotoRecord DEF Advance
  <1>2. CASE process[p].part # "browsers"
    <2>1. process \in [Pids -> Process] /\ process[p] \in Process
      BY DEF SetupTypeOK
    <2> DEFINE part == IF process[p].part = "node" THEN "js" ELSE "browsers"
               moved == [process[p] EXCEPT !.step = "check", !.part = part]
    <2>2. process' = [process EXCEPT ![p] = moved]
      BY <1>2, <2>1 DEF Advance
    <2>3. moved.step = "check" /\ moved.part = part /\ moved.had = process[p].had
          /\ moved.alone = process[p].alone /\ moved.found = process[p].found
          /\ moved.faults = process[p].faults
      BY <2>1 DEF Process
    <2> HIDE DEF moved
    <2> QED BY <1>2, <2>1, <2>2, <2>3 DEF SameFound, OthersSame
  <1> QED BY <1>1, <1>2

\* The contents of one directory of one process after a write to it.
LEMMA PutRecord ==
    ASSUME NEW tree \in [Pids -> [Parts -> Contents]], NEW p \in Pids, NEW x \in Parts, NEW content
    PROVE  /\ PutIn(tree, p, x, content)[p][x] = content
           /\ \A q \in Pids \ {p} : PutIn(tree, p, x, content)[q] = tree[q]
           /\ \A y \in Parts \ {x} : PutIn(tree, p, x, content)[p][y] = tree[p][y]
  BY DEF PutIn
-----------------------------------------------------------------------------
\* A process that does not begin changes itself only, and of itself not how it began.
LEMMA SameStep ==
    ASSUME SetupInv, NEW p \in Pids, SetupStep(p), ~Begin(p)
    PROVE  SameFound(p) /\ OthersSame(p)
  <1>t. SetupTypeOK /\ process \in [Pids -> Process] /\ process[p] \in Process
    BY DEF SetupInv, OnlyVerified, SetupTypeOK
  <1>1. CASE (\E step : Goto(p, step)) \/ Advance(p)
    BY <1>t, <1>1, GotoRecord, AdvanceRecord
  <1>2. CASE Check(p) \/ LookUp(p) \/ Discard(p) \/ Download(p) \/ Hash(p) \/ Prepare(p) \/ Fill(p)
             \/ VerifyStaged(p)
    BY <1>1, <1>2 DEF Check, LookUp, Discard, Download, Hash, Prepare, Fill, VerifyStaged
  <1>3. CASE SwapOut(p) \/ SwapIn(p) \/ Restore(p) \/ Recheck(p) \/ Probe(p) \/ Leftover(p) \/ Crash(p)
    BY <1>1, <1>3 DEF SwapOut, SwapIn, GiveUp, Restore, Recheck, Probe, Leftover, Crash
  <1>4. ASSUME Clear(p) \/ Fault(p)
        PROVE  SameFound(p) /\ OthersSame(p)
    <2>1. PICK moved : /\ process' = [process EXCEPT ![p] = moved]
                       /\ moved.alone = process[p].alone /\ moved.found = process[p].found
      <3>1. CASE Clear(p)
        <4> DEFINE had == final[process[p].part] # "absent"
                   moved == [process[p] EXCEPT !.had = had, !.step = IF had THEN "swapOut" ELSE "swapIn"]
        <4>1. process' = [process EXCEPT ![p] = moved]
          BY <1>t, <3>1 DEF Clear
        <4>2. moved.alone = process[p].alone /\ moved.found = process[p].found
          BY <1>t DEF Process
        <4> HIDE DEF moved
        <4> QED BY <4>1, <4>2
      <3>2. CASE Fault(p)
        <4> DEFINE step == CASE process[p].step = "download" -> "hash"
                             [] process[p].step = "fill" -> "verify"
                             [] process[p].step = "swapIn" /\ process[p].had -> "restore"
                             [] OTHER -> "failed"
                   moved == [process[p] EXCEPT !.faults = @ + 1, !.step = step]
        <4>1. process' = [process EXCEPT ![p] = moved]
          BY <1>t, <3>2 DEF Fault, Faulty
        <4>2. moved.alone = process[p].alone /\ moved.found = process[p].found
          BY <1>t DEF Process
        <4> HIDE DEF moved
        <4> QED BY <4>1, <4>2
      <3> QED BY <1>4, <3>1, <3>2
    <2> QED BY <1>t, <2>1 DEF SameFound, OthersSame
  <1> QED BY <1>2, <1>3, <1>4 DEF SetupStep

-----------------------------------------------------------------------------
\* A step of a setup that runs alone, whose calls may fail, leaves it with what it knows.
LEMMA AloneStep ==
    ASSUME SetupInv, NEW p \in Pids, Running(p), Undisturbed(p),
           SetupStep(p), ~Begin(p)
    PROVE  /\ Running(p)' => Undisturbed(p)'
           /\ process'[p].step = "failed" => FailedAlone(p)'
  <1> DEFINE me == process[p]
             x == process[p].part
  <1>t. /\ SetupTypeOK /\ x \in Parts /\ me \in Process /\ final \in [Parts -> Contents]
        /\ staging \in [Pids -> [Parts -> Contents]] /\ backup \in [Pids -> [Parts -> Contents]]
        /\ partial \in [Pids -> Contents] /\ me.faults \in Nat /\ me.had \in BOOLEAN
        /\ me.found \in [Parts -> Contents]
    BY DEF SetupInv, OnlyVerified, SetupTypeOK, Process
  <1>g. ASSUME NEW step, Goto(p, step)
        PROVE  /\ process'[p].step = step /\ process'[p].part = x /\ process'[p].faults = me.faults
               /\ process'[p].had = me.had /\ process'[p].found = me.found
               /\ SameFound(p) /\ OthersSame(p)
    BY <1>t, <1>g, GotoRecord DEF SameFound
  <1> HIDE DEF x, me
  <1>1. CASE Check(p)
    <2>1. me.step = "check" /\ UNCHANGED <<system, final, archive, partial, staging, backup>>
      BY <1>1 DEF Check, At, places, me
    <2>2. CASE Ready(x)
      <3>1. Advance(p) /\ final[x] = "ready"
        BY <1>1, <2>2 DEF Check, x, Ready, Works
      <3> QED BY <1>t, <2>1, <3>1, AdvanceRecord
              DEF Undisturbed, FailedAlone, NodeWorks, Parts, SameFound, me, x
    <2>3. CASE ~Ready(x)
      <3>1. Goto(p, IF x = "node" THEN "look" ELSE "prepare")
        BY <1>1, <2>3 DEF Check, x
      <3>2. me.found[x] # "ready"
        BY <1>t, <2>3 DEF Undisturbed, me, x, Ready, Works
      <3> QED BY <1>t, <1>g, <2>1, <3>1, <3>2 DEF Undisturbed, FailedAlone, NodeWorks, me, x
    <2> QED BY <2>2, <2>3
  <1>2. CASE LookUp(p) \/ Discard(p) \/ Download(p)
    <2>1. /\ me.step \in {"look", "discard", "download"}
          /\ UNCHANGED <<system, final, staging, backup>>
      BY <1>2 DEF LookUp, Discard, Download, At, places, me
    <2>2. \/ Goto(p, "prepare") /\ archive' = "ready"
          \/ Goto(p, "discard") \/ Goto(p, "download")
          \/ Goto(p, "hash") /\ partial'[p] = "ready"
      BY <1>2, <1>t DEF LookUp, Discard, Download, places
    <2> QED BY <1>t, <1>g, <2>1, <2>2 DEF Undisturbed, FailedAlone, NodeWorks, me, x
  <1>3. CASE Hash(p)
    <2>1. me.step = "hash" /\ UNCHANGED <<system, final, staging, backup>>
      BY <1>3 DEF Hash, At, me
    <2>2. \/ partial[p] = "ready" /\ archive' = "ready" /\ Goto(p, "prepare")
          \/ partial[p] # "ready" /\ Goto(p, "failed")
      BY <1>3 DEF Hash
    <2> QED BY <1>t, <1>g, <2>1, <2>2 DEF Undisturbed, FailedAlone, NodeWorks, me, x
  <1>4. CASE Prepare(p)
    <2>1. me.step = "prepare" /\ UNCHANGED <<system, final, archive, partial, backup>>
      BY <1>4 DEF Prepare, At, me
    <2>2. Goto(p, "fill")
      BY <1>4 DEF Prepare, Undisturbed
    <2> QED BY <1>t, <1>g, <2>1, <2>2 DEF Undisturbed, FailedAlone, NodeWorks, me, x
  <1>5. CASE Fill(p)
    <2>1. me.step = "fill" /\ UNCHANGED <<system, final, archive, partial, backup>>
      BY <1>5 DEF Fill, At, me
    <2>2. Source(x)
      BY <1>t, <2>1 DEF Source, Undisturbed, Parts, me, x
    <2>3. Goto(p, "verify") /\ staging' = PutIn(staging, p, x, "ready")
      BY <1>5, <2>2 DEF Fill, PutIn, x
    <2>4. staging'[p][x] = "ready"
      BY <1>t, <2>3, PutRecord
    <2> QED BY <1>t, <1>g, <2>1, <2>3, <2>4 DEF Undisturbed, FailedAlone, NodeWorks, me, x
  <1>6. CASE VerifyStaged(p)
    <2>1. me.step = "verify" /\ UNCHANGED <<system, final, archive, partial, backup>>
      BY <1>6 DEF VerifyStaged, At, me
    <2>2. CASE Works(x, staging[p][x])
      <3>1. Goto(p, "clear")
        BY <1>6, <2>2 DEF VerifyStaged, x
      <3>2. me.found[x] # "ready"
        BY <2>1 DEF Undisturbed, me, x
      <3> QED BY <1>t, <1>g, <2>1, <3>1, <3>2 DEF Undisturbed, NodeWorks, me, x
    <2>3. CASE ~Works(x, staging[p][x])
      <3>1. Goto(p, "failed")
        BY <1>6, <2>3 DEF VerifyStaged, x
      <3>2. staging[p][x] # "ready"
        <4>1. x = "browsers" => NodeWorks /\ final["js"] = "ready"
          BY DEF Undisturbed, x
        <4> QED BY <2>3, <4>1 DEF Works
      <3>3. me.faults > 0
        BY <1>t, <2>1, <3>2 DEF Undisturbed, me, x
      <3>4. FailedAlone(p)'
        BY <1>g, <2>1, <3>1, <3>3 DEF Undisturbed, FailedAlone, me, x
      <3> QED BY <1>g, <3>1, <3>4 DEF Ended, Running
    <2> QED BY <2>2, <2>3
  <1>7. CASE Clear(p)
    <2> DEFINE had == final[x] # "absent"
               moved == [me EXCEPT !.had = had, !.step = IF had THEN "swapOut" ELSE "swapIn"]
    <2>1. me.step = "clear" /\ UNCHANGED <<system, final, archive, partial, staging>>
          /\ backup' = PutIn(backup, p, x, "absent")
      BY <1>7 DEF Clear, At, me, x, PutIn
    <2>2. process' = [process EXCEPT ![p] = moved]
      BY <1>7, <1>t DEF Clear, me, x, SetupTypeOK
    <2>3. /\ moved.step = (IF had THEN "swapOut" ELSE "swapIn") /\ moved.had = had
          /\ moved.part = x /\ moved.found = me.found /\ moved.faults = me.faults
          /\ moved.alone = me.alone
      <3> HIDE DEF had
      <3> QED BY <1>t DEF Process, x, me
    <2> HIDE DEF moved
    <2>4. process'[p] = moved /\ OthersSame(p)
      BY <1>t, <2>2 DEF OthersSame, SetupTypeOK
    <2>5. backup'[p][x] = "absent" /\ me.found[x] # "ready"
      BY <1>t, <2>1, PutRecord DEF Undisturbed, me, x
    <2>7. Undisturbed(p)'
      BY <1>t, <2>1, <2>3, <2>4, <2>5 DEF Undisturbed, NodeWorks, me, x
    <2> QED BY <2>3, <2>4, <2>7 DEF SameFound, me
  <1>8. CASE SwapOut(p)
    <2>1. me.step = "swapOut" /\ UNCHANGED <<system, archive, partial, staging>>
          /\ final[x] # "absent" /\ backup[p][x] = "absent" /\ me.had
      BY <1>8 DEF SwapOut, At, Undisturbed, me, x
    <2>2. /\ backup' = PutIn(backup, p, x, final[x]) /\ final' = [final EXCEPT ![x] = "absent"]
          /\ Goto(p, "swapIn")
      BY <1>8, <2>1 DEF SwapOut, PutIn, x
    <2>3. backup'[p][x] = final[x] /\ final'[x] = "absent" /\ \A y \in Parts \ {x} : final'[y] = final[y]
      BY <1>t, <2>2, PutRecord
    <2>4. x # "node" => NodeWorks'
      BY <1>t, <2>1, <2>3 DEF Undisturbed, NodeWorks, Parts, x
    <2>5. x = "browsers" => final'["js"] = "ready"
      BY <1>t, <2>3 DEF Undisturbed, Parts, x
    <2>6. \A y \in Parts : me.found[y] = "ready" => y # x /\ final[y] = "ready"
      BY <2>1 DEF Undisturbed, x, me
    <2>7. \A y \in Parts : me.found[y] # "absent" /\ final'[y] = "absent" => y = x
      BY <2>1, <2>3 DEF Undisturbed, x, me
    <2>8. /\ process'[p].step = "swapIn" /\ process'[p].part = x /\ process'[p].had
          /\ process'[p].found = me.found
      BY <1>g, <2>1, <2>2
    <2>9. Undisturbed(p)'
      BY <1>t, <2>1, <2>3, <2>4, <2>5, <2>6, <2>7, <2>8 DEF Undisturbed
    <2> QED BY <1>g, <2>2, <2>9
  <1>9. CASE SwapIn(p) \/ Leftover(p)
    <2>1. /\ me.step = "swapIn" /\ UNCHANGED <<system, archive, partial>> /\ final[x] = "absent"
          /\ final' = [final EXCEPT ![x] = staging[p][x]] /\ Goto(p, "recheck")
      BY <1>9 DEF SwapIn, Leftover, At, Undisturbed, me, x
    <2>2. staging[p][x] = "ready"
      BY <2>1 DEF SetupInv, me, x
    <2>3. final'[x] = "ready" /\ \A y \in Parts \ {x} : final'[y] = final[y]
      BY <1>t, <2>1, <2>2
    <2>4. x # "node" => NodeWorks'
      BY <1>t, <2>1, <2>3 DEF Undisturbed, NodeWorks, Parts, x
    <2>5. x = "browsers" => final'["js"] = "ready"
      BY <1>t, <2>3 DEF Undisturbed, Parts, x
    <2>6. \A y \in Parts : me.found[y] = "ready" => y # x /\ final[y] = "ready"
      BY <2>1 DEF Undisturbed, x, me
    <2>7. \A y \in Parts : me.found[y] # "absent" => final'[y] # "absent"
      BY <2>1, <2>3 DEF Undisturbed, x, me
    <2>8. Undisturbed(p)'
      BY <1>t, <1>g, <2>1, <2>3, <2>4, <2>5, <2>6, <2>7 DEF Undisturbed, me, x
    <2> QED BY <1>g, <2>1, <2>8
  <1>10. CASE Restore(p)
    <2>1. /\ me.step = "restore" /\ final[x] = "absent" /\ backup[p][x] # "absent"
          /\ Goto(p, "failed") /\ me.faults > 0
          /\ final' = [final EXCEPT ![x] = backup[p][x]]
      BY <1>10 DEF Restore, At, Undisturbed, me, x
    <2>2. final'[x] # "absent" /\ \A y \in Parts \ {x} : final'[y] = final[y]
      BY <1>t, <2>1
    <2>3. \A y \in Parts : me.found[y] # "absent" => final'[y] # "absent"
      BY <2>1, <2>2 DEF Undisturbed, me, x
    <2>4. FailedAlone(p)'
      BY <1>g, <2>1, <2>3 DEF FailedAlone
    <2> QED BY <1>g, <2>1, <2>4 DEF Ended, Running
  <1>11. CASE Recheck(p)
    <2>1. me.step = "recheck" /\ UNCHANGED <<system, final, archive, partial, staging, backup>>
          /\ final[x] = "ready"
      BY <1>11 DEF Recheck, At, places, Undisturbed, me, x
    <2>2. Ready(x)
      <3>1. x = "browsers" => NodeWorks /\ final["js"] = "ready"
        BY DEF Undisturbed, x
      <3> QED BY <2>1, <3>1 DEF Ready, Works
    <2>3. Advance(p)
      BY <1>11, <2>2 DEF Recheck, x
    <2> QED BY <1>t, <2>1, <2>3, AdvanceRecord
            DEF Undisturbed, FailedAlone, NodeWorks, Parts, SameFound, me, x
  <1>12. CASE Probe(p)
    <2>1. me.step = "probe" /\ x = "browsers" /\ Ready("browsers")
      <3>1. me.step = "probe"
        BY <1>12 DEF Probe, At, me
      <3>2. x = "browsers" /\ NodeWorks /\ final["js"] = "ready" /\ final["browsers"] = "ready"
        BY <3>1 DEF Undisturbed, me, x
      <3> QED BY <3>1, <3>2 DEF Ready, Works
    <2>2. Goto(p, "ok")
      BY <1>12, <2>1 DEF Probe
    <2> QED BY <1>g, <2>2 DEF Ended, Running
  <1>13. CASE Fault(p)
    <2> DEFINE step == CASE me.step = "download" -> "hash"
                         [] me.step = "fill" -> "verify"
                         [] me.step = "swapIn" /\ me.had -> "restore"
                         [] OTHER -> "failed"
               moved == [me EXCEPT !.faults = @ + 1, !.step = step]
    <2>1. process' = [process EXCEPT ![p] = moved]
      BY <1>13, <1>t DEF Fault, Faulty, me, SetupTypeOK
    <2>2. /\ UNCHANGED <<system, final, archive, backup>>
          /\ me.step \in {"download", "prepare", "fill", "clear", "swapOut", "swapIn", "restore",
                          "recheck", "probe"}
      BY <1>13 DEF Fault, me
    <2>3. /\ moved.step = step /\ moved.had = me.had /\ moved.part = x /\ moved.found = me.found
          /\ moved.faults = me.faults + 1 /\ moved.alone = me.alone
      <3> HIDE DEF step
      <3> QED BY <1>t DEF Process, x, me
    <2> HIDE DEF moved
    <2>4. process'[p] = moved /\ OthersSame(p) /\ SameFound(p)
      BY <1>t, <2>1, <2>3 DEF OthersSame, SameFound, SetupTypeOK, me
    <2>5. moved.faults > 0 /\ moved.faults # 0 /\ (moved.faults = 1 => me.step # "restore")
      BY <1>t, <2>3 DEF Undisturbed, me
    <2>6. Running(p)' => Undisturbed(p)'
      <3>1. step \in {"hash", "verify", "restore", "failed"}
        OBVIOUS
      <3>2. step = "restore" => me.step = "swapIn" /\ me.had
        OBVIOUS
      <3>3. step \in {"hash", "verify"} => me.step \in {"download", "fill"}
        OBVIOUS
      <3> HIDE DEF step
      <3> QED BY <1>t, <2>2, <2>3, <2>4, <2>5, <3>1, <3>2, <3>3
              DEF Undisturbed, NodeWorks, Ended, Running, me, x
    <2>7. process'[p].step = "failed" => FailedAlone(p)'
      <3> SUFFICES ASSUME step = "failed" PROVE FailedAlone(p)'
        BY <2>3, <2>4
      <3>1. ~(me.step = "swapIn" /\ me.had)
        OBVIOUS
      <3> HIDE DEF step
      <3> QED BY <2>2, <2>3, <2>4, <2>5, <3>1 DEF FailedAlone, Undisturbed, me, x
    <2> QED BY <2>4, <2>6, <2>7
  <1>14. CASE Crash(p)
    <2>1. Goto(p, "idle")
      BY <1>14 DEF Crash
    <2> QED BY <1>g, <2>1 DEF Ended, Running
  <1> QED BY <1>1, <1>2, <1>3, <1>4, <1>5, <1>6, <1>7, <1>8, <1>9, <1>10, <1>11, <1>12, <1>13, <1>14
          DEF SetupStep

\* Whoever begins while another runs is not alone, and neither is that one any more.
LEMMA AloneInvStep ==
    ASSUME SetupInv, AloneInv, [SetupNext]_setupVars
    PROVE  AloneInv'
  <1>t. process \in [Pids -> Process] /\ final \in [Parts -> Contents]
    BY DEF SetupInv, OnlyVerified, SetupTypeOK
  <1>1. CASE UNCHANGED setupVars
    BY <1>1 DEF setupVars, places, AloneInv, Alone, Running, Undisturbed, FailedAlone, NodeWorks
  <1>2. ASSUME NEW y \in Parts, Spoil(y)
        PROVE  AloneInv'
    <2>1. /\ \A p \in Pids : ~Running(p)
          /\ UNCHANGED process /\ final' = [final EXCEPT ![y] = "old"] /\ final[y] = "ready"
      BY <1>2 DEF Spoil
    <2>2. \A x \in Parts : final[x] # "absent" => final'[x] # "absent"
      BY <1>t, <2>1
    <2> QED BY <2>1, <2>2 DEF AloneInv, Alone, Running, FailedAlone
  <1>3. ASSUME NEW p \in Pids, SetupStep(p), ~Begin(p)
        PROVE  AloneInv'
    <2>1. Running(p)
      BY <1>3 DEF SetupStep, Running, Ended, SetupSteps, Check, LookUp, Discard, Download, Hash, Prepare, Fill,
                  VerifyStaged, Clear, SwapOut, SwapIn, Restore, Recheck, Probe, Fault, Leftover, Crash, At
    <2>2. SameFound(p) /\ OthersSame(p)
      BY <1>3, SameStep
    <2>3. ASSUME NEW q \in Pids PROVE Alone(q)'
      <3>1. CASE q = p
        <4>1. \/ (Running(p) => Undisturbed(p))' /\ (process[p].step = "failed" => FailedAlone(p))'
              \/ ~process[p].alone
          BY <1>3, <2>1, AloneStep DEF AloneInv, Alone
        <4>2. process[p].alone => \A r \in Pids \ {p} : ~Running(r)'
          BY <2>2 DEF AloneInv, Alone, OthersSame, Running
        <4> QED BY <2>2, <3>1, <4>1, <4>2 DEF Alone, SameFound
      <3>2. CASE q # p
        <4>1. ~process[q].alone
          BY <2>1, <3>2 DEF AloneInv, Alone
        <4> QED BY <2>2, <3>2, <4>1 DEF Alone, OthersSame
      <3> QED BY <3>1, <3>2
    <2> QED BY <2>3 DEF AloneInv
  <1>4. ASSUME NEW p \in Pids, Begin(p)
        PROVE  AloneInv'
    <2> DEFINE begun == [step |-> "check", part |-> IF system THEN "js" ELSE "node",
                         had |-> FALSE, alone |-> \A r \in Pids : ~Running(r),
                         faults |-> 0, found |-> final]
    <2>1. /\ process' = [q \in Pids |-> IF q = p THEN begun ELSE [process[q] EXCEPT !.alone = FALSE]]
          /\ UNCHANGED <<system, final, archive, partial, staging, backup>> /\ ~Running(p)
      BY <1>4 DEF Begin, places
    <2>2. /\ begun.step = "check" /\ begun.part = (IF system THEN "js" ELSE "node") /\ begun.found = final
          /\ begun.alone = \A r \in Pids : ~Running(r)
      OBVIOUS
    <2> HIDE DEF begun
    <2>3. process'[p] = begun /\ \A q \in Pids \ {p} : ~process'[q].alone /\ process'[q].step = process[q].step
      BY <1>t, <2>1 DEF Process
    <2>4. Undisturbed(p)'
      BY <2>1, <2>2, <2>3 DEF Undisturbed, NodeWorks
    <2>5. Alone(p)'
      BY <2>2, <2>3, <2>4 DEF Alone, Running
    <2> QED BY <2>3, <2>5 DEF AloneInv, Alone
  <1> QED BY <1>1, <1>2, <1>3, <1>4 DEF SetupNext

LEMMA AloneInvInit == SetupInit => AloneInv
  BY DEF SetupInit, AloneInv, Alone, Running, Ended

\* Of every setup that runs alone, whatever those before it left behind when they failed or
\* were killed: it succeeds if its calls do, it reuses what is ready, and one failed call
\* costs nothing that was there.
THEOREM SetupLosesNothing == SetupSpec => []LosesNothing
  <1>1. AloneInv => LosesNothing
    BY DEF AloneInv, Alone, Undisturbed, FailedAlone, LosesNothing, UndisturbedSucceeds, ReadyReused, OldRestored
  <1> QED BY <1>1, SetupInvInit, SetupInvStep, AloneInvInit, AloneInvStep, PTL DEF SetupSpec
-----------------------------------------------------------------------------
\* A process on its way to put something in the place of a part; one that has found a part
\* not ready and has not given up on it; one that has found it ready in its run.
Swapping(p, x) == process[p].part = x /\ process[p].step \in {"swapIn", "restore"}
Working(p, x) ==
    process[p].part = x /\ process[p].step \notin Ended \cup {"check", "recheck", "probe"}
Passed(p, x) ==
    /\ x \in Needed
    /\ \/ process[p].step \in {"ok", "probe"}
       \/ /\ Running(p)
          /\ \/ process[p].part = "browsers" /\ x \in {"node", "js"}
             \/ process[p].part = "js" /\ x = "node"

\* Where no more than two setups run, one that has come too late to put its own in place
\* finds the other's there, and nobody takes that away.
TooLate(q) ==
    LET x == process[q].part
    IN process[q].step = "restore" \/ (process[q].step = "swapIn" /\ final[x] # "absent") =>
          final[x] = "ready" /\ \A p \in Pids \ {q} : ~Working(p, x)

Restorable(p) ==
    /\ process[p].step = "restore" => process[p].had
    /\ process[p].step \in {"swapIn", "restore"} /\ process[p].had => backup[p][process[p].part] # "absent"

\* Setups without a crash and a failed call: what one of them has found ready is in its
\* place, or somebody is about to put something there.
Together ==
    /\ \A p \in Pids : Restorable(p)
    /\ \A p \in Pids, x \in Parts :
         Passed(p, x) /\ final[x] = "absent" => \E q \in Pids : Swapping(q, x)
    /\ AtMostTwo =>
         /\ \A q \in Pids : TooLate(q)
         /\ \A p \in Pids, x \in Parts : Passed(p, x) => final[x] \in {"ready", "absent"}

NoMishap == faults = 0 /\ crashes = 0
TogetherInv == faults \in Nat /\ crashes \in Nat /\ (NoMishap => Together)

\* What a step of a process does to the directory in the place of a part, and where it
\* leads the process.
PlacedPart(p, y) ==
    \/ final'[y] = final[y] /\ (Swapping(p, y) => final[y] # "absent")
    \/ /\ Swapping(p, y) /\ final[y] = "absent" /\ ~Working(p, y)'
       /\ final'[y] = "ready" \/ (process[p].step = "restore" /\ final'[y] = backup[p][y])
    \/ Working(p, y) /\ final'[y] = "absent" /\ Swapping(p, y)'
Led(p, y) ==
    /\ Working(p, y)' => Working(p, y) \/ (process[p].part = y /\ process[p].step = "check" /\ ~Ready(y))
    /\ Swapping(p, y)' =>
         \/ process'[p].step = "swapIn" /\ final'[y] = "absent"
         \/ /\ process[p].step = "swapIn" /\ process[p].part = y /\ process'[p].step = "restore"
            /\ final[y] # "absent" /\ final'[y] = final[y]
    /\ Passed(p, y)' => final'[y] = "ready" \/ (Passed(p, y) /\ ~Working(p, y))

LEMMA StepShape ==
    ASSUME SetupInv, NEW p \in Pids, SetupStep(p), ~Begin(p), ~Fault(p), ~Leftover(p), ~Crash(p)
    PROVE  /\ \A q \in Pids \ {p} : backup'[q] = backup[q]
           /\ \A y \in Parts : PlacedPart(p, y) /\ Led(p, y)
           /\ Restorable(p) => Restorable(p)'
  <1> DEFINE me == process[p]
             x == process[p].part
  <1>t. /\ SetupTypeOK /\ x \in Parts /\ me \in Process /\ final \in [Parts -> Contents]
        /\ backup \in [Pids -> [Parts -> Contents]] /\ me.had \in BOOLEAN
    BY DEF SetupInv, OnlyVerified, SetupTypeOK, Process
  <1>g. ASSUME NEW step, Goto(p, step)
        PROVE  process'[p].step = step /\ process'[p].part = x /\ process'[p].had = me.had
    BY <1>t, <1>g, GotoRecord
  <1> HIDE DEF x, me
  <1>s. system' = system
    BY DEF SetupStep, Check, LookUp, Discard, Download, Hash, Prepare, Fill, VerifyStaged, Clear, SwapOut, SwapIn,
           Restore, Recheck, Probe, At
  \* Going on without a look at what is in place.
  <1>e. ASSUME NEW step \in SetupSteps \cup Ended, Goto(p, step), UNCHANGED <<final, backup>>,
               me.step \notin {"check", "swapIn", "restore"},
               step \notin {"check", "swapIn", "restore", "recheck", "probe", "ok"},
               step \in Ended \/ Working(p, x)
        PROVE  /\ \A y \in Parts : PlacedPart(p, y) /\ Led(p, y)
               /\ Restorable(p) => Restorable(p)'
    <2>1. process'[p].step = step /\ process'[p].part = x
      BY <1>e, <1>g
    <2>2. ASSUME NEW y \in Parts PROVE PlacedPart(p, y) /\ Led(p, y)
      <3>1. ~Swapping(p, y) /\ ~Swapping(p, y)'
        BY <1>e, <2>1 DEF Swapping, me
      <3>2. Working(p, y)' => Working(p, y)
        BY <1>e, <2>1 DEF Working, x
      <3>3. Passed(p, y)' => Passed(p, y) /\ ~Working(p, y)
        BY <1>e, <1>s, <2>1 DEF Passed, Needed, Running, Working, Ended, x
      <3> QED BY <1>e, <3>1, <3>2, <3>3 DEF PlacedPart, Led
    <2> QED BY <1>e, <2>1, <2>2 DEF Restorable
  \* A part found ready is left.
  <1>a. ASSUME Advance(p), Ready(x), UNCHANGED <<final, backup>>, me.step \in {"check", "recheck"}
        PROVE  /\ \A y \in Parts : PlacedPart(p, y) /\ Led(p, y)
               /\ Restorable(p) => Restorable(p)'
    <2>1. /\ process'[p].step \in {"check", "probe"}
          /\ IF x = "browsers" THEN process'[p].step = "probe" /\ process'[p].part = "browsers"
             ELSE /\ process'[p].step = "check"
                  /\ process'[p].part = IF x = "node" THEN "js" ELSE "browsers"
      BY <1>a, <1>t, AdvanceRecord DEF x
    <2>2. final'[x] = "ready"
      BY <1>a DEF Ready, Works
    <2>3. ASSUME NEW y \in Parts PROVE PlacedPart(p, y) /\ Led(p, y)
      <3>1. ~Swapping(p, y) /\ ~Swapping(p, y)' /\ ~Working(p, y)' /\ ~Working(p, y)
        BY <1>a, <2>1 DEF Swapping, Working, me
      <3>2. Passed(p, y)' => y = x \/ Passed(p, y)
        BY <1>a, <1>s, <1>t, <2>1 DEF Passed, Needed, Running, Ended, x, me, Parts
      <3> QED BY <1>a, <2>2, <3>1, <3>2 DEF PlacedPart, Led
    <2> QED BY <2>1, <2>3 DEF Restorable
  <1>1. CASE Check(p) \/ Recheck(p)
    <2>1. me.step \in {"check", "recheck"} /\ UNCHANGED <<final, backup>>
      BY <1>1 DEF Check, Recheck, At, places, me
    <2>2. CASE Ready(x)
      <3>1. Advance(p)
        BY <1>1, <2>2 DEF Check, Recheck, x
      <3> QED BY <1>a, <2>1, <2>2, <3>1
    <2>3. CASE ~Ready(x)
      <3>1. PICK step \in {"look", "prepare", "failed"} :
               Goto(p, step) /\ (step # "failed" => me.step = "check")
        BY <1>1, <2>3 DEF Check, Recheck, At, x, me
      <3>2. process'[p].step = step /\ process'[p].part = x
        BY <1>g, <3>1
      <3>3. ASSUME NEW y \in Parts PROVE PlacedPart(p, y) /\ Led(p, y)
        <4>1. ~Swapping(p, y) /\ ~Swapping(p, y)'
          BY <2>1, <3>1, <3>2 DEF Swapping, me
        <4>2. Working(p, y)' => process[p].part = y /\ process[p].step = "check" /\ ~Ready(y)
          BY <2>3, <3>1, <3>2 DEF Working, Ended, x, me
        <4>3. Passed(p, y)' => Passed(p, y) /\ ~Working(p, y)
          BY <1>s, <2>1, <3>1, <3>2 DEF Passed, Needed, Running, Working, Ended, x, me
        <4> QED BY <2>1, <4>1, <4>2, <4>3 DEF PlacedPart, Led
      <3> QED BY <2>1, <3>1, <3>2, <3>3 DEF Restorable
    <2> QED BY <2>2, <2>3
  <1>2. CASE LookUp(p) \/ Discard(p) \/ Download(p) \/ Hash(p) \/ Prepare(p) \/ Fill(p) \/ VerifyStaged(p)
    <2>1. /\ me.step \in {"look", "discard", "download", "hash", "prepare", "fill", "verify"}
          /\ UNCHANGED <<final, backup>>
      BY <1>2 DEF LookUp, Discard, Download, Hash, Prepare, Fill, VerifyStaged, At, places, me
    <2>2. PICK step \in {"discard", "download", "hash", "prepare", "fill", "verify", "clear", "failed"} : Goto(p, step)
      BY <1>2 DEF LookUp, Discard, Download, Hash, Prepare, Fill, VerifyStaged
    <2>3. Working(p, x)
      BY <2>1 DEF Working, Ended, x, me
    <2> QED BY <1>e, <2>1, <2>2, <2>3 DEF SetupSteps, Ended
  <1>3. CASE Clear(p)
    <2> DEFINE had == final[x] # "absent"
               moved == [me EXCEPT !.had = had, !.step = IF had THEN "swapOut" ELSE "swapIn"]
    <2>1. me.step = "clear" /\ final' = final /\ backup' = PutIn(backup, p, x, "absent")
      BY <1>3 DEF Clear, At, me, x, PutIn
    <2>2. process' = [process EXCEPT ![p] = moved]
      BY <1>3, <1>t DEF Clear, me, x, SetupTypeOK
    <2>3. moved.step = (IF had THEN "swapOut" ELSE "swapIn") /\ moved.had = had /\ moved.part = x
      <3> HIDE DEF had
      <3> QED BY <1>t DEF Process, x, me
    <2> HIDE DEF moved
    <2>4. process'[p] = moved
      BY <1>t, <2>2 DEF SetupTypeOK
    <2>5. \A q \in Pids \ {p} : backup'[q] = backup[q]
      BY <1>t, <2>1, PutRecord
    <2>6. ASSUME NEW y \in Parts PROVE PlacedPart(p, y) /\ Led(p, y)
      <3>1. ~Swapping(p, y)
        BY <2>1 DEF Swapping, me
      <3>2. Swapping(p, y)' => process'[p].step = "swapIn" /\ final'[y] = "absent"
        BY <2>1, <2>3, <2>4 DEF Swapping
      <3>3. Working(p, y)' => Working(p, y)
        BY <2>1, <2>3, <2>4 DEF Working, Ended, x, me
      <3>4. Passed(p, y)' => Passed(p, y) /\ ~Working(p, y)
        BY <1>s, <2>1, <2>3, <2>4 DEF Passed, Needed, Running, Working, Ended, x, me
      <3> QED BY <2>1, <3>1, <3>2, <3>3, <3>4 DEF PlacedPart, Led
    <2> QED BY <2>3, <2>4, <2>5, <2>6 DEF Restorable
  <1>4. CASE SwapOut(p)
    <2>0. me.step = "swapOut" /\ Working(p, x)
      BY <1>4 DEF SwapOut, At, Working, Ended, x, me
    <2>1. CASE final[x] # "absent" /\ backup[p][x] = "absent"
      <3>1. /\ backup' = PutIn(backup, p, x, final[x]) /\ final' = [final EXCEPT ![x] = "absent"]
            /\ Goto(p, "swapIn")
        BY <1>4, <2>1 DEF SwapOut, PutIn, x
      <3>2. /\ backup'[p][x] = final[x] /\ \A q \in Pids \ {p} : backup'[q] = backup[q]
            /\ final'[x] = "absent" /\ \A y \in Parts \ {x} : final'[y] = final[y]
        BY <1>t, <3>1, PutRecord
      <3>3. process'[p].step = "swapIn" /\ process'[p].part = x
        BY <1>g, <3>1
      <3>4. ASSUME NEW y \in Parts PROVE PlacedPart(p, y) /\ Led(p, y)
        <4>1. ~Swapping(p, y) /\ (Swapping(p, y)' <=> y = x)
          BY <2>0, <3>3 DEF Swapping, me
        <4>2. Working(p, y)' => Working(p, y)
          BY <2>0, <3>3 DEF Working, x
        <4>3. Passed(p, y)' => Passed(p, y) /\ ~Working(p, y)
          BY <1>s, <2>0, <3>3 DEF Passed, Needed, Running, Working, Ended, x, me
        <4> QED BY <2>0, <3>2, <3>3, <4>1, <4>2, <4>3 DEF PlacedPart, Led
      <3> QED BY <2>1, <3>2, <3>3, <3>4 DEF Restorable
    <2>2. CASE ~(final[x] # "absent" /\ backup[p][x] = "absent")
      <3>1. Goto(p, "failed") /\ UNCHANGED <<final, backup>>
        BY <1>4, <2>2 DEF SwapOut, x
      <3> QED BY <1>e, <2>0, <3>1 DEF Ended
    <2> QED BY <2>1, <2>2
  <1>5. CASE SwapIn(p)
    <2>0. me.step = "swapIn" /\ Working(p, x) /\ staging[p][x] = "ready"
      BY <1>5 DEF SwapIn, At, Working, Ended, SetupInv, x, me
    <2>1. CASE final[x] = "absent"
      <3>1. /\ final' = [final EXCEPT ![x] = "ready"] /\ Goto(p, "recheck")
            /\ backup' = PutIn(backup, p, x, IF me.had THEN "absent" ELSE backup[p][x])
        BY <1>5, <2>0, <2>1 DEF SwapIn, PutIn, x, me
      <3>2. /\ \A q \in Pids \ {p} : backup'[q] = backup[q]
            /\ final'[x] = "ready" /\ \A y \in Parts \ {x} : final'[y] = final[y]
        BY <1>t, <3>1, PutRecord
      <3>3. process'[p].step = "recheck" /\ process'[p].part = x
        BY <1>g, <3>1
      <3>4. ASSUME NEW y \in Parts PROVE PlacedPart(p, y) /\ Led(p, y)
        <4>1. (Swapping(p, y) <=> y = x) /\ ~Swapping(p, y)' /\ ~Working(p, y)'
          BY <2>0, <3>3 DEF Swapping, Working, x, me
        <4>2. Passed(p, y)' => Passed(p, y) /\ ~Working(p, y)
          BY <1>s, <2>0, <3>3 DEF Passed, Needed, Running, Working, Ended, x, me
        <4> QED BY <2>0, <2>1, <3>2, <4>1, <4>2 DEF PlacedPart, Led
      <3> QED BY <3>2, <3>3, <3>4 DEF Restorable
    <2>2. CASE final[x] # "absent"
      <3>1. Goto(p, IF me.had THEN "restore" ELSE "failed") /\ UNCHANGED <<final, backup>>
        BY <1>5, <2>2 DEF SwapIn, GiveUp, x, me
      <3>2. /\ process'[p].step = (IF me.had THEN "restore" ELSE "failed")
            /\ process'[p].part = x /\ process'[p].had = me.had
        BY <1>g, <3>1
      <3>3. ASSUME NEW y \in Parts PROVE PlacedPart(p, y) /\ Led(p, y)
        <4>1. Swapping(p, y) <=> y = x
          BY <2>0 DEF Swapping, x, me
        <4>2. Swapping(p, y)' => y = x /\ process'[p].step = "restore"
          BY <3>2 DEF Swapping
        <4>3. Working(p, y)' => Working(p, y)
          BY <2>0, <3>2 DEF Working, x
        <4>4. Passed(p, y)' => Passed(p, y) /\ ~Working(p, y)
          BY <1>s, <2>0, <3>2 DEF Passed, Needed, Running, Working, Ended, x, me
        <4> QED BY <2>0, <2>2, <3>1, <4>1, <4>2, <4>3, <4>4 DEF PlacedPart, Led, me, x
      <3>4. Restorable(p) => Restorable(p)'
        BY <2>0, <3>1, <3>2 DEF Restorable, me, x
      <3> QED BY <3>1, <3>3, <3>4
    <2> QED BY <2>1, <2>2
  <1>6. CASE Restore(p)
    <2>0. me.step = "restore" /\ Working(p, x) /\ Goto(p, "failed")
      BY <1>6 DEF Restore, At, Working, Ended, x, me
    <2>1. process'[p].step = "failed" /\ process'[p].part = x
      BY <1>g, <2>0
    <2>2. \/ UNCHANGED <<final, backup>> /\ final[x] # "absent"
          \/ /\ final[x] = "absent" /\ final' = [final EXCEPT ![x] = backup[p][x]]
             /\ backup' = PutIn(backup, p, x, "absent")
      BY <1>6 DEF Restore, PutIn, x
    <2>3. /\ \A q \in Pids \ {p} : backup'[q] = backup[q]
          /\ \A y \in Parts \ {x} : final'[y] = final[y]
          /\ IF final[x] = "absent" THEN final'[x] = backup[p][x] ELSE final'[x] = final[x]
      BY <1>t, <2>2, PutRecord
    <2>4. ASSUME NEW y \in Parts PROVE PlacedPart(p, y) /\ Led(p, y)
      <3>1. (Swapping(p, y) <=> y = x) /\ ~Swapping(p, y)' /\ ~Working(p, y)' /\ ~Passed(p, y)'
        BY <2>0, <2>1 DEF Swapping, Working, Passed, Running, Ended, x, me
      <3> QED BY <2>0, <2>3, <3>1 DEF PlacedPart, Led, me
    <2> QED BY <2>1, <2>3, <2>4 DEF Restorable
  <1>7. CASE Probe(p)
    <2>1. me.step = "probe" /\ UNCHANGED <<final, backup>>
      BY <1>7 DEF Probe, At, places, me
    <2>2. PICK step \in {"ok", "failed"} : Goto(p, step)
      BY <1>7 DEF Probe
    <2>3. process'[p].step = step /\ process'[p].part = x
      BY <1>g, <2>2
    <2>4. ASSUME NEW y \in Parts PROVE PlacedPart(p, y) /\ Led(p, y)
      <3>1. ~Swapping(p, y) /\ ~Swapping(p, y)' /\ ~Working(p, y)' /\ ~Working(p, y)
        BY <2>1, <2>3 DEF Swapping, Working, Ended, me
      <3>2. Passed(p, y)' => Passed(p, y)
        BY <1>s, <2>1, <2>3 DEF Passed, Needed, Running, Ended, me
      <3> QED BY <2>1, <3>1, <3>2 DEF PlacedPart, Led
    <2> QED BY <2>1, <2>3, <2>4 DEF Restorable
  <1> QED BY <1>1, <1>2, <1>3, <1>4, <1>5, <1>6, <1>7 DEF SetupStep

\* A step that is neither a failed call nor a crash leaves the setups as they should be.
LEMMA TogetherStep ==
    ASSUME SetupInv, Together, NEW p \in Pids, SetupStep(p), ~Begin(p), ~Fault(p), ~Leftover(p), ~Crash(p)
    PROVE  Together'
  <1>s. Needed' = Needed
    BY DEF SetupStep, Check, LookUp, Discard, Download, Hash, Prepare, Fill, VerifyStaged, Clear, SwapOut, SwapIn,
           Restore, Recheck, Probe, At, Needed
  <1>o. \A q \in Pids \ {p} : process'[q] = process[q] /\ backup'[q] = backup[q]
    BY SameStep, StepShape DEF OthersSame
  <1>p. \A y \in Parts : PlacedPart(p, y) /\ Led(p, y)
    BY StepShape
  <1>t. process[p].part \in Parts /\ \A q \in Pids : process[q].part \in Parts
    BY DEF SetupInv, OnlyVerified, SetupTypeOK, Process
  <1>q. \A q \in Pids \ {p}, y \in Parts :
          /\ Passed(q, y)' <=> Passed(q, y)
          /\ Swapping(q, y)' <=> Swapping(q, y)
          /\ Working(q, y)' <=> Working(q, y)
    BY <1>o, <1>s DEF Passed, Swapping, Working, Running
  <1>r. Restorable(p) /\ Restorable(p)'
    BY StepShape DEF Together
  <1>1. \A q \in Pids : Restorable(q)'
    BY <1>o, <1>r DEF Together, Restorable
  <1>2. ASSUME NEW q \in Pids, NEW y \in Parts, Passed(q, y)', final'[y] = "absent"
        PROVE  \E r \in Pids : Swapping(r, y)'
    <2>1. CASE Swapping(p, y)'
      BY <2>1
    <2>2. CASE ~Swapping(p, y)'
      <3>1. final[y] = "absent" /\ ~Swapping(p, y)
        <4>1. PlacedPart(p, y)
          BY <1>p
        <4>2. Swapping(p, y) /\ process[p].step = "restore" => backup[p][y] # "absent"
          BY <1>r DEF Restorable, Swapping
        <4> QED BY <1>2, <2>2, <4>1, <4>2 DEF PlacedPart
      <3>2. Passed(q, y)
        BY <1>p, <1>q, <1>2 DEF Led
      <3>3. PICK r \in Pids : Swapping(r, y)
        BY <3>1, <3>2 DEF Together
      <3> QED BY <1>q, <3>1, <3>3
    <2> QED BY <2>1, <2>2
  <1>3. ASSUME AtMostTwo
        PROVE  \A q \in Pids : TooLate(q)'
    <2>1. TooLate(p)'
      <3>1. PICK z \in Parts : z = process'[p].part
        <4>1. SetupInv'
          BY SetupInvStep DEF SetupNext
        <4> QED BY <4>1 DEF SetupInv, OnlyVerified, SetupTypeOK, Process
      <3> SUFFICES ASSUME process'[p].step = "restore" \/ (process'[p].step = "swapIn" /\ final'[z] # "absent")
                   PROVE  final'[z] = "ready" /\ \A r \in Pids \ {p} : ~Working(r, z)'
        BY <3>1 DEF TooLate, Working
      <3>2. /\ process[p].step = "swapIn" /\ process[p].part = z
            /\ final[z] # "absent" /\ final'[z] = final[z]
        <4>1. Swapping(p, z)'
          BY <3>1 DEF Swapping
        <4> QED BY <1>p, <4>1 DEF Led
      <3>3. final[z] = "ready" /\ \A r \in Pids \ {p} : ~Working(r, z)
        BY <1>3, <3>2 DEF Together, TooLate
      <3> QED BY <1>q, <3>2, <3>3
    <2>2. ASSUME NEW q \in Pids \ {p}
          PROVE  TooLate(q)'
      <3> DEFINE z == process[q].part
      <3>0. z \in Parts /\ process'[q] = process[q] /\ \A r \in Pids \ {q} : r = p
        BY <1>o, <1>t, <1>3, <2>2 DEF AtMostTwo
      <3> SUFFICES ASSUME process[q].step = "restore" \/ (process[q].step = "swapIn" /\ final'[z] # "absent")
                   PROVE  final'[z] = "ready" /\ ~Working(p, z)'
        BY <3>0 DEF TooLate
      <3>1. CASE process[q].step = "restore" \/ (process[q].step = "swapIn" /\ final[z] # "absent")
        <4>1. final[z] = "ready" /\ ~Working(p, z)
          BY <1>3, <3>1 DEF Together, TooLate
        <4>2. ~Swapping(p, z)
          BY <4>1 DEF Working, Swapping, Ended
        <4>3. final'[z] = final[z]
          BY <1>p, <3>0, <4>1, <4>2 DEF PlacedPart
        <4>4. process[p].part = z /\ process[p].step = "check" => Ready(z)
          <5> SUFFICES ASSUME process[p].part = z, process[p].step = "check", z = "browsers"
                       PROVE  NodeWorks /\ final["js"] = "ready"
            BY <4>1 DEF Ready, Works
          <5>1. \A y \in {"node", "js"} \cap Needed : Passed(p, y)
            BY DEF Passed, Running, Ended
          <5>2. \A y \in {"node", "js"}, r \in Pids : ~Swapping(r, y)
            BY <3>0 DEF Swapping
          <5>3. \A y \in {"node", "js"} \cap Needed : final[y] = "ready"
            BY <1>3, <5>1, <5>2 DEF Together, Parts
          <5> QED BY <5>3 DEF Needed, NodeWorks, Parts
        <4>5. ~Working(p, z)'
          BY <1>p, <3>0, <4>1, <4>4 DEF Led
        <4> QED BY <4>1, <4>3, <4>5
      <3>2. CASE process[q].step = "swapIn" /\ final[z] = "absent" /\ final'[z] # "absent"
        <4>1. process[p].step # "restore" \/ process[p].part # z
          BY <1>3, <3>2 DEF Together, TooLate
        <4> QED BY <1>p, <3>0, <3>2, <4>1 DEF PlacedPart, Swapping
      <3> QED BY <3>1, <3>2
    <2> QED BY <2>1, <2>2
  <1>4. ASSUME AtMostTwo, NEW q \in Pids, NEW y \in Parts, Passed(q, y)'
        PROVE  final'[y] \in {"ready", "absent"}
    <2>1. final'[y] = "ready" \/ Passed(q, y)
      BY <1>p, <1>q, <1>4 DEF Led
    <2>2. Passed(q, y) => final[y] \in {"ready", "absent"}
      BY <1>4 DEF Together
    <2>3. ~(process[p].step = "restore" /\ process[p].part = y /\ final[y] = "absent")
      BY <1>4 DEF Together, TooLate
    <2> QED BY <1>p, <2>1, <2>2, <2>3 DEF PlacedPart, Swapping
  <1>5. AtMostTwo' <=> AtMostTwo
    BY DEF AtMostTwo
  <1> QED BY <1>1, <1>2, <1>3, <1>4, <1>5 DEF Together

\* A setup that begins has found nothing yet.
LEMMA TogetherBegin ==
    ASSUME SetupInv, Together, NEW p \in Pids, Begin(p)
    PROVE  Together'
  <1> DEFINE begun == [step |-> "check", part |-> IF system THEN "js" ELSE "node",
                       had |-> FALSE, alone |-> \A r \in Pids : ~Running(r),
                       faults |-> 0, found |-> final]
  <1>1. /\ process' = [q \in Pids |-> IF q = p THEN begun ELSE [process[q] EXCEPT !.alone = FALSE]]
        /\ UNCHANGED <<system, final, backup>>
    BY DEF Begin, places
  <1>2. begun.step = "check" /\ begun.part = (IF system THEN "js" ELSE "node")
    OBVIOUS
  <1> HIDE DEF begun
  <1>3. /\ process'[p] = begun
        /\ \A q \in Pids \ {p} : /\ process'[q].step = process[q].step /\ process'[q].part = process[q].part
                                 /\ process'[q].had = process[q].had
    BY <1>1 DEF SetupInv, OnlyVerified, SetupTypeOK, Process
  <1>4. ~Running(p)
    BY DEF Begin
  <1>5. \A y \in Parts : ~Swapping(p, y) /\ ~Swapping(p, y)' /\ ~Working(p, y)' /\ ~Passed(p, y)'
    BY <1>1, <1>2, <1>3, <1>4 DEF Swapping, Working, Passed, Needed, Running, Ended
  <1>6. \A q \in Pids \ {p}, y \in Parts :
          /\ Passed(q, y)' <=> Passed(q, y)
          /\ Swapping(q, y)' <=> Swapping(q, y)
          /\ Working(q, y)' <=> Working(q, y)
    BY <1>1, <1>3 DEF Passed, Swapping, Working, Running, Needed
  <1>7. \A q \in Pids : Restorable(q)'
    BY <1>1, <1>2, <1>3 DEF Together, Restorable
  <1>8. \A q \in Pids, y \in Parts : Passed(q, y)' /\ final'[y] = "absent" => \E r \in Pids : Swapping(r, y)'
    BY <1>1, <1>5, <1>6 DEF Together
  <1>9. ASSUME AtMostTwo
        PROVE  /\ \A q \in Pids : TooLate(q)'
               /\ \A q \in Pids, y \in Parts : Passed(q, y)' => final'[y] \in {"ready", "absent"}
    <2>1. \A q \in Pids, y \in Parts : Passed(q, y)' => final'[y] \in {"ready", "absent"}
      BY <1>1, <1>5, <1>6, <1>9 DEF Together
    <2>2. \A q \in Pids : process[q].part \in Parts
      BY DEF SetupInv, OnlyVerified, SetupTypeOK, Process
    <2>3. \A q \in Pids : TooLate(q)'
      BY <1>1, <1>2, <1>3, <1>5, <1>6, <1>9, <2>2 DEF Together, TooLate
    <2> QED BY <2>1, <2>3
  <1> QED BY <1>7, <1>8, <1>9 DEF Together, AtMostTwo

LEMMA TogetherInvStep ==
    ASSUME SetupInv, TogetherInv, [SetupNext]_setupVars
    PROVE  TogetherInv'
  <1>1. CASE UNCHANGED setupVars
    BY <1>1 DEF setupVars, places, counts, TogetherInv, Together, NoMishap, Restorable, Passed, Swapping, TooLate,
                Working, AtMostTwo, Running, Needed
  <1>2. ASSUME NEW y \in Parts, Spoil(y) PROVE TogetherInv'
    BY <1>2 DEF Spoil, TogetherInv, NoMishap
  <1>3. ASSUME NEW p \in Pids, Fault(p) \/ Leftover(p) \/ Crash(p) PROVE TogetherInv'
    BY <1>3 DEF Fault, Leftover, Crash, TogetherInv, NoMishap
  <1>4. ASSUME NEW p \in Pids, SetupStep(p), ~Fault(p), ~Leftover(p), ~Crash(p) PROVE TogetherInv'
    <2>1. UNCHANGED <<faults, crashes>>
      BY <1>4 DEF SetupStep, Begin, Check, LookUp, Discard, Download, Hash, Prepare, Fill, VerifyStaged, Clear,
                  SwapOut, SwapIn, Restore, Recheck, Probe, At, counts
    <2>2. Together => Together'
      BY <1>4, TogetherStep, TogetherBegin
    <2> QED BY <2>1, <2>2 DEF TogetherInv, NoMishap
  <1> QED BY <1>1, <1>2, <1>3, <1>4 DEF SetupNext

LEMMA TogetherInvInit == SetupInit => TogetherInv
  BY DEF SetupInit, TogetherInv, Together, NoMishap, Restorable, Passed, TooLate, Running, Ended

\* However many setups run into each other, without a crash and a failed call: once all have
\* ended and one has succeeded no runtime is missing, and if no more than two ran at a time
\* all are ready.
THEOREM SuccessAlwaysSettles == SetupSpec => []SuccessSettles
  <1>1. TogetherInv => SuccessSettles
    <2> SUFFICES ASSUME TogetherInv, \A p \in Pids : ~Running(p), faults + crashes = 0,
                        NEW p \in Pids, process[p].step = "ok", NEW x \in Needed
                 PROVE  final[x] # "absent" /\ (AtMostTwo => final[x] = "ready")
      BY DEF SuccessSettles
    <2>1. Together
      BY DEF TogetherInv, NoMishap
    <2>2. Passed(p, x) /\ x \in Parts
      BY DEF Passed, Needed
    <2>3. \A q \in Pids : ~Swapping(q, x)
      BY DEF Swapping, Running, Ended
    <2> QED BY <2>1, <2>2, <2>3 DEF Together
  <1> QED BY <1>1, SetupInvInit, SetupInvStep, TogetherInvInit, TogetherInvStep, PTL DEF SetupSpec
===============================================================================
