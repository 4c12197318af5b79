------------------------------ MODULE Benchmark -------------------------------
(***************************************************************************)
(* The report on a corpus of targets, made in one benchmark                *)
(* (protocol/web-project-benchmark.mjs) or put together from the summaries *)
(* of shards that ran apart (protocol/web-project-benchmark-shard.mjs),    *)
(* and its gates: of the corpus (protocol/web-project-corpus.mjs) and of a *)
(* baseline kept from an earlier report (protocol/web-project-baseline.mjs).*)
(* The corpus may be edited meanwhile, summaries may be lost or made twice.*)
(***************************************************************************)
EXTENDS Integers, FiniteSets, FiniteSetsExt

CONSTANTS
    Corpora,      \* per content of the corpus, its targets
    Traits,       \* per content and target: repository, adapterLoc, tags, topology
    Checkout,     \* per target, the checkout it lives in
    Results,      \* of a campaign: onboarded, interventions, replay, viability
    Gate,         \* the thresholds: rates in percent, counts, required tags and topologies
    MaxSummaries  \* bound: the summaries kept at a time

Targets == UNION {Corpora[c] : c \in DOMAIN Corpora}

ASSUME BenchmarkAssumption ==
    /\ \A c \in DOMAIN Corpora : Corpora[c] # {} /\ IsFiniteSet(Corpora[c])
    /\ \A c \in DOMAIN Corpora : \A t \in Corpora[c] :
         Traits[c][t].adapterLoc \in Nat /\ Traits[c][t].tags \subseteq STRING
    /\ Checkout \in [Targets -> Nat] /\ MaxSummaries \in Nat
    /\ \A r \in Results : /\ r.onboarded \in BOOLEAN /\ r.interventions \in Nat
                          /\ r.onboarded => r.interventions = 0 /\ r.viability = "qualified"
    /\ {Gate.minOnboarding, Gate.maxIntervention, Gate.minReplay} \subseteq 0 .. 100
    /\ {Gate.maxRegressions, Gate.maxAdapterLoc, Gate.minTargets, Gate.minRepositories} \subseteq Nat

VARIABLES
    content,    \* of the corpus as it is now
    summaries,  \* of the shards, as found in the input directory
    baseline,   \* the content and the results kept, or none
    report      \* what the last step reported: how it was made, of what, its verdict

benchmarkVars == <<content, summaries, baseline, report>>

Nothing == [made |-> "none"]

BenchmarkInit ==
    /\ content \in DOMAIN Corpora /\ summaries = {} /\ baseline = Nothing /\ report = Nothing

-----------------------------------------------------------------------------
\* summarizeWebProjectBenchmark: how many there are of each.
Summary(results) ==
    [projects   |-> Cardinality(DOMAIN results),
     onboarded  |-> Cardinality({t \in DOMAIN results : results[t].onboarded}),
     intervened |-> Cardinality({t \in DOMAIN results : results[t].interventions > 0}),
     observed   |-> Cardinality({t \in DOMAIN results : results[t].replay # "none"}),
     same       |-> Cardinality({t \in DOMAIN results : results[t].replay = "same"})]

Reached(part, whole, percent) == part * 100 >= percent * whole

\* diffWebProjectBenchmark against an earlier report.
Lost(before, results) ==
    {t \in DOMAIN before : before[t].onboarded /\ (t \in DOMAIN results => ~results[t].onboarded)}
        \cup (DOMAIN before \ DOMAIN results)

\* What the gate asks of the corpus itself; a count that is not asked for is 0, and the
\* tags and topologies that are not asked for are none.
AdapterLoc == MapThenSumSet(LAMBDA t : Traits[content][t].adapterLoc, Corpora[content])
Broad ==
    LET targets == Corpora[content]
        trait == Traits[content]
    IN /\ Cardinality(targets) >= Gate.minTargets
       /\ Cardinality({trait[t].repository : t \in targets}) >= Gate.minRepositories
       /\ Gate.requiredTags \subseteq UNION {trait[t].tags : t \in targets}
       /\ Gate.requiredTopologies \subseteq {trait[t].topology : t \in targets}

\* evaluateWebProjectBenchmarkGate on the counts of summarizeWebProjectBenchmark.
QualityGate(results, previous) ==
    LET count == Summary(results)
    IN /\ AdapterLoc <= Gate.maxAdapterLoc /\ Broad
       /\ Reached(count.onboarded, count.projects, Gate.minOnboarding)
       /\ count.intervened * 100 <= Gate.maxIntervention * count.projects
       /\ IF count.observed = 0 THEN Gate.minReplay = 0
          ELSE Reached(count.same, count.observed, Gate.minReplay)
       /\ Cardinality(Lost(previous, results)) <= Gate.maxRegressions

\* A slip: a target the baseline has and the report has not is passed over.
BaselineGateForgetful(results) ==
    baseline = Nothing \/
        Cardinality({t \in DOMAIN baseline.results \cap DOMAIN results :
            baseline.results[t].onboarded /\ ~results[t].onboarded}) <= Gate.maxRegressions

\* evaluateWebProjectBenchmarkBaselineGate: the same corpus, and per target no regression.
BaselineGate(results) ==
    baseline = Nothing \/
        LET before == baseline.results
            Worse(t) == \/ before[t].onboarded /\ ~results[t].onboarded
                        \/ before[t].replay = "same" /\ results[t].replay # "same"
                        \/ before[t].interventions < results[t].interventions
        IN /\ baseline.content = content /\ DOMAIN before = DOMAIN results
           /\ Cardinality({t \in DOMAIN before : Worse(t)}) <= Gate.maxRegressions

\* promotionEligible of the frontier corpus: it does not ask how broad the corpus is.
Promotable(results) ==
    /\ AdapterLoc = 0
    /\ \A t \in DOMAIN results :
         results[t].viability = "qualified" /\ results[t].onboarded /\ results[t].replay = "same"

Report(made, results, previous) ==
    report' = [made |-> made, results |-> results, compared |-> DOMAIN previous # {},
               ok |-> QualityGate(results, previous) /\ BaselineGate(results),
               promotable |-> Promotable(results)]

-----------------------------------------------------------------------------
NoReport == [t \in {} |-> {}]
Earlier == UNION {[Corpora[c] -> Results] : c \in DOMAIN Corpora}

\* runWebProjectCorpusBenchmark; --previous names an earlier report, or none.  No
\* summaries of shards are in its directory.
BenchmarkCorpus ==
    /\ summaries = {}
    /\ \E results \in [Corpora[content] -> Results] : \E previous \in Earlier \cup {NoReport} :
         Report("benchmark", results, previous)
    /\ UNCHANGED <<content, summaries, baseline>>

\* selectWebProjectCorpusShard: the targets of a checkout stay together.
Selectable(ids) ==
    /\ ids # {} /\ ids \subseteq Corpora[content]
    /\ \A t \in ids : {u \in Corpora[content] : Checkout[u] = Checkout[t]} \subseteq ids

\* runWebProjectCorpusShard of a job, or of another attempt of it.
RunShard ==
    /\ Cardinality(summaries) < MaxSummaries
    /\ \E ids \in {s \in SUBSET Targets : Selectable(s)} : \E results \in [ids -> Results] :
         summaries' = summaries \cup {[content |-> content, results |-> results]}
    /\ report' = Nothing /\ UNCHANGED <<content, baseline>>

LoseSummary ==
    /\ \E s \in summaries : summaries' = summaries \ {s}
    /\ report' = Nothing /\ UNCHANGED <<content, baseline>>

EditCorpus ==
    /\ \E c \in DOMAIN Corpora \ {content} : content' = c
    /\ report' = Nothing /\ UNCHANGED <<summaries, baseline>>

\* The summaries are of the corpus as it is, and no target is in two of them.
Compatible ==
    /\ \A s \in summaries : s.content = content /\ Selectable(DOMAIN s.results)
    /\ \A s, t \in summaries : s # t => DOMAIN s.results \cap DOMAIN t.results = {}

CoveredTargets == UNION {DOMAIN s.results : s \in summaries}
ResultOf(t) == (CHOOSE s \in summaries : t \in DOMAIN s.results).results[t]

\* A slip: what a later summary says of a target replaces what an earlier one said.
AggregateLatest ==
    /\ summaries # {} /\ CoveredTargets = Corpora[content]
    /\ Report("aggregate", [t \in Corpora[content] |-> ResultOf(t)], NoReport)
    /\ UNCHANGED <<content, summaries, baseline>>

\* aggregateWebProjectCorpusShards; it throws when a target is missing or twice there.
Aggregate ==
    /\ summaries # {}
    /\ IF Compatible /\ CoveredTargets = Corpora[content]
       THEN Report("aggregate", [t \in Corpora[content] |-> ResultOf(t)], NoReport)
       ELSE report' = Nothing
    /\ UNCHANGED <<content, summaries, baseline>>

\* createWebProjectBenchmarkBaseline from a report, whatever its verdict was.
KeepBaseline ==
    /\ report.made # "none"
    /\ baseline' = [made |-> "baseline", content |-> content, results |-> report.results]
    /\ report' = Nothing /\ UNCHANGED <<content, summaries>>

BenchmarkNext ==
    \/ BenchmarkCorpus \/ RunShard \/ LoseSummary \/ EditCorpus \/ Aggregate \/ KeepBaseline

BenchmarkSpec == BenchmarkInit /\ [][BenchmarkNext]_benchmarkVars

-----------------------------------------------------------------------------
\* Putting shards together reports what one benchmark would: every target once, with
\* the result of the one shard that ran its checkout, on the corpus as it is.
AggregateIsWhole ==
    [][report' # report /\ report'.made = "aggregate" =>
        /\ DOMAIN report'.results = Corpora[content]
        /\ \A s \in summaries : s.content = content
        /\ \A t \in Corpora[content] : \A s \in summaries :
             (\E u \in DOMAIN s.results : Checkout[u] = Checkout[t]) =>
                 t \in DOMAIN s.results /\ report'.results[t] = s.results[t]
      ]_benchmarkVars

\* A report passes only if no target got worse than in the baseline, in any respect, or
\* was dropped with what it had, and if some target was reproduced where the gate asks it;
\* and of its own gate, a corpus that may be promoted can fail nothing but the counts, tags
\* and topologies asked of the corpus itself.
PassesOnMerit ==
    [][report' # report /\ report'.made # "none" =>
        /\ report'.ok /\ baseline # Nothing /\ Gate.maxRegressions = 0 =>
             \A t \in DOMAIN baseline.results :
                 /\ t \in DOMAIN report'.results
                 /\ baseline.results[t].onboarded => report'.results[t].onboarded
                 /\ baseline.results[t].replay = "same" => report'.results[t].replay = "same"
        /\ report'.ok /\ Gate.minReplay > 0 => \E t \in DOMAIN report'.results : report'.results[t].replay = "same"
        /\ report'.promotable /\ ~report'.compared /\ baseline = Nothing => report'.ok \/ ~Broad
      ]_benchmarkVars
===============================================================================
