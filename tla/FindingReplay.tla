---------------------------- MODULE FindingReplay -----------------------------
(***************************************************************************)
(* What becomes of the failures an exploration found: they are replayed in *)
(* further campaigns (protocol/web-exploration-replay-gate.mjs), the ones  *)
(* stable in every campaign are promoted (web-replay-gate.mjs), and a      *)
(* representative of every strong, stable group is shrunk                  *)
(* (web-actionable-finding.mjs).  A trace is the set of the positions kept *)
(* of the one found.                                                       *)
(***************************************************************************)
EXTENDS Integers, Sequences, FiniteSets

CONSTANTS
    Failures,  \* a sequence of records: class, group and whether it is strong
    Length,    \* of every trace
    Attempts, Budget

ASSUME FindingAssumption ==
    /\ Failures \in Seq([class : STRING, group : STRING, strong : BOOLEAN])
    /\ \A i, j \in DOMAIN Failures :
         Failures[i].group = Failures[j].group => Failures[i].strong = Failures[j].strong
    /\ Length \in Nat \ {0} /\ Attempts \in Nat \ {0} /\ Budget \in Nat \ {0}

Candidate == DOMAIN Failures
Found == 1 .. Length
Trace == SUBSET Found
Class(i) == Failures[i].class

VARIABLES
    shows,      \* the traces that reproduce the finding
    fickle,     \* the failures that may fail to reproduce
    attempt,    \* the campaign that runs; the exploration was the first
    next,       \* the candidate it replays next
    runs,       \* for every campaign, the failures reproduced
    pc,
    todo,       \* the groups still to analyse
    trace, evaluations, index, minimality, subject  \* of one shrink

shrink == <<trace, evaluations, index, minimality, subject>>
gate == <<attempt, next, runs>>
vars == <<shows, fickle, gate, pc, todo, shrink>>

FindingInit ==
    /\ shows \in {s \in SUBSET (Trace \ {{}}) : Found \in s}
    /\ fickle \in SUBSET Candidate
    /\ attempt = 1 /\ next = 1 /\ runs = <<Candidate>>
    /\ pc = "gate" /\ todo = {}
    /\ trace = {} /\ evaluations = 0 /\ index = 1
    /\ minimality = "none" /\ subject = 0

\* replayCandidateTrace: a fickle failure need not show, an empty trace never does.
Outcomes(i, t) == IF t \notin shows THEN {FALSE} ELSE IF i \in fickle THEN BOOLEAN ELSE {TRUE}

-----------------------------------------------------------------------------
\* The campaigns, one after the other, and the candidates of each.
BeginCampaign ==
    /\ pc = "gate" /\ attempt < Attempts /\ (attempt = 1 \/ next > Len(Failures))
    /\ attempt' = attempt + 1 /\ next' = 1 /\ runs' = Append(runs, {})
    /\ UNCHANGED <<shows, fickle, pc, todo, shrink>>

ReplayCandidate ==
    /\ pc = "gate" /\ attempt > 1 /\ next <= Len(Failures)
    /\ \E again \in Outcomes(next, Found) :
         runs' = IF again THEN [runs EXCEPT ![attempt] = @ \cup {next}] ELSE runs
    /\ next' = next + 1
    /\ UNCHANGED <<shows, fickle, attempt, pc, todo, shrink>>

\* A slip: a class is stable when any later campaign shows it.
StableInAny == {Class(i) : i \in UNION {runs[k] : k \in 2 .. Len(runs)}}

\* stableIds: the classes some failure of which reproduced in every campaign.
StableClasses == {c \in {Class(i) : i \in Candidate} :
                    \A k \in DOMAIN runs : \E i \in runs[k] : Class(i) = c}

\* stableFailures: the first failure found of every stable class.
Promoted == {i \in Candidate : /\ Class(i) \in StableClasses
                               /\ \A j \in Candidate : Class(j) = Class(i) => i <= j}

CloseGate ==
    /\ pc = "gate" /\ attempt = Attempts /\ (attempt = 1 \/ next > Len(Failures))
    /\ pc' = "analyse" /\ todo' = {Failures[i].group : i \in Candidate}
    /\ UNCHANGED <<shows, fickle, gate, shrink>>

-----------------------------------------------------------------------------
Members(g) == {i \in Candidate : Failures[i].group = g}
Representative(g) == CHOOSE i \in Members(g) : \A j \in Members(g) : i <= j

\* A group all of whose failures are of stable classes.
Deterministic(g) == \A i \in Members(g) : Class(i) \in StableClasses

\* The groups are analysed in turn; a strong one whose classes are all stable is
\* shrunk.
Analyse ==
    /\ pc = "analyse"
    /\ \E g \in todo :
         /\ todo' = todo \ {g}
         /\ IF Deterministic(g) /\ Failures[Representative(g)].strong
            THEN /\ pc' = "shrink" /\ subject' = Representative(g)
                 /\ trace' = Found /\ evaluations' = 0 /\ index' = 1 /\ minimality' = "none"
            ELSE UNCHANGED <<pc, shrink>>
    /\ UNCHANGED <<shows, fickle, gate>>

AnalysisDone ==
    /\ pc = "analyse" /\ todo = {} /\ pc' = "done"
    /\ UNCHANGED <<shows, fickle, gate, todo, shrink>>

Nth == CHOOSE x \in trace : Cardinality({y \in trace : y < x}) = index - 1
Without == trace \ {Nth}

Conclude(m) ==
    /\ minimality' = m /\ pc' = "analysed"
    /\ UNCHANGED <<trace, evaluations, index, subject>>

\* A slip: the budget that ends the search is not told apart from its end.
DeleteUntold ==
    /\ pc = "shrink"
    /\ \/ (index > Cardinality(trace) \/ evaluations >= Budget) /\ Conclude("one-minimal")
       \/ /\ index <= Cardinality(trace) /\ evaluations < Budget
          /\ \E again \in Outcomes(subject, Without) :
               /\ trace' = IF again THEN Without ELSE trace
               /\ index' = IF again THEN 1 ELSE index + 1
          /\ evaluations' = evaluations + 1
          /\ UNCHANGED <<pc, minimality, subject>>
    /\ UNCHANGED <<shows, fickle, gate, todo>>
\* The deletion loop: a deletion that reproduces the finding is kept and the loop
\* begins again.
Delete ==
    /\ pc = "shrink"
    /\ \/ /\ index > Cardinality(trace)
          /\ pc' = "verify" /\ index' = 1
          /\ UNCHANGED <<trace, evaluations, minimality, subject>>
       \/ index <= Cardinality(trace) /\ evaluations >= Budget /\ Conclude("budget-exhausted")
       \/ /\ index <= Cardinality(trace) /\ evaluations < Budget
          /\ \E again \in Outcomes(subject, Without) :
               /\ trace' = IF again THEN Without ELSE trace
               /\ index' = IF again THEN 1 ELSE index + 1
          /\ evaluations' = evaluations + 1
          /\ UNCHANGED <<pc, minimality, subject>>
    /\ UNCHANGED <<shows, fickle, gate, todo>>

\* Every deletion is tried once more before the trace is called minimal.
Verify ==
    /\ pc = "verify"
    /\ IF index > Cardinality(trace) THEN Conclude("one-minimal")
       ELSE IF evaluations >= Budget THEN Conclude("budget-exhausted")
       ELSE \E again \in Outcomes(subject, Without) :
              /\ evaluations' = evaluations + 1 /\ index' = index + 1
              /\ IF again THEN pc' = "analysed" /\ minimality' = "not-one-minimal"
                 ELSE UNCHANGED <<pc, minimality>>
              /\ UNCHANGED <<trace, subject>>
    /\ UNCHANGED <<shows, fickle, gate, todo>>

Analysed ==
    /\ pc = "analysed" /\ pc' = "analyse"
    /\ UNCHANGED <<shows, fickle, gate, todo, shrink>>

FindingNext ==
    \/ BeginCampaign \/ ReplayCandidate \/ CloseGate
    \/ Analyse \/ AnalysisDone \/ Delete \/ Verify \/ Analysed

FindingSpec == FindingInit /\ [][FindingNext]_vars

-----------------------------------------------------------------------------
FindingTypeOK ==
    /\ attempt \in 1 .. Attempts /\ next \in 1 .. Len(Failures) + 1
    /\ Len(runs) = attempt /\ \A k \in DOMAIN runs : runs[k] \subseteq Candidate
    /\ pc \in {"gate", "analyse", "shrink", "verify", "analysed", "done"}
    /\ trace \in Trace /\ evaluations \in 0 .. Budget /\ subject \in Candidate \cup {0}
    /\ minimality \in {"none", "one-minimal", "budget-exhausted", "not-one-minimal"}

\* What is promoted to a quality failure reproduced in every campaign.
PromotedReproduced == pc # "gate" => \A i \in Promoted : \A k \in DOMAIN runs : i \in runs[k]

\* A class is stable only when one exact trace of it reproduced in every campaign.
ClassesReproduced ==
    pc # "gate" => \A c \in StableClasses :
                      \E i \in Candidate : Class(i) = c /\ \A k \in DOMAIN runs : i \in runs[k]

\* A failure that always reproduces is promoted, whatever others do.
FirmPromoted == pc # "gate" => \A i \in Candidate \ fickle : Class(i) \in StableClasses

\* The gate promotes what it should and nothing else, as far as one campaign after
\* another can tell.
PromotionIsJust == PromotedReproduced /\ FirmPromoted

\* A group is shrunk only when all of its failures reproduced in every campaign.
ShrinksTheStable ==
    /\ FindingTypeOK
    /\ pc \in {"shrink", "verify", "analysed"} =>
       \A i \in Members(Failures[subject].group) : \A k \in DOMAIN runs : i \in runs[k]

\* What is called one-minimal, of a failure that always reproduces, reproduces
\* the finding and no longer does with any one action deleted.
FindingIsMinimal ==
    pc = "analysed" /\ minimality = "one-minimal" /\ subject \notin fickle =>
       trace \in shows /\ \A x \in trace : trace \ {x} \notin shows
=============================================================================
