--------------------------- MODULE SemanticReview ----------------------------
(***************************************************************************)
(* How a guess about a project comes to act in its runs: fresh runs are    *)
(* mined for volatile paths and the source for signals, the candidates are *)
(* put in a review, people decide on them in a plan, the approved ones are *)
(* compiled into hints and applied to the manifest, whose runs then        *)
(* replace values, project state, call hooks and run packs                 *)
(* (protocol/web-volatility-miner.mjs, web-semantic-*.mjs,                 *)
(* web-normalizer-candidates.mjs, web-server-hook-candidates.mjs,          *)
(* web-approved-semantics-runtime.mjs).  Review, plan, hints and manifest  *)
(* are files; the project changes meanwhile.                               *)
(***************************************************************************)
EXTENDS Naturals, FiniteSets

CONSTANTS
    ProjectVersions,    \* versions of the project, as the analyses see them
    Reviewers,
    MaxWrites    \* bounds the changes of the project and the writes of the files

\* volatile: the paths that differ between fresh runs, with what they hold and what the
\* values look like; signals: the rules that source, tests or vocabulary speak for;
\* requests: the literal requests found in the source.
ASSUME ReviewAssumption ==
    /\ MaxWrites \in Nat
    /\ \A p \in ProjectVersions :
         /\ p.volatile \subseteq
              [in : {"storage", "form", "state", "url", "id", "text", "structure"},
               like : {"timestamp", "token", "other"}, generated : BOOLEAN]
         /\ p.signals \subseteq {"undo-redo-inverse", "saved-state-survives-reload",
                                 "route-identity", "history-position"}
         /\ p.requests \subseteq [method : {"GET", "POST"}, reset : BOOLEAN]

VARIABLES
    sources, review, plan,
    copy,      \* per reviewer, the review and the plan read
    hints, manifest,
    active,    \* what acts in the last run
    domainVerdict,   \* its domain verdict, with the results of the packs it ran
    approvals, \* the approvals there have been
    writes

reviewVars == <<sources, review, plan, copy, hints, manifest, active, domainVerdict, approvals, writes>>

\* What has not been written yet; a review or hints that have been are <<their candidates>>.
Unwritten == <<>>
NoPlan == [of |-> Unwritten, decisions |-> <<>>]

-----------------------------------------------------------------------------
\* The paths whose values are never proposed as noise, whatever they look like.
StateBearing == {"storage", "form", "state", "url"}

\* classify of the volatility miner.
LikelyNoise(v) == v.in \notin StateBearing /\ (v.in = "id" \/ (v.in = "text" /\ v.like # "other"))

PropertyRules == {"undo-redo-inverse", "saved-state-survives-reload"}

\* A candidate is what the review shows of it; its change is all that can be approved.
\* decision: noise is replaced, at less risk where the source generates such values.
NormalizerCandidate(v) ==
    [kind |-> "normalizer", id |-> v,
     risk |-> CASE ~LikelyNoise(v) -> "high" [] LikelyNoise(v) /\ v.generated -> "low" [] OTHER -> "medium",
     change |-> IF LikelyNoise(v) THEN "replace" ELSE "none"]

HookCandidates(requests) ==
    {[kind |-> "server-hook", id |-> q, risk |-> IF q.method = "GET" THEN "low" ELSE "high",
      change |-> IF q.method = "GET" THEN "readOnly" ELSE "reset"] :
        q \in {r \in requests : r.method = "GET" \/ r.reset}}

RuleCandidate(kind, rule) == [kind |-> kind, id |-> [rule |-> rule], risk |-> "none", change |-> "contract"]
PropertyCandidates(signals) == {RuleCandidate("property", s) : s \in signals \cap PropertyRules}
ProjectionCandidates(signals) == {RuleCandidate("projection", s) : s \in signals \ PropertyRules}

Candidates(p) ==
    {NormalizerCandidate(v) : v \in p.volatile} \cup HookCandidates(p.requests)
    \cup PropertyCandidates(p.signals) \cup ProjectionCandidates(p.signals)

ReviewInit ==
    /\ sources \in ProjectVersions /\ review = Unwritten /\ plan = NoPlan
    /\ copy = [r \in Reviewers |-> NoPlan] /\ hints = Unwritten
    /\ manifest = [approved |-> {}, hooks |-> {}]
    /\ active = {} /\ domainVerdict = "domain_unverified" /\ approvals = {} /\ writes = 0

Write == writes < MaxWrites /\ writes' = writes + 1

ProjectChanges ==
    /\ Write /\ sources' \in ProjectVersions \ {sources}
    /\ UNCHANGED <<review, plan, copy, hints, manifest, active, domainVerdict, approvals>>

\* analyze... and buildWebSemanticReviewReport.
Analyze ==
    /\ review # <<Candidates(sources)>> /\ review' = <<Candidates(sources)>>
    /\ UNCHANGED <<sources, plan, copy, hints, manifest, active, domainVerdict, approvals, writes>>

\* createWebSemanticApprovalPlan: the plan is of one review, told by its hash.
InitPlan ==
    /\ review # Unwritten /\ Write
    /\ plan' = [of |-> review, decisions |-> [c \in review[1] |-> [as |-> "pending", acked |-> FALSE]]]
    /\ UNCHANGED <<sources, review, copy, hints, manifest, active, domainVerdict, approvals>>

\* validateWebSemanticApprovalPlan.
Valid(r, p) == r # Unwritten /\ p.of = r

ReadPlan(r) ==
    /\ Valid(review, plan) /\ copy' = [copy EXCEPT ![r] = plan]
    /\ UNCHANGED <<sources, review, plan, hints, manifest, active, domainVerdict, approvals, writes>>

\* A slip: what has no change of its own can be approved.
MayApproveAnything(c, acked) == c.risk = "high" => acked

\* The refusals of decideWebSemanticCandidate.
MayApprove(c, acked) == (c.risk = "high" => acked) /\ c.change # "none"

\* decideWebSemanticCandidate on the plan that was read; the plan on the disk may have
\* become another since, and is written over.
Decide(r) ==
    /\ copy[r] # NoPlan /\ Write
    /\ \E c \in copy[r].of[1], as \in {"approve", "reject", "defer"}, acked \in BOOLEAN :
         /\ as = "approve" => MayApprove(c, acked)
         /\ plan' = [of |-> copy[r].of,
                     decisions |-> [copy[r].decisions EXCEPT ![c] = [as |-> as, acked |-> acked]]]
         /\ approvals' = IF as = "approve" THEN approvals \cup {[what |-> c, acked |-> acked]} ELSE approvals
    /\ copy' = [copy EXCEPT ![r] = NoPlan]
    /\ UNCHANGED <<sources, review, hints, manifest, active, domainVerdict>>

Approved(p) == {c \in p.of[1] : p.decisions[c].as = "approve"}

Compile ==
    /\ Valid(review, plan) /\ hints # <<Approved(plan)>> /\ hints' = <<Approved(plan)>>
    /\ UNCHANGED <<sources, review, plan, copy, manifest, active, domainVerdict, approvals, writes>>

\* withApprovedWebSemantics: the hints replace those of the manifest, their hooks are
\* added to its hooks; a second reset hook is a conflict.
Apply ==
    /\ hints # Unwritten
    /\ LET hooks == {c \in hints[1] : c.kind = "server-hook"}
           all == manifest.hooks \cup hooks
       IN /\ Cardinality({c \in all : c.change = "reset"}) <= 1
          /\ manifest' = [approved |-> hints[1], hooks |-> all]
    /\ manifest' # manifest
    /\ UNCHANGED <<sources, review, plan, copy, hints, active, domainVerdict, approvals, writes>>

\* webDomainHintContractSupport.
Executable(c) == c.id \in {[rule |-> "saved-state-survives-reload"], [rule |-> "route-identity"]}

\* evaluateWebDomainPropertyContract: the pack of an executable property passed.
Upheld(properties, ran) == \E c \in properties : Executable(c) /\ ran = "passed"

HintsOf(kind) == {c \in manifest.approved : c.kind = kind}
ExecutablePacks == {c \in HintsOf("property") : Executable(c)}

\* resolveApprovedSemanticRuntime, and the hooks of the manifest.
InEffect ==
    HintsOf("normalizer") \cup {c \in HintsOf("projection") : Executable(c)} \cup ExecutablePacks \cup manifest.hooks

\* The verdict of buildWebSemanticOracleBoundary.
VerdictOf(ran) ==
    CASE ExecutablePacks # {} /\ ran = "failed" -> "domain_failed"
      [] ran # "failed" /\ Upheld(HintsOf("property"), ran) -> "domain_verified"
      [] OTHER -> "domain_unverified"

\* The packs of the properties in effect are executed; others may be.
Run ==
    /\ active' = InEffect
    /\ \E ran \in {"passed", "failed"} \cup (IF ExecutablePacks = {} THEN {"not executed"} ELSE {}) :
         domainVerdict' = VerdictOf(ran)
    /\ UNCHANGED <<sources, review, plan, copy, hints, manifest, approvals, writes>>

ReviewNext ==
    \/ ProjectChanges \/ Analyze \/ InitPlan \/ Compile \/ Apply \/ Run
    \/ \E r \in Reviewers : ReadPlan(r) \/ Decide(r)

ReviewSpec == ReviewInit /\ [][ReviewNext]_reviewVars

-----------------------------------------------------------------------------
\* Nothing acts in a run that nobody approved, at its risk: not what was put off or is
\* pending, whatever plan was written over, and however the project changed since.
OnlyTheApproved ==
    \A c \in active : \E a \in approvals : a.what = c /\ (c.risk = "high" => a.acked)

\* A value that may be state of the user is never replaced in a snapshot.
StateIsNeverReplaced ==
    \A c \in active : c.kind = "normalizer" => c.id.in \notin {"storage", "form", "state", "url"}

\* A domain verdict is given only by a property that was approved and can be executed.
VerdictIsOfTheDomain ==
    domainVerdict # "domain_unverified" =>
        \E a \in approvals : a.what.kind = "property" /\ a.what.id = [rule |-> "saved-state-survives-reload"]

\* Guesses act only as reviewed: approved, on no state of the user, and they verify only
\* what they are about.
ReviewGoverns == OnlyTheApproved /\ StateIsNeverReplaced /\ VerdictIsOfTheDomain
===============================================================================
