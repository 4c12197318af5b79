------------------------- MODULE SemanticReviewProofs -------------------------
(***************************************************************************)
(* What holds of the semantic review for every project, every number of    *)
(* reviewers and of writes to the plan: guesses act only as reviewed.  And *)
(* what holds of the actions offered on every page, none of which drops    *)
(* out, and of the losses and the coverage the property packs report.      *)
(***************************************************************************)
EXTENDS SemanticReview, ActionInventory, PropertyPacks, SequenceTheorems, FiniteSetTheorems,
        WellFoundedInduction, TLAPS

AllCandidates == UNION {Candidates(p) : p \in ProjectVersions}
Decisions == [as : {"pending", "approve", "reject", "defer"}, acked : BOOLEAN]

\* The plans of a review, in any state of the decisions.
PlanOf(S, d) == [of |-> <<S>>, decisions |-> d]
Plans == {NoPlan} \cup UNION {{PlanOf(S, d) : d \in [S -> Decisions]} : S \in SUBSET AllCandidates}

\* A candidate that was approved, at its risk, and can be.
Backed(c) ==
    /\ c \in AllCandidates /\ c.change # "none"
    /\ \E a \in approvals : a.what = c /\ (c.risk = "high" => a.acked)

PlanBacked(p) == p # NoPlan => \A c \in Approved(p) : Backed(c)

\* The files are of their kind, and what they let act is backed by an approval.
ReviewInv ==
    /\ sources \in ProjectVersions
    /\ review = Unwritten \/ \E S \in SUBSET AllCandidates : review = <<S>>
    /\ plan \in Plans /\ PlanBacked(plan)
    /\ copy \in [Reviewers -> Plans] /\ \A r \in Reviewers : PlanBacked(copy[r])
    /\ hints = Unwritten \/ \E H \in SUBSET AllCandidates : hints = <<H>> /\ \A c \in H : Backed(c)
    /\ \A c \in manifest.approved \cup manifest.hooks : Backed(c)
    /\ \A c \in active : Backed(c)
    /\ VerdictIsOfTheDomain

-----------------------------------------------------------------------------
\* A normalizer that replaces something is of a path that bears no state.
LEMMA NormalizerIsNoise ==
    ASSUME NEW c \in AllCandidates, c.kind = "normalizer", c.change # "none"
    PROVE  c.id.in \notin {"storage", "form", "state", "url"}
  <1>1. PICK p \in ProjectVersions : c \in Candidates(p)
    BY DEF AllCandidates
  <1>2. PICK v \in p.volatile : c = NormalizerCandidate(v)
    BY <1>1 DEF Candidates, HookCandidates, PropertyCandidates, ProjectionCandidates, RuleCandidate
  <1>3. LikelyNoise(v) /\ c.id = v
    BY <1>2 DEF NormalizerCandidate
  <1> QED BY <1>3 DEF LikelyNoise, StateBearing

\* The one property that can be executed is that of the saved state.
LEMMA ExecutableProperty ==
    ASSUME NEW c \in AllCandidates, c.kind = "property", Executable(c)
    PROVE  c.id = [rule |-> "saved-state-survives-reload"]
  <1>1. PICK p \in ProjectVersions : c \in Candidates(p)
    BY DEF AllCandidates
  <1>2. PICK s \in PropertyRules : c = RuleCandidate("property", s)
    BY <1>1 DEF Candidates, NormalizerCandidate, HookCandidates, PropertyCandidates,
                ProjectionCandidates, RuleCandidate
  <1>3. c.id = [rule |-> s]
    BY <1>2 DEF RuleCandidate
  <1>4. [rule |-> s].rule = s /\ [rule |-> "route-identity"].rule = "route-identity"
    OBVIOUS
  <1> QED BY <1>3, <1>4 DEF Executable, PropertyRules

\* A plan that was written has the candidates of one review and a decision on each.
LEMMA PlanShape ==
    ASSUME NEW p \in Plans, p # NoPlan
    PROVE  \E S \in SUBSET AllCandidates : \E d \in [S -> Decisions] :
              p = PlanOf(S, d) /\ p.of = <<S>> /\ p.of[1] = S /\ Approved(p) = {c \in S : d[c].as = "approve"}
  <1>1. PICK S \in SUBSET AllCandidates : \E d \in [S -> Decisions] : p = PlanOf(S, d)
    BY DEF Plans
  <1>2. PICK d \in [S -> Decisions] : p = PlanOf(S, d)
    BY <1>1
  <1>3. p.of = <<S>> /\ p.of[1] = S /\ p.decisions = d
    BY <1>2 DEF PlanOf
  <1> QED BY <1>2, <1>3 DEF Approved

\* A plan of something is a plan, and not the one before any.
LEMMA PlanOfIsPlan ==
    ASSUME NEW S \in SUBSET AllCandidates, NEW d \in [S -> Decisions]
    PROVE  PlanOf(S, d) \in Plans /\ PlanOf(S, d) # NoPlan
           /\ Approved(PlanOf(S, d)) = {c \in S : d[c].as = "approve"}
  <1>1. PlanOf(S, d).of = <<S>> /\ PlanOf(S, d).of[1] = S /\ PlanOf(S, d).decisions = d
    BY DEF PlanOf
  <1>2. NoPlan.of = <<>> /\ <<S>> # <<>>
    BY DEF NoPlan, Unwritten
  <1>3. PlanOf(S, d) \in Plans
    <2> DEFINE PlansOn(T) == {PlanOf(T, e) : e \in [T -> Decisions]}
    <2>1. PlanOf(S, d) \in PlansOn(S)
      OBVIOUS
    <2>2. PlansOn(S) \in {PlansOn(T) : T \in SUBSET AllCandidates}
      OBVIOUS
    <2>3. Plans = {NoPlan} \cup UNION {PlansOn(T) : T \in SUBSET AllCandidates}
      BY DEF Plans
    <2> HIDE DEF PlansOn
    <2> QED BY <2>1, <2>2, <2>3
  <1>4. PlanOf(S, d) # NoPlan
    BY <1>1, <1>2, Zenon
  <1>5. Approved(PlanOf(S, d)) = {c \in S : d[c].as = "approve"}
    BY <1>1, Zenon DEF Approved
  <1> QED BY <1>3, <1>4, <1>5

\* Approvals are never taken back: what was backed stays so.
LEMMA BackedStays ==
    ASSUME approvals \subseteq approvals', NEW c, Backed(c) PROVE Backed(c)'
  BY DEF Backed

-----------------------------------------------------------------------------
\* Before anything is written nothing acts.
LEMMA ReviewInitially == ReviewInit => ReviewInv
  <1> SUFFICES ASSUME ReviewInit PROVE ReviewInv
    OBVIOUS
  <1>1. NoPlan \in Plans
    BY DEF Plans
  <1>2. copy \in [Reviewers -> Plans] /\ \A r \in Reviewers : copy[r] = NoPlan
    BY <1>1 DEF ReviewInit
  <1> QED BY <1>1, <1>2 DEF ReviewInit, ReviewInv, PlanBacked, VerdictIsOfTheDomain

\* What was approved in a plan, in the hints, in the manifest and in the last run stays
\* backed when none of them changes.
LEMMA KeptIsBacked ==
    ASSUME ReviewInv, approvals \subseteq approvals'
    PROVE  /\ \A p : PlanBacked(p) => (p # NoPlan => \A c \in Approved(p) : Backed(c)')
           /\ UNCHANGED hints => hints' = Unwritten \/
                \E H \in SUBSET AllCandidates : hints' = <<H>> /\ \A c \in H : Backed(c)'
           /\ UNCHANGED manifest => \A c \in manifest'.approved \cup manifest'.hooks : Backed(c)'
           /\ UNCHANGED active => \A c \in active' : Backed(c)'
           /\ UNCHANGED domainVerdict => VerdictIsOfTheDomain'
  <1>1. \A c : Backed(c) => Backed(c)'
    BY BackedStays
  <1>2. UNCHANGED domainVerdict => VerdictIsOfTheDomain'
    BY DEF ReviewInv, VerdictIsOfTheDomain
  <1> QED BY <1>1, <1>2 DEF ReviewInv, PlanBacked

\* A verdict on the domain comes of an approved property that can be executed.
LEMMA VerdictIsBacked ==
    ASSUME ReviewInv, NEW ran, VerdictOf(ran) # "domain_unverified"
    PROVE  \E a \in approvals : a.what.kind = "property"
                               /\ a.what.id = [rule |-> "saved-state-survives-reload"]
  <1>1. PICK c \in manifest.approved : c.kind = "property" /\ Executable(c)
    BY DEF VerdictOf, ExecutablePacks, Upheld, HintsOf
  <1>2. Backed(c)
    BY DEF ReviewInv
  <1>3. c.id = [rule |-> "saved-state-survives-reload"]
    BY <1>1, <1>2, ExecutableProperty DEF Backed
  <1> QED BY <1>1, <1>2, <1>3 DEF Backed

\* Every step keeps it: a decision adds to the plan that was read at most the candidate it
\* approves, and compiling, applying and running pass on what the plan approves.
LEMMA ReviewStep == ReviewInv /\ [ReviewNext]_reviewVars => ReviewInv'
  <1> SUFFICES ASSUME ReviewInv, [ReviewNext]_reviewVars PROVE ReviewInv'
    OBVIOUS
  <1>1. CASE ProjectChanges
    <2>1. UNCHANGED <<review, plan, copy, hints, manifest, active, domainVerdict, approvals>>
          /\ sources' \in ProjectVersions
      BY <1>1 DEF ProjectChanges
    <2> QED BY <2>1, KeptIsBacked DEF ReviewInv, PlanBacked
  <1>2. CASE Analyze
    <2>1. UNCHANGED <<sources, plan, copy, hints, manifest, active, domainVerdict, approvals>>
          /\ review' = <<Candidates(sources)>>
      BY <1>2 DEF Analyze
    <2>2. Candidates(sources) \subseteq AllCandidates
      BY DEF ReviewInv, AllCandidates
    <2> QED BY <2>1, <2>2, KeptIsBacked DEF ReviewInv, PlanBacked
  <1>3. CASE InitPlan
    <2>1. PICK S \in SUBSET AllCandidates : review = <<S>>
      BY <1>3 DEF InitPlan, ReviewInv
    <2> DEFINE d == [c \in S |-> [as |-> "pending", acked |-> FALSE]]
    <2>2. d \in [S -> Decisions]
      BY DEF Decisions
    <2>3. plan' = PlanOf(S, d)
      BY <1>3, <2>1 DEF InitPlan, PlanOf
    <2>4. \A c \in S : d[c].as # "approve"
      OBVIOUS
    <2> HIDE DEF d
    <2>5. plan' \in Plans /\ Approved(plan') = {}
      BY <2>2, <2>3, <2>4, PlanOfIsPlan
    <2>6. UNCHANGED <<sources, review, copy, hints, manifest, active, domainVerdict, approvals>>
      BY <1>3 DEF InitPlan
    <2> QED BY <2>5, <2>6, KeptIsBacked DEF ReviewInv, PlanBacked
  <1>4. CASE Compile
    <2>1. UNCHANGED <<sources, review, plan, copy, manifest, active, domainVerdict, approvals>>
          /\ hints' = <<Approved(plan)>>
      BY <1>4 DEF Compile
    <2>2. plan # NoPlan
      BY <1>4 DEF Compile, Valid, NoPlan
    <2>3. Approved(plan) \in SUBSET AllCandidates /\ \A c \in Approved(plan) : Backed(c)
      BY <2>2, PlanShape DEF ReviewInv, PlanBacked
    <2> DEFINE H == Approved(plan)
    <2>4. H \in SUBSET AllCandidates /\ hints' = <<H>> /\ \A c \in H : Backed(c)'
      BY <2>1, <2>3, BackedStays
    <2> HIDE DEF H
    <2>5. hints' = Unwritten \/ \E G \in SUBSET AllCandidates : hints' = <<G>> /\ \A c \in G : Backed(c)'
      BY <2>4
    <2> QED BY <2>1, <2>5, KeptIsBacked DEF ReviewInv, PlanBacked
  <1>5. CASE Apply
    <2>1. UNCHANGED <<sources, review, plan, copy, hints, active, domainVerdict, approvals>>
      BY <1>5 DEF Apply
    <2>2. PICK H \in SUBSET AllCandidates : hints = <<H>> /\ \A c \in H : Backed(c)
      BY <1>5 DEF Apply, ReviewInv
    <2>3. manifest'.approved = H /\ manifest'.hooks \subseteq manifest.hooks \cup H
      BY <1>5, <2>2 DEF Apply
    <2>4. \A c \in manifest'.approved \cup manifest'.hooks : Backed(c)'
      BY <2>1, <2>2, <2>3, BackedStays DEF ReviewInv
    <2> QED BY <2>1, <2>4, KeptIsBacked DEF ReviewInv, PlanBacked
  <1>6. CASE Run
    <2>1. UNCHANGED <<sources, review, plan, copy, hints, manifest, approvals>> /\ active' = InEffect
      BY <1>6 DEF Run
    <2>2. InEffect \subseteq manifest.approved \cup manifest.hooks
      BY DEF InEffect, HintsOf, ExecutablePacks
    <2>3. \A c \in active' : Backed(c)'
      BY <2>1, <2>2, BackedStays DEF ReviewInv
    <2>4. PICK ran \in {"passed", "failed", "not executed"} : domainVerdict' = VerdictOf(ran)
      BY <1>6 DEF Run
    <2>5. VerdictIsOfTheDomain'
      BY <2>1, <2>4, VerdictIsBacked DEF VerdictIsOfTheDomain
    <2> QED BY <2>1, <2>3, <2>5, KeptIsBacked DEF ReviewInv, PlanBacked
  <1>7. ASSUME NEW r \in Reviewers, ReadPlan(r)
        PROVE  ReviewInv'
    <2>1. UNCHANGED <<sources, review, plan, hints, manifest, active, domainVerdict, approvals>>
          /\ copy' = [copy EXCEPT ![r] = plan]
      BY <1>7 DEF ReadPlan
    <2>2. copy' \in [Reviewers -> Plans] /\ \A q \in Reviewers : copy'[q] \in {plan, copy[q]}
      BY <2>1 DEF ReviewInv
    <2>3. \A q \in Reviewers : PlanBacked(copy'[q])
      BY <2>2 DEF ReviewInv
    <2> QED BY <2>1, <2>2, <2>3, KeptIsBacked DEF ReviewInv, PlanBacked
  <1>8. ASSUME NEW r \in Reviewers, Decide(r)
        PROVE  ReviewInv'
    <2>1. UNCHANGED <<sources, review, hints, manifest, active, domainVerdict>>
          /\ copy' = [copy EXCEPT ![r] = NoPlan] /\ copy[r] # NoPlan
      BY <1>8 DEF Decide
    <2>2. PICK c \in copy[r].of[1], as \in {"approve", "reject", "defer"}, acked \in BOOLEAN :
              /\ as = "approve" => MayApprove(c, acked)
              /\ plan' = [of |-> copy[r].of,
                        decisions |-> [copy[r].decisions EXCEPT ![c] = [as |-> as, acked |-> acked]]]
              /\ approvals' = IF as = "approve" THEN approvals \cup {[what |-> c, acked |-> acked]} ELSE approvals
      BY <1>8 DEF Decide
    <2>3a. copy[r] \in Plans
      BY DEF ReviewInv
    <2>3b. PICK S \in SUBSET AllCandidates : \E d \in [S -> Decisions] :
              copy[r] = PlanOf(S, d) /\ copy[r].of[1] = S /\ Approved(copy[r]) = {e \in S : d[e].as = "approve"}
      BY <2>1, <2>3a, PlanShape
    <2>3. PICK d \in [S -> Decisions] :
              copy[r] = PlanOf(S, d) /\ copy[r].of[1] = S /\ Approved(copy[r]) = {e \in S : d[e].as = "approve"}
      BY <2>3b
    <2> DEFINE new == [as |-> as, acked |-> acked]
               dd == [d EXCEPT ![c] = new]
    <2>4. c \in S /\ new \in Decisions /\ new.as = as
      BY <2>3 DEF Decisions
    <2>5. dd \in [S -> Decisions] /\ dd[c] = new /\ \A e \in S \ {c} : dd[e] = d[e]
      BY <2>4
    <2>6. plan' = PlanOf(S, dd)
      <3>1. copy[r].of = <<S>> /\ copy[r].decisions = d
        BY <2>3 DEF PlanOf
      <3>2. plan' = [of |-> copy[r].of, decisions |-> [copy[r].decisions EXCEPT ![c] = new]]
        BY <2>2
      <3> QED BY <3>1, <3>2 DEF PlanOf
    <2>7. approvals \subseteq approvals'
      BY <2>2
    <2>8. as = "approve" => Backed(c)'
      <3> SUFFICES ASSUME as = "approve" PROVE Backed(c)'
        OBVIOUS
      <3>1. c \in AllCandidates /\ c.change # "none" /\ (c.risk = "high" => acked)
        BY <2>2, <2>4 DEF MayApprove
      <3> DEFINE a == [what |-> c, acked |-> acked]
      <3>2. a \in approvals' /\ a.what = c /\ a.acked = acked
        BY <2>2
      <3> QED BY <3>1, <3>2 DEF Backed
    <2> HIDE DEF dd, new
    <2>9. plan' \in Plans /\ \A e \in Approved(plan') : (e = c /\ as = "approve") \/ e \in Approved(copy[r])
      <3>1. plan' \in Plans /\ Approved(plan') = {e \in S : dd[e].as = "approve"}
        BY <2>5, <2>6, PlanOfIsPlan
      <3> QED BY <2>3, <2>4, <2>5, <3>1
    <2>10. \A e \in Approved(plan') : Backed(e)'
      <3>1. \A e \in Approved(copy[r]) : Backed(e)'
        BY <2>1, <2>7, BackedStays DEF ReviewInv, PlanBacked
      <3> QED BY <2>8, <2>9, <3>1
    <2>11. NoPlan \in Plans
      BY DEF Plans
    <2>12. copy' \in [Reviewers -> Plans] /\ \A q \in Reviewers : copy'[q] = NoPlan \/ copy'[q] = copy[q]
      BY <2>1, <2>11 DEF ReviewInv
    <2> QED BY <2>1, <2>7, <2>9, <2>10, <2>12, KeptIsBacked DEF ReviewInv, PlanBacked
  <1>9. CASE UNCHANGED reviewVars
    BY <1>9, KeptIsBacked DEF reviewVars, ReviewInv, PlanBacked
  <1> QED BY <1>1, <1>2, <1>3, <1>4, <1>5, <1>6, <1>7, <1>8, <1>9 DEF ReviewNext

\* For every project and however many people review it: what acts in a run was approved at
\* its risk, no value that may be state of the user is replaced, and only an approved
\* property that can be executed gives a verdict on the domain.
THEOREM ReviewAlwaysGoverns == ReviewSpec => []ReviewGoverns
  <1>1. ReviewInv => ReviewGoverns
    <2> SUFFICES ASSUME ReviewInv PROVE ReviewGoverns
      OBVIOUS
    <2>1. \A c \in active : Backed(c)
      BY DEF ReviewInv
    <2>2. OnlyTheApproved
      BY <2>1 DEF Backed, OnlyTheApproved
    <2>3. StateIsNeverReplaced
      BY <2>1, NormalizerIsNoise DEF Backed, StateIsNeverReplaced
    <2> QED BY <2>2, <2>3 DEF ReviewGoverns, ReviewInv
  <1> QED BY <1>1, ReviewInitially, ReviewStep, PTL DEF ReviewSpec

-----------------------------------------------------------------------------
\* Of an action that discovery makes of an element there is one candidate, or more than one.
LEMMA OneOrMore ==
    ASSUME NEW p \in Pages, NEW i \in DOMAIN p, Candidate(p[i]), NEW d \in RoleActions(p[i])
    PROVE  \/ Cardinality(Sharing(p, d, Target(p[i]))) = 1
           \/ Cardinality(Sharing(p, d, Target(p[i]))) > 1
  <1> DEFINE D == Sharing(p, d, Target(p[i]))
  <1>1. DOMAIN p = 1 .. Len(p) /\ Len(p) \in Nat
    BY InventoryAssumption
  <1>2. IsFiniteSet(DOMAIN p)
    BY <1>1, FS_Interval
  <1>3. D \subseteq DOMAIN p /\ i \in D
    BY DEF Sharing
  <1>4. IsFiniteSet(D) /\ D # {}
    BY <1>2, <1>3, FS_Subset
  <1>5. Cardinality(D) \in Nat /\ Cardinality(D) # 0
    BY <1>4, FS_CardinalityType, FS_EmptySet
  <1> HIDE DEF D
  <1>6. Cardinality(D) = 1 \/ Cardinality(D) > 1
    BY <1>5
  <1> QED BY <1>6 DEF D

\* An action that was made is offered, or its target told of by the locators.
LEMMA MadeIsLocated ==
    ASSUME Take, NEW a \in Discovered(shown) \cup Presses(shown)
    PROVE  a \in inventory'.actions \/ \E d \in inventory'.diagnostics : d.target = a.target
  <1> DEFINE made == Discovered(shown)
             pressed == Presses(shown)
             all == {b \in made \cup pressed : b.target.role # "dialog"}
             dialogs == {b \in made : b.target.role = "dialog"}
  <1>1. /\ inventory'.actions = {b \in all : Cardinality(Found(shown, b.target)) = 1}
        /\ inventory'.diagnostics = AmbiguousActions(shown) \cup AmbiguousLocators(shown, all)
               \cup {[kind |-> "unsupported_generic_action", target |-> b.target] : b \in dialogs}
    BY DEF Take
  <1>2. ASSUME NEW b \in pressed PROVE b.target.role = "textbox"
    <2>1. PICK j \in DOMAIN shown : shown[j].role = "textbox" /\ b = Action(<<"press", "Enter">>, Target(shown[j]))
      BY DEF Presses
    <2>2. b.target = Target(shown[j])
      BY <2>1 DEF Action
    <2>3. Target(shown[j]).role = shown[j].role
      BY DEF Target
    <2> QED BY <2>1, <2>2, <2>3
  <1> HIDE DEF made, pressed
  <1>3. CASE a.target.role = "dialog"
    <2>1. a \in dialogs
      BY <1>2, <1>3 DEF made, pressed
    <2>2. [kind |-> "unsupported_generic_action", target |-> a.target] \in inventory'.diagnostics
      BY <1>1, <2>1
    <2> QED BY <2>2
  <1>4. CASE a.target.role # "dialog"
    <2>1. a \in all
      BY <1>4 DEF made, pressed
    <2> HIDE DEF all
    <2>2. CASE Cardinality(Found(shown, a.target)) = 1
      BY <1>1, <2>1, <2>2
    <2>3. CASE Cardinality(Found(shown, a.target)) # 1
      <3>1. [kind |-> "ambiguous_locator", target |-> a.target] \in AmbiguousLocators(shown, all)
        BY <2>1, <2>3 DEF AmbiguousLocators
      <3>2. [kind |-> "ambiguous_locator", target |-> a.target] \in inventory'.diagnostics
        BY <1>1, <3>1
      <3> QED BY <3>2
    <2> QED BY <2>2, <2>3
  <1> QED BY <1>3, <1>4

\* So is everything that ACTION_ROLES has for an element discovery does not pass over.
LEMMA ActionTells ==
    ASSUME shown \in Pages, Take, NEW i \in DOMAIN shown, Candidate(shown[i]), NEW d \in RoleActions(shown[i])
    PROVE  \/ Action(d, Target(shown[i])) \in inventory'.actions
           \/ \E x \in inventory'.diagnostics : x.target = Target(shown[i])
  <1> DEFINE t == Target(shown[i])
  <1>1. CASE Cardinality(Sharing(shown, d, t)) > 1
    <2>1. [kind |-> "ambiguous_action", target |-> t] \in AmbiguousActions(shown)
      BY <1>1 DEF AmbiguousActions
    <2>2. AmbiguousActions(shown) \subseteq inventory'.diagnostics
      BY DEF Take
    <2> QED BY <2>1, <2>2
  <1>2. CASE Cardinality(Sharing(shown, d, t)) = 1
    <2>1. Action(d, t) \in Discovered(shown)
      BY <1>2 DEF Discovered
    <2>2. Action(d, t).target = t
      BY DEF Action
    <2> HIDE DEF t
    <2>3. \/ Action(d, t) \in inventory'.actions
          \/ \E x \in inventory'.diagnostics : x.target = t
      BY <2>1, <2>2, MadeIsLocated
    <2> QED BY <2>3 DEF t
  <1> QED BY <1>1, <1>2, OneOrMore

\* ACTION_ROLES has everything that can be done with a control, but for the Enter that the
\* driver adds, and every option of a list that has one.
LEMMA RoleActionsCover ==
    ASSUME NEW p \in Pages, NEW i \in DOMAIN p, NEW k \in CanDo(p[i]), k # "press",
           ~NothingToSelect(p[i])
    PROVE  (\E d \in RoleActions(p[i]) : d[1] = k) /\ \A o \in p[i].options : <<k, o>> \in RoleActions(p[i])
  <1>1. p[i].role \in Roles /\ (p[i].options # {} => p[i].role \in {"combobox", "listbox"})
    BY InventoryAssumption
  <1>2. CASE p[i].role \in {"combobox", "listbox"}
    <2>1. k = "select" /\ p[i].options # {} /\ RoleActions(p[i]) = {"select"} \X p[i].options
      BY <1>2 DEF CanDo, RoleActions, NothingToSelect
    <2>2. \A o \in p[i].options : <<k, o>> \in RoleActions(p[i])
      BY <2>1
    <2>3. PICK o \in p[i].options : TRUE
      BY <2>1
    <2>4. <<k, o>>[1] = k
      OBVIOUS
    <2> QED BY <2>2, <2>3, <2>4
  <1>3. CASE p[i].role \notin {"combobox", "listbox"}
    <2>1. \E d \in RoleActions(p[i]) : d[1] = k
      BY <1>1, <1>3 DEF CanDo, RoleActions, Roles
    <2> QED BY <1>1, <1>3, <2>1
  <1> QED BY <1>2, <1>3

\* An inventory that was taken tells of every control it does not pass over.
LEMMA TakeTells ==
    ASSUME shown \in Pages, Take, NEW i \in DOMAIN shown, NEW k \in CanDo(shown[i]),
           Candidate(shown[i]), ~NothingToSelect(shown[i]), ~Told(shown[i])'
    PROVE  IsOffered(shown[i], k)'
  <1> DEFINE e == shown[i]
             t == Target(e)
             inputs == {a.input : a \in {a \in inventory'.actions : a.kind = k /\ a.target = t}}
  <1>1. shown' = shown
    BY DEF Take
  <1>2. ~\E x \in inventory'.diagnostics : x.target = t
    BY <1>1 DEF Told
  <1>3. \A x, y : Action(<<x, y>>, t).kind = x /\ Action(<<x, y>>, t).input = y /\ Action(<<x, y>>, t).target = t
    BY DEF Action
  <1>4. inputs # {} /\ e.options \subseteq inputs
    <2>1. CASE k = "press"
      <3>1. e.role = "textbox" /\ e.options = {}
        BY <2>1, InventoryAssumption DEF CanDo
      <3>2. Action(<<"press", "Enter">>, t) \in Presses(shown)
        BY <3>1 DEF Presses, Candidate
      <3> HIDE DEF t
      <3>3. Action(<<"press", "Enter">>, t) \in inventory'.actions
        BY <1>2, <1>3, <3>2, MadeIsLocated
      <3> QED BY <1>3, <2>1, <3>1, <3>3
    <2>2. CASE k # "press"
      <3>1. PICK d \in RoleActions(e) : d[1] = k
        BY <2>2, RoleActionsCover
      <3>2. \A o \in e.options : <<k, o>> \in RoleActions(e)
        BY <2>2, RoleActionsCover
      <3>3. \A c \in RoleActions(e) : Action(c, t) \in inventory'.actions
        BY <1>2, ActionTells
      <3>4. Action(d, t).kind = k /\ Action(d, t).target = t
        BY <3>1 DEF Action
      <3> HIDE DEF t, e
      <3>5. inputs # {}
        BY <3>1, <3>3, <3>4
      <3>6. ASSUME NEW o \in e.options PROVE o \in inputs
        <4>1. Action(<<k, o>>, t) \in inventory'.actions
          BY <3>2, <3>3
        <4> QED BY <1>3, <4>1
      <3> QED BY <3>5, <3>6
    <2> QED BY <2>1, <2>2
  <1> QED BY <1>1, <1>4 DEF IsOffered

\* Whatever is on a page: each thing that can be done with a control that is shown and
\* enabled is offered or told of, by discoverAccessibleActions or by the locators of the
\* driver, unless nothing names the control or it is a list without options.
THEOREM DropsAlwaysKnown == InventorySpec => []DropsAreKnown
  <1> DEFINE Inv == shown \in Pages /\ DropsAreKnown
  <1>1. InventoryInit => Inv
    BY DEF InventoryInit, NoInventory, DropsAreKnown
  <1>2. ASSUME Inv, [InventoryNext]_inventoryVars PROVE Inv'
    <2>1. CASE Take
      <3>1. shown' = shown
        BY <2>1 DEF Take
      <3>2. ASSUME NEW i \in DOMAIN shown, NEW k \in CanDo(shown[i]), ~shown[i].hidden, ~shown[i].disabled
            PROVE  \/ IsOffered(shown[i], k)' \/ Told(shown[i])'
                   \/ Nameless(shown[i]) \/ NothingToSelect(shown[i])
        BY <1>2, <2>1, <3>2, TakeTells DEF Candidate, Nameless
      <3>3. DropsAreKnown'
        BY <3>1, <3>2 DEF DropsAreKnown, IsOffered, Told
      <3> QED BY <1>2, <3>1, <3>3
    <2>2. CASE UNCHANGED inventoryVars
      BY <1>2, <2>2 DEF inventoryVars, DropsAreKnown, IsOffered, Told
    <2> QED BY <1>2, <2>1, <2>2 DEF InventoryNext
  <1>3. Inv => DropsAreKnown
    OBVIOUS
  <1> HIDE DEF Inv
  <1> QED BY <1>1, <1>2, <1>3, PTL DEF InventorySpec

-----------------------------------------------------------------------------
\* Of the actions offered there is one that comes first.
LEMMA FirstAction ==
    ASSUME NEW S \in SUBSET Deeds, S # {}
    PROVE  \E a \in S : \A b \in S : a.id <= b.id
  <1> DEFINE ids == {a.id : a \in S}
             less == OpToRel(<, Nat)
  <1>1. \A a \in S : a.id \in Nat
    BY DEF Deeds
  <1>2. ids \in SUBSET Nat /\ ids # {}
    BY <1>1
  <1> HIDE DEF ids
  <1>3. PICK x \in ids : \A y \in ids : ~(<<y, x>> \in less)
    BY <1>2, NatLessThanWellFounded, WFMin
  <1>4. x \in Nat /\ \A y \in ids : y \in Nat
    BY <1>2
  <1>5. \A y \in ids : <<y, x>> \in less <=> y < x
    BY <1>4 DEF OpToRel
  <1> HIDE DEF less
  <1>6. \A y \in ids : ~(y < x)
    BY <1>3, <1>5
  <1>7. \A y \in ids : x <= y
    BY <1>4, <1>6
  <1>8. PICK a \in S : a.id = x
    BY DEF ids
  <1>9. \A b \in S : a.id <= b.id
    BY <1>7, <1>8 DEF ids
  <1> QED BY <1>9

LEMMA FirstOfIs ==
    ASSUME NEW S \in SUBSET Deeds, S # {}
    PROVE  FirstOf(S) \in S
  BY FirstAction DEF FirstOf

\* Sorting by id loses and adds nothing: at each place there is an action of the set.
LEMMA InOrderIs ==
    ASSUME NEW S \in SUBSET Deeds, IsFiniteSet(S), \A d, e \in S : d.id = e.id => d = e
    PROVE  Cardinality(S) \in Nat /\ \A i \in 1 .. Cardinality(S) : InOrder(S)[i] \in S
  <1> DEFINE Below(a) == {b \in S : b.id < a.id}
             Ranked(k) == \E a \in S : Cardinality(Below(a)) = k
             less == OpToRel(<, Nat)
             unranked == {k \in Nat : k < Cardinality(S) /\ ~Ranked(k)}
  <1>1. \A a \in S : a.id \in Nat
    BY DEF Deeds
  <1>2. Cardinality(S) \in Nat
    BY FS_CardinalityType
  <1>3. unranked = {}
    <2> SUFFICES ASSUME unranked # {} PROVE FALSE
      OBVIOUS
    <2>1. PICK k \in unranked : \A m \in unranked : ~(<<m, k>> \in less)
      <3> HIDE DEF unranked
      <3>1. unranked \in SUBSET Nat
        BY DEF unranked
      <3> QED BY <3>1, NatLessThanWellFounded, WFMin
    <2>2. k \in Nat /\ k < Cardinality(S) /\ ~Ranked(k)
      OBVIOUS
    <2>3. \A m \in Nat : m < k => Ranked(m)
      <3> SUFFICES ASSUME NEW m \in Nat, m < k, ~Ranked(m) PROVE FALSE
        OBVIOUS
      <3> HIDE DEF Ranked
      <3>1. m \in unranked
        BY <1>2, <2>2
      <3>2. <<m, k>> \in less
        BY <2>2 DEF OpToRel
      <3> QED BY <2>1, <3>1, <3>2
    <2> HIDE DEF unranked, less
    <2>4. CASE k = 0
      <3>1. S # {}
        BY <1>2, <2>2, <2>4, FS_EmptySet
      <3>2. PICK a \in S : \A b \in S : a.id <= b.id
        BY <3>1, FirstAction
      <3>3. \A b \in S : ~(b.id < a.id)
        BY <1>1, <3>2
      <3>4. Below(a) = {}
        BY <3>3
      <3>5. Cardinality(Below(a)) = 0
        BY <3>4, FS_EmptySet
      <3> QED BY <2>2, <2>4, <3>5
    <2>5. CASE k # 0
      <3>1. k - 1 \in Nat /\ k - 1 < k
        BY <2>2, <2>5
      <3>2. PICK a \in S : Cardinality(Below(a)) = k - 1
        BY <2>3, <3>1
      <3> DEFINE Above == {b \in S : a.id < b.id}
                 Until == Below(a) \cup {a}
      <3>3. IsFiniteSet(Below(a)) /\ a \notin Below(a)
        BY <1>1, FS_Subset
      <3>4. IsFiniteSet(Until) /\ Cardinality(Until) = k
        <4>1. Cardinality(Until) = Cardinality(Below(a)) + 1
          BY <3>3, FS_AddElement
        <4>2. IsFiniteSet(Until)
          BY <3>3, FS_AddElement
        <4> QED BY <2>2, <3>2, <4>1, <4>2
      <3>5. S = Until \cup Above
        <4> SUFFICES ASSUME NEW b \in S, b # a PROVE b.id < a.id \/ a.id < b.id
          OBVIOUS
        <4>1. b.id # a.id /\ b.id \in Nat /\ a.id \in Nat
          BY <1>1
        <4> QED BY <4>1
      <3>6. Above # {}
        <4> SUFFICES ASSUME Above = {} PROVE FALSE
          OBVIOUS
        <4>1. S = Until
          BY <3>5
        <4>2. Cardinality(S) = k
          BY <3>4, <4>1
        <4> QED BY <1>2, <2>2, <4>2
      <3>7. PICK c \in Above : \A b \in Above : c.id <= b.id
        <4>1. Above \in SUBSET Deeds
          OBVIOUS
        <4> QED BY <3>6, <4>1, FirstAction
      <3>8. Below(c) = Until
        <4>1. c.id \in Nat /\ a.id \in Nat /\ a.id < c.id /\ c \in S
          BY <1>1
        <4>2. ASSUME NEW b \in Until PROVE b.id < c.id /\ b \in S
          BY <1>1, <4>1, <4>2
        <4>3. ASSUME NEW b \in Below(c) PROVE b \in Until
          <5>1. b \in S /\ b.id < c.id /\ b.id \in Nat
            BY <1>1
          <5>2. b \notin Above
            BY <3>7, <4>1, <5>1
          <5> QED BY <3>5, <5>1, <5>2
        <4> HIDE DEF Until
        <4> QED BY <4>2, <4>3
      <3>9. Cardinality(Below(c)) = k
        BY <3>4, <3>8
      <3> QED BY <2>2, <3>9
    <2> QED BY <2>4, <2>5
  <1>4. ASSUME NEW i \in 1 .. Cardinality(S) PROVE InOrder(S)[i] \in S
    <2>1. i - 1 \in Nat /\ i - 1 < Cardinality(S)
      BY <1>2
    <2>2. Ranked(i - 1)
      <3> HIDE DEF Ranked
      <3> QED BY <1>3, <2>1
    <2>3. InOrder(S)[i] = CHOOSE a \in S : Cardinality(Below(a)) = i - 1
      BY DEF InOrder
    <2> QED BY <2>2, <2>3
  <1> QED BY <1>2, <1>4

-----------------------------------------------------------------------------
Worlds == [server : Nat, storage : Nat, page : Nat, away : BOOLEAN, thrown : BOOLEAN]

\* What a probe does: one action, or two; a mutation is of families that have an action
\* which is not destructive.
Short == {<<a>> : a \in app.acts} \cup {<<a, b>> : a \in app.acts, b \in app.acts}
Mutates(s) ==
    \A i \in 1 .. Len(s) : \E j \in 1 .. Len(s) :
        s[j].family = s[i].family /\ s[j].risk # "destructive" /\ s[j] \in app.acts
Probing ==
    {p \in [as : {"safety", "link", "reload", "read", "invalid", "mutation"}, does : Short] :
        p.as = "mutation" => Mutates(p.does)}

\* What was seen says of the application, and of what was executed, what it is taken for.
SeenIsTrue ==
    /\ "projection" \in seen => app.projected
    /\ "restart" \in seen => app.restarts /\ (app.projected => ~app.forgets)
    /\ \A family \in {"create", "update", "delete"} \cap seen :
         \E a \in executed : a.family = family /\ a.risk # "destructive"

PacksInv ==
    /\ app \in Apps /\ pack \in 0 .. Len(Packs) + 2
    /\ world \in Worlds /\ left \in Seq(Probing)
    /\ seen \subseteq Aspects /\ executed \subseteq app.acts
    /\ SeenIsTrue /\ LossesAreReal /\ FindsTheLoss

Changes(s) == UNION {s[i].changes : i \in 1 .. Len(s)}

\* What the constants say of the application under test.
LEMMA AppIs ==
    ASSUME app \in Apps
    PROVE  /\ app.acts \in SUBSET Deeds /\ IsFiniteSet(app.acts)
           /\ \A d, e \in app.acts : d.id = e.id => d = e
           /\ \A p \in app.acts : p.kind = "press" =>
                p.risk = "bounded" /\ \A t \in app.acts : t.kind = "type" /\ t.target = p.target => t.family = p.family
           /\ Packs \in Seq({"browser-safety", "navigation", "reload-persistence", "stateful-server"})
           /\ app.hook \in BOOLEAN /\ app.projected \in BOOLEAN /\ app.shown \in BOOLEAN
           /\ app.restarts \in BOOLEAN /\ app.forgets \in BOOLEAN /\ app.noisy \in BOOLEAN
  BY AppsAssumption DEF Packs

\* A probe that fills in a form finds something to fill in.
LEMMA DoesIs ==
    ASSUME app \in Apps, NEW a \in app.acts, a.kind = "press" => On("type", a) # {}
    PROVE  Does(a) \in Short
  <1>1. \A kind \in {"type", "press"} : On(kind, a) \in SUBSET Deeds /\ On(kind, a) \subseteq app.acts
    BY AppIs DEF On
  <1>2. \A kind \in {"type", "press"} : On(kind, a) # {} => FirstOf(On(kind, a)) \in app.acts
    BY <1>1, FirstOfIs
  <1> QED BY <1>2 DEF Does, Short

\* A press is bounded, and what is typed before it is of its family.
LEMMA FormMutates ==
    ASSUME app \in Apps, NEW a \in Forms
    PROVE  Mutates(Does(a))
  <1> DEFINE t == FirstOf(On("type", a))
  <1>1. a \in app.acts /\ a.kind = "press" /\ On("type", a) # {} /\ On("type", a) \in SUBSET Deeds
    BY AppIs DEF Forms, On
  <1>2. t \in On("type", a)
    BY <1>1, FirstOfIs
  <1>3. t.family = a.family /\ a.risk = "bounded"
    BY <1>1, <1>2, AppIs DEF On
  <1> HIDE DEF t
  <1>4. Does(a) = <<t, a>>
    BY <1>1 DEF Does, t
  <1>5. Len(Does(a)) = 2 /\ Does(a)[1] = t /\ Does(a)[2] = a
    BY <1>4
  <1>6. ASSUME NEW i \in 1 .. 2 PROVE Does(a)[i].family = a.family
    <2>1. i = 1 \/ i = 2
      OBVIOUS
    <2> QED BY <1>3, <1>5, <2>1
  <1> QED BY <1>1, <1>3, <1>5, <1>6 DEF Mutates

LEMMA SimpleMutates ==
    ASSUME NEW a \in Simple
    PROVE  Mutates(Does(a))
  <1>1. a \in app.acts /\ a.risk # "destructive" /\ Does(a) = <<a>>
    BY DEF Simple, Does
  <1> QED BY <1>1 DEF Mutates

LEMMA AsProbesIs ==
    ASSUME app \in Apps, NEW kind \in {"safety", "link", "reload", "read", "invalid", "mutation"},
           NEW S \in SUBSET app.acts,
           \A a \in S : a.kind = "press" => On("type", a) # {},
           kind = "mutation" => \A a \in S : Mutates(Does(a))
    PROVE  AsProbes(kind, S) \in Seq(Probing)
  <1>1. S \in SUBSET Deeds /\ IsFiniteSet(S) /\ \A d, e \in S : d.id = e.id => d = e
    BY AppIs, FS_Subset
  <1>2. Cardinality(S) \in Nat /\ \A i \in 1 .. Cardinality(S) : InOrder(S)[i] \in S
    BY <1>1, InOrderIs
  <1>3. \A a \in S : [as |-> kind, does |-> Does(a)] \in Probing
    BY DoesIs DEF Probing
  <1> DEFINE n == Cardinality(S)
  <1>4. AsProbes(kind, S) \in [1 .. n -> Probing]
    BY <1>2, <1>3 DEF AsProbes
  <1> HIDE DEF n
  <1>5. n \in Nat
    BY <1>2 DEF n
  <1> QED BY <1>4, <1>5, SeqDef

\* The first of a sequence of probes are one, and so are some of them before others.
LEMMA SomeOf ==
    ASSUME NEW s \in Seq(Probing), NEW n \in 0 .. Len(s)
    PROVE  SubSeq(s, 1, n) \in Seq(Probing)
  <1>1. Len(s) \in Nat /\ \A i \in 1 .. Len(s) : s[i] \in Probing
    BY ElementOfSeq, LenProperties
  <1>2. \A i \in 1 .. n : s[i] \in Probing
    BY <1>1
  <1> QED BY <1>2, SubSeqProperties

LEMMA FirstIs ==
    ASSUME NEW s \in Seq(Probing)
    PROVE  First(s) \in Seq(Probing)
  <1> DEFINE n == IF Len(s) < MaxProbes THEN Len(s) ELSE MaxProbes
  <1>1. Len(s) \in Nat /\ MaxProbes \in Nat
    BY LenProperties, PacksAssumption
  <1>2. n \in 0 .. Len(s)
    BY <1>1
  <1> HIDE DEF n
  <1>3. SubSeq(s, 1, n) \in Seq(Probing)
    BY <1>2, SomeOf
  <1> QED BY <1>3 DEF First, n

LEMMA AtMostOne ==
    ASSUME NEW s \in Seq(Probing)
    PROVE  SubSeq(s, 1, IF s = <<>> THEN 0 ELSE 1) \in Seq(Probing)
  <1>1. Len(s) \in Nat /\ (s # <<>> => Len(s) \in Nat \ {0})
    BY LenProperties, EmptySeq
  <1>2. CASE s = <<>>
    BY <1>1, <1>2, SomeOf
  <1>3. CASE s # <<>>
    BY <1>1, <1>3, SomeOf
  <1> QED BY <1>2, <1>3

LEMMA ProbesAre ==
    ASSUME app \in Apps, NEW name \in {"browser-safety", "navigation", "reload-persistence", "stateful-server"}
    PROVE  Probes(name) \in Seq(Probing)
  <1>1. Forms \in SUBSET app.acts /\ \A a \in Forms : a.kind = "press" => On("type", a) # {}
    BY DEF Forms
  <1>2. Simple \in SUBSET app.acts /\ \A a \in Simple : a.kind # "press"
    BY DEF Simple
  <1>3. CASE name = "browser-safety"
    <2>1. AsProbes("safety", Simple) \in Seq(Probing)
      BY <1>2, AsProbesIs
    <2>2. AsProbes("safety", Forms) \in Seq(Probing)
      BY <1>1, AsProbesIs
    <2>3. First(AsProbes("safety", Simple) \o AsProbes("safety", Forms)) \in Seq(Probing)
      BY <2>1, <2>2, ConcatProperties, FirstIs
    <2> QED BY <1>3, <2>3 DEF Probes
  <1>4. CASE name = "navigation"
    <2> DEFINE links == {a \in app.acts : a.kind = "click" /\ a.role = "link" /\ a.risk = "safe"}
    <2>1. AsProbes("link", links) \in Seq(Probing)
      BY AsProbesIs
    <2>2. First(AsProbes("link", links)) \in Seq(Probing)
      BY <2>1, FirstIs
    <2> QED BY <1>4, <2>2 DEF Probes
  <1>5. CASE name = "reload-persistence"
    <2> DEFINE stay == {a \in Simple : a.role # "link"}
    <2>1. AsProbes("reload", stay) \in Seq(Probing)
      BY <1>2, AsProbesIs
    <2>2. AsProbes("reload", Forms) \in Seq(Probing)
      BY <1>1, AsProbesIs
    <2>3. First(AsProbes("reload", stay) \o AsProbes("reload", Forms)) \in Seq(Probing)
      BY <2>1, <2>2, ConcatProperties, FirstIs
    <2> QED BY <1>5, <2>3 DEF Probes
  <1>6. CASE name = "stateful-server"
    <2> DEFINE bounded == {a \in Simple : a.risk = "bounded"}
               reads == AsProbes("read", {a \in Simple : a.family = "read"})
               invalid == AsProbes("invalid", Invalid)
               changes == AsProbes("mutation", Changing(Forms)) \o AsProbes("mutation", Changing(bounded))
    <2>1. reads \in Seq(Probing)
      BY <1>2, AsProbesIs
    <2>2. invalid \in Seq(Probing)
      <3>1. Invalid \in SUBSET app.acts /\ \A a \in Invalid : a.kind # "press"
        BY DEF Invalid
      <3> QED BY <3>1, AsProbesIs
    <2>3. AsProbes("mutation", Changing(Forms)) \in Seq(Probing)
      <3>1. Changing(Forms) \in SUBSET Forms
        BY DEF Changing
      <3> QED BY <1>1, <3>1, FormMutates, AsProbesIs
    <2>4. AsProbes("mutation", Changing(bounded)) \in Seq(Probing)
      <3>1. Changing(bounded) \in SUBSET Simple
        BY DEF Changing
      <3> QED BY <1>2, <3>1, SimpleMutates, AsProbesIs
    <2>5. First(changes) \in Seq(Probing)
      BY <2>3, <2>4, ConcatProperties, FirstIs
    <2>6. Probes(name) = SubSeq(reads, 1, IF reads = <<>> THEN 0 ELSE 1)
                         \o SubSeq(invalid, 1, IF invalid = <<>> THEN 0 ELSE 1) \o First(changes)
      BY <1>6 DEF Probes
    <2> HIDE DEF reads, invalid, changes
    <2>7. /\ SubSeq(reads, 1, IF reads = <<>> THEN 0 ELSE 1) \in Seq(Probing)
          /\ SubSeq(invalid, 1, IF invalid = <<>> THEN 0 ELSE 1) \in Seq(Probing)
      BY <2>1, <2>2, AtMostOne
    <2> QED BY <2>5, <2>6, <2>7, ConcatProperties
  <1> QED BY <1>3, <1>4, <1>5, <1>6

\* A reset, a load, a restart and a way back leave a world.
LEMMA WorldsAre ==
    ASSUME app \in Apps, NEW w \in Worlds
    PROVE  /\ Loaded(w) \in Worlds /\ Restarted(w) \in Worlds /\ Back(w) \subseteq Worlds
           /\ Loaded(w).server = w.server /\ Loaded(w).storage = w.storage
           /\ Loaded(w).page = 0 /\ Loaded(w).away = w.away
           /\ Restarted(w).server = (IF app.forgets THEN 0 ELSE w.server)
           /\ Restarted(w).storage = w.storage /\ Restarted(w).page = 0 /\ Restarted(w).away = w.away
           /\ Fresh(w) \in Worlds /\ Fresh(w).page = 0 /\ Fresh(w).storage = 0
           /\ app.hook => Fresh(w).server = 0
  <1>1. app.noisy \in BOOLEAN
    BY AppIs
  <1>2. \A v \in Worlds : /\ Loaded(v) \in Worlds /\ Loaded(v).server = v.server /\ Loaded(v).page = 0
                          /\ Loaded(v).storage = v.storage /\ Loaded(v).away = v.away
    BY <1>1 DEF Loaded, Worlds
  <1>3. [w EXCEPT !.server = IF app.forgets THEN 0 ELSE @] \in Worlds
    BY DEF Worlds
  <1>4. /\ Restarted(w) \in Worlds /\ Restarted(w).server = (IF app.forgets THEN 0 ELSE w.server)
        /\ Restarted(w).storage = w.storage /\ Restarted(w).page = 0 /\ Restarted(w).away = w.away
    BY <1>2, <1>3 DEF Restarted, Worlds
  <1> DEFINE new == [server |-> IF app.hook THEN 0 ELSE w.server, storage |-> 0, page |-> 0,
                     away |-> FALSE, thrown |-> FALSE]
  <1>5. new \in Worlds /\ new.storage = 0 /\ (app.hook => new.server = 0)
    BY DEF Worlds
  <1> HIDE DEF new
  <1>6. /\ Fresh(w) \in Worlds /\ Fresh(w).page = 0 /\ Fresh(w).storage = 0
        /\ app.hook => Fresh(w).server = 0
    BY <1>2, <1>5 DEF Fresh, new
  <1>7. Back(w) \subseteq Worlds
    <2>1. \A v \in Worlds : [v EXCEPT !.away = FALSE] \in Worlds
      BY DEF Worlds
    <2> QED BY <1>2, <2>1 DEF Back
  <1> QED BY <1>2, <1>4, <1>6, <1>7

\* A place changes when, and only when, an action that changes it was done.
LEMMA DidIs ==
    ASSUME NEW w \in Worlds, NEW a \in Deeds
    PROVE  /\ Did(w, a) \in Worlds
           /\ Did(w, a).server >= w.server /\ (Did(w, a).server # w.server <=> "server" \in a.changes)
           /\ Did(w, a).storage >= w.storage /\ (Did(w, a).storage # w.storage <=> "storage" \in a.changes)
           /\ Did(w, a).page >= w.page /\ (Did(w, a).page # w.page <=> "page" \in a.changes)
  <1>1. w.server \in Nat /\ w.storage \in Nat /\ w.page \in Nat /\ w.away \in BOOLEAN /\ w.thrown \in BOOLEAN
    BY DEF Worlds
  <1>2. a.leaves \in BOOLEAN /\ a.throws \in BOOLEAN
    BY DEF Deeds
  <1>3. (w.away \/ a.leaves) \in BOOLEAN /\ (w.thrown \/ a.throws) \in BOOLEAN
    OBVIOUS
  <1>4. Did(w, a) \in Worlds
    BY <1>1, <1>3 DEF Did, Worlds
  <1>5. /\ Did(w, a).server = w.server + (IF "server" \in a.changes THEN 1 ELSE 0)
        /\ Did(w, a).storage = w.storage + (IF "storage" \in a.changes THEN 1 ELSE 0)
        /\ Did(w, a).page = w.page + (IF "page" \in a.changes THEN 1 ELSE 0)
    BY DEF Did
  <1> QED BY <1>1, <1>4, <1>5

LEMMA DidAllIs ==
    ASSUME app \in Apps, NEW w \in Worlds, NEW s \in Short
    PROVE  /\ DidAll(w, s) \in Worlds
           /\ DidAll(w, s).server >= w.server /\ (DidAll(w, s).server # w.server <=> "server" \in Changes(s))
           /\ DidAll(w, s).storage >= w.storage /\ (DidAll(w, s).storage # w.storage <=> "storage" \in Changes(s))
           /\ DidAll(w, s).page >= w.page /\ (DidAll(w, s).page # w.page <=> "page" \in Changes(s))
           /\ {s[i] : i \in 1 .. Len(s)} \subseteq app.acts
  <1>0. app.acts \subseteq Deeds /\ \A v \in Worlds : v.server \in Nat /\ v.storage \in Nat /\ v.page \in Nat
    BY AppIs DEF Worlds
  <1>1. CASE \E a \in app.acts : s = <<a>>
    <2>1. PICK a \in app.acts : s = <<a>>
      BY <1>1
    <2>2. Len(s) = 1 /\ s[1] = a
      BY <2>1
    <2>3. DidAll(w, s) = Did(w, a)
      BY <2>2 DEF DidAll
    <2>4. Changes(s) = a.changes /\ {s[i] : i \in 1 .. Len(s)} = {a}
      BY <2>2 DEF Changes
    <2> QED BY <1>0, <2>3, <2>4, DidIs
  <1>2. CASE \E a, b \in app.acts : s = <<a, b>>
    <2>1. PICK a \in app.acts, b \in app.acts : s = <<a, b>>
      BY <1>2
    <2>2. Len(s) = 2 /\ s[1] = a /\ s[2] = b
      BY <2>1
    <2>3. DidAll(w, s) = Did(Did(w, a), b)
      BY <2>2 DEF DidAll
    <2>4. {s[i] : i \in 1 .. Len(s)} = {a, b}
      <3>1. 1 .. Len(s) = {1, 2}
        BY <2>2
      <3> QED BY <2>2, <3>1
    <2>5. Changes(s) = a.changes \cup b.changes
      <3>1. 1 .. Len(s) = {1, 2}
        BY <2>2
      <3> QED BY <2>2, <3>1 DEF Changes
    <2> DEFINE v == Did(w, a)
               u == Did(v, b)
    <2>6. /\ v \in Worlds
          /\ v.server >= w.server /\ (v.server # w.server <=> "server" \in a.changes)
          /\ v.storage >= w.storage /\ (v.storage # w.storage <=> "storage" \in a.changes)
          /\ v.page >= w.page /\ (v.page # w.page <=> "page" \in a.changes)
      BY <1>0, DidIs
    <2>7. DidAll(w, s) = u
      BY <2>3
    <2> HIDE DEF v
    <2>8. /\ u \in Worlds
          /\ u.server >= v.server /\ (u.server # v.server <=> "server" \in b.changes)
          /\ u.storage >= v.storage /\ (u.storage # v.storage <=> "storage" \in b.changes)
          /\ u.page >= v.page /\ (u.page # v.page <=> "page" \in b.changes)
      BY <1>0, <2>6, DidIs
    <2> HIDE DEF u
    <2>9. /\ u.server >= w.server /\ (u.server # w.server <=> "server" \in Changes(s))
          /\ u.storage >= w.storage /\ (u.storage # w.storage <=> "storage" \in Changes(s))
          /\ u.page >= w.page /\ (u.page # w.page <=> "page" \in Changes(s))
      BY <1>0, <2>5, <2>6, <2>8
    <2> QED BY <2>4, <2>7, <2>8, <2>9
  <1> QED BY <1>1, <1>2 DEF Short

\* Of the actions of a probe the first one is a probe's as well, and no probe is empty.
LEMMA StartOf ==
    ASSUME NEW s \in Short
    PROVE  <<s[1]>> \in Short /\ s # <<>> /\ <<s[1]>> # <<>>
  <1>1. s[1] \in app.acts
    BY DEF Short
  <1>2. <<s[1]>> # <<>>
    OBVIOUS
  <1>3. s # <<>>
    BY DEF Short
  <1> QED BY <1>1, <1>2, <1>3 DEF Short

LEMMA PacksInitially == PacksInit => PacksInv
  <1> SUFFICES ASSUME PacksInit PROVE PacksInv
    OBVIOUS
  <1>1. Packs \in Seq({"browser-safety", "navigation", "reload-persistence", "stateful-server"})
    BY AppIs DEF PacksInit
  <1>2. Len(Packs) \in Nat
    BY <1>1, LenProperties
  <1>3. pack \in 0 .. Len(Packs) + 2
    BY <1>2 DEF PacksInit
  <1>4. left \in Seq(Probing)
    BY EmptySeq DEF PacksInit
  <1>5. world \in Worlds
    BY DEF PacksInit, Worlds
  <1> QED BY <1>3, <1>4, <1>5 DEF PacksInit, PacksInv, SeenIsTrue, LossesAreReal, FindsTheLoss

-----------------------------------------------------------------------------
LossCodes == {"stateful_reload_state_loss", "stateful_server_restart_state_loss"}

LEMMA SameApp == ASSUME app' = app PROVE Probing' = Probing /\ Packs' = Packs
  BY DEF Probing, Short, Mutates, Packs

\* A step that reports no loss and compares nothing.
LEMMA NoLossTold ==
    ASSUME PacksInv, app' = app, found \subseteq found', \A f \in found' \ found : f.code \notin LossCodes,
           probed' = <<>> \/ probed' = probed
    PROVE  LossesAreReal' /\ FindsTheLoss'
  <1>1. LossesAreReal'
    BY DEF PacksInv, LossesAreReal, LossCodes
  <1>2. FindsTheLoss'
    BY DEF PacksInv, FindsTheLoss
  <1> QED BY <1>1, <1>2

LEMMA NothingSeen ==
    ASSUME PacksInv, app' = app, executed \subseteq executed', seen' \subseteq seen \cup {"read", "invalid", "session"}
    PROVE  SeenIsTrue'
  BY DEF PacksInv, SeenIsTrue

\* The probe that is made, and those that are left.
LEMMA TakesProbe ==
    ASSUME PacksInv, left # <<>>, Next1
    PROVE  /\ Head(left) \in Probing /\ Head(left).does \in Short
           /\ app' = app /\ left' \in Seq(Probing') /\ pack' \in 0 .. Len(Packs') + 2
  <1>1. left \in Seq(Probing) /\ pack \in 0 .. Len(Packs) + 2
    BY DEF PacksInv
  <1>2. Head(left) \in Probing /\ Tail(left) \in Seq(Probing)
    BY <1>1, HeadTailProperties
  <1>3. app' = app /\ left' = Tail(left) /\ pack' = pack
    BY DEF Next1
  <1>4. Probing' = Probing /\ Packs' = Packs
    BY <1>3, SameApp
  <1> QED BY <1>1, <1>2, <1>3, <1>4 DEF Probing

\* A probe of any kind but mutations leaves what was observed before it alone.
LEMMA ProbeKeeps ==
    ASSUME PacksInv, left # <<>>, Next1, Executes(Head(left).does), probed' = <<>>, world' \in Worlds,
           seen' \subseteq seen \cup {"read", "invalid", "session"},
           found' = found \/ \E code : Tell(code, Head(left).does) /\ code \notin LossCodes
    PROVE  PacksInv'
  <1>1. /\ Head(left).does \in Short
        /\ app' = app /\ left' \in Seq(Probing') /\ pack' \in 0 .. Len(Packs') + 2
    BY TakesProbe
  <1>2. found \subseteq found' /\ \A f \in found' \ found : f.code \notin LossCodes
    BY DEF Tell
  <1>3. executed \subseteq executed' /\ executed' \subseteq app'.acts
    BY <1>1, DidAllIs DEF Executes, PacksInv
  <1>4. SeenIsTrue'
    BY <1>1, <1>3, NothingSeen
  <1>5. LossesAreReal' /\ FindsTheLoss'
    BY <1>1, <1>2, NoLossTold
  <1>6. seen' \subseteq Aspects
    BY DEF PacksInv, Aspects
  <1> QED BY <1>1, <1>3, <1>4, <1>5, <1>6 DEF PacksInv, Worlds

\* What a reload leaves behind can be a loss only of what the page alone held or showed.
LEMMA ReloadLoss ==
    ASSUME app \in Apps, NEW w \in Worlds, NEW s \in Short, NEW before, before = Fresh(w),
           NEW after, after = DidAll(before, s),
           Compared(Loaded(after)) # Compared(after), Compared(Loaded(after)) = Compared(before)
    PROVE  "page" \in Changes(s) /\ "storage" \notin Changes(s) /\ ~app.projected
             /\ ("server" \in Changes(s) => ~app.shown)
  <1>1. before \in Worlds /\ before.page = 0 /\ before.storage = 0
    BY WorldsAre
  <1>2. /\ after \in Worlds /\ (after.server # before.server <=> "server" \in Changes(s))
        /\ (after.storage # before.storage <=> "storage" \in Changes(s))
        /\ (after.page # before.page <=> "page" \in Changes(s))
    BY <1>1, DidAllIs
  <1>3. /\ Loaded(after).server = after.server /\ Loaded(after).storage = after.storage
        /\ Loaded(after).page = 0 /\ Loaded(after).away = after.away
    BY <1>2, WorldsAre
  <1>4. ~app.projected
    BY <1>3 DEF Compared
  <1>5. after.page # 0
    BY <1>3, <1>4 DEF Compared, Shows
  <1>6. after.storage = before.storage /\ (app.shown => after.server = before.server)
    BY <1>3, <1>4 DEF Compared, Shows
  <1> QED BY <1>1, <1>2, <1>4, <1>5, <1>6

\* What a restart leaves behind can be a loss only where the server forgets.
LEMMA RestartLoss ==
    ASSUME app \in Apps, NEW w \in Worlds, NEW s \in Short, NEW before, before = Fresh(w),
           NEW after, after = DidAll(before, s), NEW again, again = Loaded(after),
           ~Kept(after, again, Restarted(again)), Compared(Restarted(again)) = Compared(before)
    PROVE  app.forgets /\ "server" \in Changes(s)
  <1>1. before \in Worlds /\ before.page = 0 /\ before.storage = 0
    BY WorldsAre
  <1>2. after \in Worlds /\ (after.server # before.server <=> "server" \in Changes(s))
    BY <1>1, DidAllIs
  <1>3. /\ again \in Worlds /\ again.server = after.server /\ again.storage = after.storage
        /\ again.page = 0 /\ again.away = after.away
    BY <1>2, WorldsAre
  <1> DEFINE restarted == Restarted(again)
  <1>4. /\ restarted.server = (IF app.forgets THEN 0 ELSE again.server)
        /\ restarted.storage = again.storage /\ restarted.page = 0 /\ restarted.away = again.away
    BY <1>3, WorldsAre
  <1> HIDE DEF restarted
  <1>5. Compared(restarted) # Compared(again) /\ Compared(restarted) = Compared(before)
    BY DEF Kept, restarted
  <1>6. restarted.server # again.server /\ (app.shown \/ app.projected)
    BY <1>3, <1>4, <1>5 DEF Compared, Shows
  <1>7. restarted.server = before.server
    BY <1>5, <1>6 DEF Compared, Shows
  <1> QED BY <1>2, <1>3, <1>4, <1>6, <1>7

\* A server that is read and forgets is caught by a mutation of it.
LEMMA ForgetsIsSeen ==
    ASSUME app \in Apps, app.projected, app.forgets, NEW w \in Worlds, NEW s \in Short, NEW before, before = Fresh(w),
           NEW after, after = DidAll(before, s), NEW again, again = Loaded(after),
           Compared(after) # Compared(before)
    PROVE  /\ Compared(again) = Compared(after) /\ ~Kept(after, again, Restarted(again))
           /\ app.hook => Compared(Restarted(again)) = Compared(before)
  <1>1. before \in Worlds /\ before.server \in Nat /\ (app.hook => before.server = 0)
    BY WorldsAre DEF Worlds
  <1>2. after \in Worlds /\ after.server \in Nat /\ after.server >= before.server
    BY <1>1, DidAllIs DEF Worlds
  <1>3. after.server # before.server
    BY DEF Compared
  <1>4. again \in Worlds /\ again.server = after.server
    BY <1>2, WorldsAre
  <1>5. Restarted(again).server = 0
    BY <1>4, WorldsAre
  <1>6. after.server # 0
    BY <1>1, <1>2, <1>3
  <1> QED BY <1>1, <1>4, <1>5, <1>6 DEF Compared, Kept

\* A mutation: what it tells and what it takes for observed is so.
LEMMA MutationKeeps == ASSUME PacksInv, MutationProbe PROVE PacksInv'
  <1> DEFINE s == Head(left).does
             before == Fresh(world)
             after == DidAll(before, s)
             again == Loaded(after)
             restarted == Restarted(again)
             lost == Compared(again) # Compared(after) /\ Compared(again) = Compared(before)
             projection == IF app.projected THEN {"projection"} ELSE {}
             observed == {"mutation"} \cup Of({"create", "update", "delete"}, s)
                         \cup (IF Compared(again) = Compared(after) THEN {"reload"} ELSE {})
  <1>1. left # <<>> /\ Head(left).as = "mutation" /\ Next1 /\ Executes(s)
    BY DEF MutationProbe, ProbeOf
  <1>2. /\ Head(left) \in Probing /\ s \in Short
        /\ app' = app /\ left' \in Seq(Probing') /\ pack' \in 0 .. Len(Packs') + 2
    BY <1>1, TakesProbe
  <1>3. Mutates(s)
    BY <1>1, <1>2 DEF Probing
  <1>4. probed' = [before |-> before, after |-> after]
    BY DEF MutationProbe
  <1>5. \/ /\ Compared(after) = Compared(before) /\ world' = after /\ seen' = seen \cup projection
           /\ Tell("stateful_mutation_no_observable_change", s)
        \/ /\ Compared(after) # Compared(before) /\ lost
           /\ world' = again /\ seen' = seen \cup projection \cup observed
           /\ Tell("stateful_reload_state_loss", s)
        \/ /\ Compared(after) # Compared(before) /\ ~lost /\ ~app.restarts
           /\ world' = again /\ seen' = seen \cup projection \cup observed
           /\ Tell("stateful_server_restart_unavailable", s)
        \/ /\ Compared(after) # Compared(before) /\ ~lost /\ app.restarts /\ Kept(after, again, restarted)
           /\ world' = restarted /\ seen' = seen \cup projection \cup observed \cup {"restart"}
           /\ UNCHANGED found
        \/ /\ Compared(after) # Compared(before) /\ ~lost /\ app.restarts /\ ~Kept(after, again, restarted)
           /\ world' = restarted /\ seen' = seen \cup projection \cup observed
           /\ \/ /\ Compared(restarted) = Compared(before)
                 /\ Tell("stateful_server_restart_state_loss", s)
              \/ /\ Compared(restarted) # Compared(before)
                 /\ Tell("stateful_server_restart_state_drift", s)
    BY DEF MutationProbe
  <1> HIDE DEF lost
  <1>6. app \in Apps /\ world \in Worlds
    BY DEF PacksInv
  <1>7. before \in Worlds /\ after \in Worlds /\ again \in Worlds /\ restarted \in Worlds
    <2>1. before \in Worlds
      BY <1>6, WorldsAre
    <2> HIDE DEF before
    <2>2. after \in Worlds
      BY <1>2, <1>6, <2>1, DidAllIs
    <2> HIDE DEF after
    <2>3. again \in Worlds
      BY <1>6, <2>2, WorldsAre
    <2> HIDE DEF again
    <2>4. restarted \in Worlds
      BY <1>6, <2>3, WorldsAre
    <2> QED BY <2>1, <2>2, <2>3, <2>4
  <1>8. {s[i] : i \in 1 .. Len(s)} \subseteq app.acts
    BY <1>2, <1>6, <1>7, DidAllIs
  <1>9. executed' = executed \cup {s[i] : i \in 1 .. Len(s)} /\ executed' \subseteq app'.acts
    BY <1>1, <1>2, <1>8 DEF Executes, PacksInv
  <1>10. Compared(after) # Compared(before) =>
           /\ lost => "page" \in Changes(s) /\ "storage" \notin Changes(s) /\ ~app.projected
                        /\ ("server" \in Changes(s) => ~app.shown)
           /\ ~Kept(after, again, restarted) /\ Compared(restarted) = Compared(before) =>
                 app.forgets /\ "server" \in Changes(s)
           /\ app.projected /\ app.forgets => ~lost /\ ~Kept(after, again, restarted)
           /\ app.projected /\ app.forgets /\ app.hook => Compared(restarted) = Compared(before)
    BY <1>2, <1>6, ReloadLoss, RestartLoss, ForgetsIsSeen DEF lost
  <1> HIDE DEF before, after, again, restarted
  <1>11. found \subseteq found' /\ \A f \in found' \ found : f.trace = s
           /\ (f.code = "stateful_reload_state_loss" => Compared(after) # Compared(before) /\ lost)
           /\ (f.code = "stateful_server_restart_state_loss" =>
                 /\ Compared(after) # Compared(before)
                 /\ ~Kept(after, again, restarted) /\ Compared(restarted) = Compared(before))
    BY <1>5 DEF Tell
  <1>12. LossesAreReal'
    <2>1. ASSUME NEW f \in found' \ found
          PROVE  /\ f.code = "stateful_reload_state_loss" =>
                      /\ "page" \in Changes(f.trace) /\ "storage" \notin Changes(f.trace)
                      /\ ("server" \in Changes(f.trace) => ~app.shown /\ ~app.projected)
                 /\ f.code = "stateful_server_restart_state_loss" => app.forgets /\ "server" \in Changes(f.trace)
      BY <1>10, <1>11
    <2> QED BY <1>2, <2>1 DEF PacksInv, LossesAreReal, Changes
  <1>13. FindsTheLoss'
    <2> SUFFICES ASSUME app.hook, app.projected, app.restarts, app.forgets, after.server # before.server
                 PROVE  \E f \in found' : f.code = "stateful_server_restart_state_loss"
      BY <1>2, <1>4 DEF FindsTheLoss
    <2>1. Compared(after) # Compared(before)
      BY DEF Compared
    <2>2. Tell("stateful_server_restart_state_loss", s)
      BY <1>5, <1>10, <2>1
    <2> HIDE DEF s
    <2>3. [code |-> "stateful_server_restart_state_loss", trace |-> s] \in found'
      BY <2>2 DEF Tell
    <2> QED BY <2>3
  <1>14. SeenIsTrue'
    <2>1. seen' \subseteq seen \cup projection \cup observed \cup {"restart"}
      BY <1>5
    <2>2. "projection" \in seen' => app.projected
      BY <2>1 DEF PacksInv, SeenIsTrue, Of
    <2>3. "restart" \in seen' \ seen => app.restarts /\ (app.projected => ~app.forgets)
      <3>1. "restart" \notin projection \cup observed
        BY DEF Of
      <3> QED BY <1>5, <1>10, <3>1
    <2>4. ASSUME NEW family \in {"create", "update", "delete"}, family \in seen' \ seen
          PROVE  \E a \in executed' : a.family = family /\ a.risk # "destructive"
      <3>1. family \in Of({"create", "update", "delete"}, s)
        BY <2>1, <2>4
      <3>2. PICK i \in 1 .. Len(s) : s[i].family = family
        BY <3>1 DEF Of
      <3>3. PICK j \in 1 .. Len(s) : s[j].family = family /\ s[j].risk # "destructive"
        BY <1>3, <3>2 DEF Mutates
      <3> QED BY <1>9, <3>3
    <2> QED BY <1>2, <1>9, <2>2, <2>3, <2>4 DEF PacksInv, SeenIsTrue
  <1>15. seen' \subseteq Aspects
    <2>1. projection \cup observed \cup {"restart"} \subseteq Aspects
      BY DEF Aspects, Of
    <2> QED BY <1>5, <2>1 DEF PacksInv
  <1>16. world' \in Worlds
    BY <1>5, <1>7
  <1> QED BY <1>2, <1>6, <1>9, <1>12, <1>13, <1>14, <1>15, <1>16 DEF PacksInv, Worlds

LEMMA NextPackKeeps == ASSUME PacksInv, NextPack PROVE PacksInv'
  <1>1. app' = app /\ UNCHANGED <<found, executed, probed>>
    BY DEF NextPack
  <1>2. Probing' = Probing /\ Packs' = Packs /\ app \in Apps /\ world \in Worlds
    BY <1>1, SameApp DEF PacksInv
  <1>3. Packs \in Seq({"browser-safety", "navigation", "reload-persistence", "stateful-server"}) /\ Len(Packs) \in Nat
    BY <1>2, AppIs, LenProperties
  <1>4. LossesAreReal' /\ FindsTheLoss'
    BY <1>1, NoLossTold
  <1>5. CASE pack = Len(Packs)
    <2>1. pack' = Len(Packs) + 1 /\ UNCHANGED <<world, left, seen>>
      BY <1>3, <1>5 DEF NextPack
    <2>2. SeenIsTrue'
      BY <1>1, <2>1, NothingSeen
    <2>3. pack' \in 0 .. Len(Packs) + 2
      BY <1>3, <2>1
    <2> QED BY <1>1, <1>2, <1>4, <2>1, <2>2, <2>3 DEF PacksInv, Worlds
  <1>6. CASE pack < Len(Packs)
    <2>1. /\ pack' = pack + 1 /\ world' = Fresh(world) /\ left' = Probes(Packs[pack + 1])
          /\ seen' \subseteq {"session"} /\ pack \in 0 .. Len(Packs)
      BY <1>3, <1>6 DEF NextPack
    <2>2. pack + 1 \in 1 .. Len(Packs)
      BY <1>3, <1>6, <2>1
    <2>3. Packs[pack + 1] \in {"browser-safety", "navigation", "reload-persistence", "stateful-server"}
      BY <1>3, <2>2, ElementOfSeq
    <2>4. left' \in Seq(Probing')
      BY <1>2, <2>1, <2>3, ProbesAre
    <2>5. world' \in Worlds
      BY <1>2, <2>1, WorldsAre
    <2>6. SeenIsTrue'
      BY <1>1, <2>1, NothingSeen
    <2>7. pack' \in 0 .. Len(Packs) + 2
      BY <1>3, <2>1, <2>2
    <2>8. seen' \subseteq Aspects
      BY <2>1 DEF Aspects
    <2> QED BY <1>1, <1>2, <1>4, <2>4, <2>5, <2>6, <2>7, <2>8 DEF PacksInv, Worlds
  <1> QED BY <1>5, <1>6 DEF NextPack

LEMMA PacksStep == PacksInv /\ [PacksNext]_packsVars => PacksInv'
  <1> SUFFICES ASSUME PacksInv, [PacksNext]_packsVars PROVE PacksInv'
    OBVIOUS
  <1>1. app \in Apps /\ world \in Worlds
    BY DEF PacksInv
  <1>2. Fresh(world) \in Worlds
    BY <1>1, WorldsAre
  <1>3. CASE NextPack
    BY <1>3, NextPackKeeps
  <1>4. CASE ResetFails
    <2>1. /\ app' = app /\ pack' = Len(Packs) + 2 /\ left' = <<>>
          /\ UNCHANGED <<world, seen, found, executed, probed>>
      BY <1>4 DEF ResetFails
    <2>2. Probing' = Probing /\ Packs' = Packs
      BY <2>1, SameApp
    <2>3. Len(Packs) \in Nat
      BY <1>1, AppIs, LenProperties
    <2>4. pack' \in 0 .. Len(Packs') + 2 /\ left' \in Seq(Probing')
      BY <2>1, <2>2, <2>3, EmptySeq
    <2>5. SeenIsTrue' /\ LossesAreReal' /\ FindsTheLoss'
      BY <2>1, NothingSeen, NoLossTold
    <2> QED BY <2>1, <2>4, <2>5 DEF PacksInv, Worlds
  <1>5. CASE ProbeStops
    <2>1. /\ left # <<>> /\ Next1 /\ probed' = <<>>
          /\ UNCHANGED found /\ seen' \subseteq seen \cup {"invalid"}
          /\ \E done \in {<<>>, <<Head(left).does[1]>>, Head(left).does} :
                Executes(done) /\ world' = IF done = <<>> THEN Fresh(world) ELSE DidAll(Fresh(world), done)
      BY <1>5 DEF ProbeStops
    <2>2. Head(left).does \in Short /\ app' = app /\ left' \in Seq(Probing') /\ pack' \in 0 .. Len(Packs') + 2
      BY <2>1, TakesProbe
    <2>3. PICK done \in {<<>>, <<Head(left).does[1]>>, Head(left).does} :
                Executes(done) /\ world' = IF done = <<>> THEN Fresh(world) ELSE DidAll(Fresh(world), done)
      BY <2>1
    <2>4. world' \in Worlds /\ executed \subseteq executed' /\ executed' \subseteq app.acts
      <3>1. executed \subseteq app.acts
        BY DEF PacksInv
      <3>2. CASE done = <<>>
        BY <1>2, <2>3, <3>1, <3>2 DEF Executes
      <3>3. CASE done # <<>>
        <4>1. done \in Short
          BY <2>2, <2>3, <3>3, StartOf
        <4>2. executed' = executed \cup {done[i] : i \in 1 .. Len(done)} /\ world' = DidAll(Fresh(world), done)
          BY <2>3, <3>3 DEF Executes
        <4>3. {done[i] : i \in 1 .. Len(done)} \subseteq app.acts /\ DidAll(Fresh(world), done) \in Worlds
          BY <1>1, <1>2, <4>1, DidAllIs
        <4> QED BY <3>1, <4>2, <4>3
      <3> QED BY <3>2, <3>3
    <2>5. SeenIsTrue' /\ LossesAreReal' /\ FindsTheLoss'
      BY <2>1, <2>2, <2>4, NothingSeen, NoLossTold
    <2>6. seen' \subseteq Aspects
      BY <2>1 DEF PacksInv, Aspects
    <2> QED BY <2>2, <2>4, <2>5, <2>6 DEF PacksInv, Worlds
  <1>6. ASSUME left # <<>>, Head(left).does \in Short
        PROVE  /\ DidAll(Fresh(world), Head(left).does) \in Worlds
               /\ Loaded(DidAll(Fresh(world), Head(left).does)) \in Worlds
               /\ Back(DidAll(Fresh(world), Head(left).does)) \subseteq Worlds
    BY <1>1, <1>2, <1>6, DidAllIs, WorldsAre
  <1>7. left # <<>> /\ Next1 => Head(left).does \in Short
    BY TakesProbe
  <1>8. CASE SafetyProbe
    <2>1. /\ left # <<>> /\ Next1 /\ Executes(Head(left).does) /\ probed' = <<>> /\ UNCHANGED seen
          /\ world' = DidAll(Fresh(world), Head(left).does)
          /\ found' = found \/ Tell("browser_uncaught_exception", Head(left).does)
      BY <1>8 DEF SafetyProbe, ProbeOf
    <2>2. world' \in Worlds
      BY <1>6, <1>7, <2>1
    <2> QED BY <2>1, <2>2, ProbeKeeps DEF LossCodes
  <1>9. CASE LinkProbe
    <2>1. /\ left # <<>> /\ Next1 /\ Executes(Head(left).does) /\ probed' = <<>> /\ UNCHANGED seen
          /\ \/ world' = DidAll(Fresh(world), Head(left).does)
             \/ world' \in Back(DidAll(Fresh(world), Head(left).does))
          /\ found' = found \/ Tell("navigation_back_state_drift", Head(left).does)
      BY <1>9 DEF LinkProbe, ProbeOf
    <2>2. world' \in Worlds
      BY <1>6, <1>7, <2>1
    <2> QED BY <2>1, <2>2, ProbeKeeps DEF LossCodes
  <1>10. CASE ReloadProbe
    <2>1. /\ left # <<>> /\ Next1 /\ Executes(Head(left).does) /\ probed' = <<>> /\ UNCHANGED seen
          /\ \/ world' = DidAll(Fresh(world), Head(left).does)
             \/ world' = Loaded(DidAll(Fresh(world), Head(left).does))
          /\ \/ found' = found \/ Tell("reload_persistence_storage_drift", Head(left).does)
             \/ Tell("reload_state_loss_without_persistence_evidence", Head(left).does)
             \/ Tell("reload_semantic_state_drift", Head(left).does)
      BY <1>10 DEF ReloadProbe, ProbeOf
    <2>2. world' \in Worlds
      BY <1>6, <1>7, <2>1
    <2> QED BY <2>1, <2>2, ProbeKeeps DEF LossCodes
  <1>11. CASE ReadProbe
    <2>1. /\ left # <<>> /\ Next1 /\ Executes(Head(left).does) /\ probed' = <<>> /\ UNCHANGED found
          /\ world' = DidAll(Fresh(world), Head(left).does) /\ seen' \subseteq seen \cup {"read"}
      BY <1>11 DEF ReadProbe, ProbeOf
    <2>2. world' \in Worlds
      BY <1>6, <1>7, <2>1
    <2> QED BY <2>1, <2>2, ProbeKeeps
  <1>12. CASE InvalidProbe
    <2>1. /\ left # <<>> /\ Next1 /\ Executes(Head(left).does) /\ probed' = <<>>
          /\ world' = DidAll(Fresh(world), Head(left).does) /\ seen' = seen \cup {"invalid"}
          /\ \/ found' = found \/ Tell("stateful_invalid_operation_uncaught_exception", Head(left).does)
             \/ Tell("stateful_invalid_operation_domain_unverified", Head(left).does)
      BY <1>12 DEF InvalidProbe, ProbeOf
    <2>2. world' \in Worlds
      BY <1>6, <1>7, <2>1
    <2> QED BY <2>1, <2>2, ProbeKeeps DEF LossCodes
  <1>13. CASE MutationProbe
    BY <1>13, MutationKeeps
  <1>14. CASE UNCHANGED packsVars
    <2>1. app' = app /\ UNCHANGED <<world, pack, left, probed, seen, found, executed>>
      BY <1>14 DEF packsVars
    <2>2. Probing' = Probing /\ Packs' = Packs
      BY <2>1, SameApp
    <2>3. SeenIsTrue' /\ LossesAreReal' /\ FindsTheLoss'
      BY <2>1, NothingSeen, NoLossTold
    <2> QED BY <2>1, <2>2, <2>3 DEF PacksInv, Worlds
  <1> QED BY <1>3, <1>4, <1>5, <1>8, <1>9, <1>10, <1>11, <1>12, <1>13, <1>14 DEF PacksNext

\* Of every application, whatever keeps its state: a loss of state is reported only where
\* one is, and where the server is reset and read none that a restart makes is passed over.
THEOREM LossesAlwaysExact == PacksSpec => []LossesAreExact
  <1>1. PacksInv => LossesAreExact
    BY DEF PacksInv, LossesAreExact, PacksTypeOK, Worlds
  <1> QED BY <1>1, PacksInitially, PacksStep, PTL DEF PacksSpec

\* Of every application: a server that is called covered keeps its state through a restart,
\* and was changed by an action of each family that is not destructive.
THEOREM CoverageAlwaysEarned == PacksSpec => []CoverageIsEarned
  <1>1. PacksInv => CoverageIsEarned
    BY DEF PacksInv, SeenIsTrue, CoverageIsEarned, Covered, Aspects
  <1> QED BY <1>1, PacksInitially, PacksStep, PTL DEF PacksSpec
===============================================================================
