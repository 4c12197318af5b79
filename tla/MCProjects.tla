------------------------------ MODULE MCProjects ------------------------------
(***************************************************************************)
(* Small projects for the campaign, the workspace builds, the corpus, the  *)
(* benchmark and the semantic review.                                      *)
(***************************************************************************)
EXTENDS Campaign, WorkspaceOrder, Corpus, Benchmark, SemanticReview, TLC

\* Campaign.  Three versions of Node: any, newer ones, and disjoint alternatives.
Ranges == {<<>>, << {2, 3} >>, << {1}, {3} >>, << {1}, {2} >>}

MCProjectsAsked ==
    {p \in [review : {"none", "inference_review_required"}, install : BOOLEAN, build : BOOLEAN,
            served : BOOLEAN, declared : BOOLEAN, range : Ranges, hidden : {<<>>, << {3} >>, << {2} >>},
            workspace : {"none", "javascript", "moonbit", "refused"}, moon : BOOLEAN] :
        /\ p.hidden # <<>> => p.install
        /\ p.moon => p.workspace = "moonbit"
        /\ ~(p.served /\ p.build)
        /\ p.review = "none" \/ (p.install /\ p.workspace = "none")}

MCRequests == [prepare : BOOLEAN, offline : BOOLEAN, enforced : BOOLEAN]

\* Workspaces of the project 0 and three packages, with every graph of dependencies
\* between them the project needs one of, and every choice of those that have a build
\* script.
MCPackages == 0 .. 3
MCWorkspaces ==
    [deps : {f \in [MCPackages -> SUBSET MCPackages] : f[0] # {} /\ \A p \in MCPackages : p \notin f[p]},
     builders : {s \in SUBSET MCPackages : 0 \in s /\ s # {0}}]

\* A corpus of two groups, one with a source nested in a nested source.
MCParent == <<0, 1, 2, 0>>

\* A corpus that gains a target, in a checkout of an earlier one.
MCCorpora == <<{1, 2}, {1, 2, 3}, {1}>>
MCCheckout == <<1, 2, 2>>

\* Of the first corpus the gate has nothing to say; the second lacks a topology, and the
\* third a repository, and it has an adapter of its own.
Trait(repository, adapterLoc, topology) ==
    [repository |-> repository, adapterLoc |-> adapterLoc, tags |-> {"web"}, topology |-> topology]
MCTraits == <<<<Trait("x", 0, "spa"), Trait("y", 0, "")>>,
              <<Trait("x", 0, ""), Trait("y", 0, ""), Trait("y", 0, "mpa")>>,
              <<Trait("x", 2, "spa")>>>>

Result(onboarded, interventions, replay, viability) ==
    [onboarded |-> onboarded, interventions |-> interventions, replay |-> replay, viability |-> viability]
MCResults == {Result(TRUE, 0, "same", "qualified"), Result(TRUE, 0, "differs", "qualified"),
              Result(FALSE, 1, "none", "failed")}
MCGate == [minOnboarding |-> 50, maxIntervention |-> 50, minReplay |-> 50, maxRegressions |-> 0,
           maxAdapterLoc |-> 1, minTargets |-> 1, minRepositories |-> 2,
           requiredTags |-> {"web"}, requiredTopologies |-> {"spa"}]

\* Two versions of a project under review.
Volatile(in, like, generated) == [in |-> in, like |-> like, generated |-> generated]
MCProjectVersions ==
    {[volatile |-> {Volatile("storage", "timestamp", TRUE), Volatile("id", "other", TRUE)},
      signals |-> {"saved-state-survives-reload"}, requests |-> {[method |-> "POST", reset |-> TRUE]}],
     [volatile |-> {Volatile("form", "token", FALSE)},
      signals |-> {"undo-redo-inverse", "route-identity"},
      requests |-> {[method |-> "POST", reset |-> FALSE], [method |-> "GET", reset |-> FALSE]}]}

SymmetricReviewers == Permutations(Reviewers)
===============================================================================
