----------------------------- MODULE WorkspaceOrder ---------------------------
(***************************************************************************)
(* The builds a project of a JavaScript workspace needs first              *)
(* (protocol/web-project-workspace-prebuild.mjs): a depth-first walk over  *)
(* the workspace: dependencies orders the packages that have a build       *)
(* script, refuses a cycle of several of them, and the builds are then run *)
(* in that order until one does not succeed.  Packages are numbered in the *)
(* order of their names; the project is one of them.                       *)
(***************************************************************************)
EXTENDS Integers, Sequences, FiniteSets, SequencesExt

CONSTANTS
    Packages, Project,
    Workspaces   \* records: deps \in [Packages -> SUBSET Packages], builders \subseteq Packages

ASSUME WorkspaceAssumption ==
    /\ Packages \subseteq Nat /\ IsFiniteSet(Packages) /\ Project \in Packages
    /\ \A w \in Workspaces : /\ w.deps \in [Packages -> SUBSET Packages]
                             /\ w.builders \subseteq Packages

VARIABLES
    workspace,
    path,      \* the frames of the walk: a package and the dependencies still to visit
    visited,   \* the packages the walk has left
    order,     \* the builds, in the order found
    doing,      \* "walk", "refused", "build", "built" or "failed"
    built      \* how many of the builds have succeeded

workspaceVars == <<workspace, path, visited, order, doing, built>>

Frame(p) == [package |-> p, rest |-> workspace.deps[p]]

\* The project's own frame is not among those being visited.
WorkspaceInit ==
    /\ workspace \in Workspaces
    /\ path = <<[package |-> Project, rest |-> workspace.deps[Project]]>>
    /\ visited = {} /\ order = <<>> /\ doing = "walk" /\ built = 0

-----------------------------------------------------------------------------
Top == path[Len(path)]
Visiting == 2 .. Len(path)   \* the frames above the project's

\* The packages of the cycle that a visit to p would close.
CycleOf(p) ==
    LET start == CHOOSE i \in Visiting : path[i].package = p
    IN {path[i].package : i \in start .. Len(path)}

\* A dependency already visited is passed over, one being visited closes a cycle.
VisitDependency ==
    /\ doing = "walk" /\ path # <<>> /\ Top.rest # {}
    /\ LET p == Min(Top.rest)
           rest == [path EXCEPT ![Len(path)].rest = @ \ {p}]
           cyclic == \E i \in Visiting : path[i].package = p
       IN IF cyclic /\ Cardinality(CycleOf(p) \cap workspace.builders) > 1
          THEN doing' = "refused" /\ UNCHANGED path
          ELSE /\ path' = IF p \in visited \/ cyclic THEN rest ELSE Append(rest, Frame(p))
               /\ UNCHANGED doing
    /\ UNCHANGED <<workspace, visited, order, built>>

\* A slip: a package is added to the order before its dependencies.
LeaveFirst ==
    /\ doing = "walk" /\ path # <<>> /\ Top.rest = {}
    /\ path' = SubSeq(path, 1, Len(path) - 1)
    /\ visited' = visited \cup {Top.package}
    /\ order' = IF Top.package \in workspace.builders \ {Project}
                THEN <<Top.package>> \o order ELSE order
    /\ doing' = IF path' = <<>> THEN "build" ELSE doing
    /\ UNCHANGED <<workspace, built>>

\* A package whose dependencies are done joins the order, the project never does.
Leave ==
    /\ doing = "walk" /\ path # <<>> /\ Top.rest = {}
    /\ path' = SubSeq(path, 1, Len(path) - 1)
    /\ visited' = visited \cup {Top.package}
    /\ order' = IF Top.package \in workspace.builders \ {Project}
                THEN Append(order, Top.package) ELSE order
    /\ doing' = IF path' = <<>> THEN "build" ELSE doing
    /\ UNCHANGED <<workspace, built>>

\* executeWorkspaceCommand: the first build that does not succeed ends the preparation.
Build ==
    /\ doing = "build"
    /\ IF built = Len(order) THEN doing' = "built" /\ UNCHANGED built
       ELSE \/ built' = built + 1 /\ UNCHANGED doing
            \/ doing' = "failed" /\ UNCHANGED built
    /\ UNCHANGED <<workspace, path, visited, order>>

WorkspaceNext == VisitDependency \/ Leave \/ Build

WorkspaceSpec == WorkspaceInit /\ [][WorkspaceNext]_workspaceVars

-----------------------------------------------------------------------------
\* The packages reachable from p by at least one dependency.
Reach(p) ==
    LET near[k \in 0 .. Cardinality(Packages)] ==
          IF k = 0 THEN workspace.deps[p]
          ELSE near[k - 1] \cup UNION {workspace.deps[q] : q \in near[k - 1]}
    IN near[Cardinality(Packages)]

Before(p, q) == \E i, j \in DOMAIN order : i < j /\ order[i] = p /\ order[j] = q
Needed == (Reach(Project) \cap workspace.builders) \ {Project}

\* What is built is what the project needs, each once; a workspace is refused only for
\* packages that need each other; and without a cycle a build finds every build it needs
\* done, also across packages that have no build script.
BuildsAreOrdered ==
    /\ doing \in {"build", "built", "failed"} =>
         ToSet(order) = Needed /\ Len(order) = Cardinality(Needed)
    /\ doing = "refused" =>
         \E p, q \in workspace.builders : p # q /\ p \in Reach(q) /\ q \in Reach(p)
    /\ doing \in {"build", "built", "failed"} /\ (\A p \in Packages : p \notin Reach(p)) =>
         \A q \in Needed : \A p \in (Reach(q) \cap workspace.builders) \ {Project} : Before(p, q)
===============================================================================
