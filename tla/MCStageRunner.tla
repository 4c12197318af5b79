---------------------------- MODULE MCStageRunner ----------------------------
(***************************************************************************)
(* Instances of StageRunner for TLC: the shapes a dependency graph of      *)
(* three stages can have, with the resource declarations of a small        *)
(* project.                                                                *)
(***************************************************************************)
EXTENDS StageRunner

\* The build directory and a directory below it.
MCPaths == {<<"dist">>, <<"dist", "client">>}

\* Undeclared, declared as none, and one directory.
Declarations == {{Wildcard}, {}} \cup {{p} : p \in MCPaths}

\* Three stages: independent, a pair and a single one, a chain, a fork, a join.
MCGraphs == {<<{}, {}, {}>>, <<{}, {1}, {}>>, <<{}, {1}, {2}>>, <<{}, {1}, {1}>>, <<{}, {}, {1, 2}>>}

\* What a stage declares matters only beside a stage it may run with, and of stages that
\* the graph does not tell apart, each choice of declarations is made in one order.
Rank == <<{<<"dist">>}, {<<"dist", "client">>}, {}, {Wildcard}>>
Ordered(m, s, t) ==
    \E i, j \in 1 .. 4 : i <= j /\ m.resources[s] = Rank[i] /\ m.resources[t] = Rank[j]

MCManifests ==
    {m \in [dependsOn : MCGraphs, resources : [Stages -> Declarations]] :
        /\ m.dependsOn = <<{}, {}, {}>> => Ordered(m, 1, 2) /\ Ordered(m, 2, 3)
        /\ m.dependsOn = <<{}, {1}, {}>> => m.resources[1] = m.resources[2]
        /\ m.dependsOn = <<{}, {1}, {2}>> => \A s \in Stages : m.resources[s] = {}
        /\ m.dependsOn = <<{}, {1}, {1}>> => m.resources[1] = {} /\ Ordered(m, 3, 2)
        /\ m.dependsOn = <<{}, {}, {1, 2}>> => Ordered(m, 1, 2) /\ m.resources[3] = {}}

\* Nested directories beside a stage that uses none, and undeclared stages.
NestedDirectories == <<{<<"dist">>}, {<<"dist", "client">>}, {}>>

FewManifests ==
    [dependsOn : MCGraphs, resources : {NestedDirectories, [s \in Stages |-> {Wildcard}]}]
=============================================================================
