--------------------------- MODULE MCFindingReplay ----------------------------
(***************************************************************************)
(* Small sets of failures for FindingReplay.                               *)
(***************************************************************************)
EXTENDS FindingReplay

Failure(c, g, strong) == [class |-> c, group |-> g, strong |-> strong]

\* Two strong failures seen through two channels make one group, a weak one is a
\* group of its own; every failure has its own class.
Distinct == <<Failure("uncaught", "finding", TRUE), Failure("unhandled", "finding", TRUE),
              Failure("drift", "singleton", FALSE)>>

\* Two traces that differ in a generated id or an input have one class.
OneClass == <<Failure("uncaught", "finding", TRUE), Failure("uncaught", "finding", TRUE)>>
=============================================================================
