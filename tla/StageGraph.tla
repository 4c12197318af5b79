----------------------------- MODULE StageGraph ------------------------------
(***************************************************************************)
(* What a run of a Web project manifest promises, whichever runner         *)
(* executes it: every stage gets one verdict, after all the stages it      *)
(* depends on; it is "blocked" exactly when one of them did not pass, and  *)
(* then names all of those; and a verdict is final.                        *)
(***************************************************************************)
EXTENDS Naturals

CONSTANT N             \* the number of stages; 1..N is their manifest order

Stages == 1..N

\* The statuses stageStatus returns, and the one blockedStage sets.
Executed == {"pass", "quality_gate_failed", "usage_error", "execution_failed", "timeout"}
Statuses == Executed \cup {"blocked"}

VARIABLES dependsOn,   \* per stage, the earlier stages it depends on
          status,      \* per stage, its status, "none" before it has one
          blockedBy    \* per stage, the dependencies reported to block it

graphVars == <<dependsOn, status, blockedBy>>

GraphInit ==
    /\ dependsOn \in {d \in [Stages -> SUBSET Stages] :
                         \A s \in Stages : d[s] \subseteq 1..(s - 1)}
    /\ status = [s \in Stages |-> "none"]
    /\ blockedBy = [s \in Stages |-> {}]

Failing(s) == {d \in dependsOn[s] : status[d] # "pass"}

Report(s) ==
    /\ status[s] = "none"
    /\ \A d \in dependsOn[s] : status[d] # "none"
    /\ \E v \in Statuses :
         /\ v = "blocked" <=> Failing(s) # {}
         /\ status' = [status EXCEPT ![s] = v]
         /\ blockedBy' = [blockedBy EXCEPT ![s] = Failing(s)]
    /\ UNCHANGED dependsOn

GraphNext == \E s \in Stages : Report(s)

GraphSpec == GraphInit /\ [][GraphNext]_graphVars
=============================================================================
