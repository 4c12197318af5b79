-------------------------- MODULE MCScheduleExplorer --------------------------
(***************************************************************************)
(* Small applications for ScheduleExplorer: without faults, with each of   *)
(* them and with all.                                                      *)
(***************************************************************************)
EXTENDS ScheduleExplorer

Faults == {{}, AllFaults} \cup {{f} : f \in AllFaults}

SmallConfigs ==
    [corpus : {<<"a">>, <<"a", "ab">>}, maxGenerations : {1, 2}, retryBudget : {0, 1},
     faults : Faults, maxDepth : {0, 5}, maxTransitions : {5, 2000}]
===============================================================================
