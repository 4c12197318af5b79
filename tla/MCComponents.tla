---------------------------- MODULE MCComponents -----------------------------
(***************************************************************************)
(* Components that share no state, checked in one run: a behaviour   *)
(* is of one of them, the others stay as they began.                       *)
(***************************************************************************)
EXTENDS MCFindingReplay, MCScheduleExplorer, ManagedSetup, MCReplays

VARIABLE about

\* Of every part there is one that is absent, one of another release and a ready one.
SmallInstalled ==
    {[node |-> c[1], js |-> c[2], browsers |-> c[3]] :
        c \in {<<"absent", "absent", "absent">>, <<"ready", "old", "ready">>,
               <<"old", "ready", "old">>}}

SymmetricPids == Permutations(Pids)

\* What a component that is not the subject begins as.
FindingIdle == fickle = {} /\ shows = {Found}
ScheduleIdle == config = CHOOSE c \in SmallConfigs : c.maxDepth = 0
SetupIdle == system /\ archive = "absent" /\ final = CHOOSE f \in SmallInstalled : f["js"] = "absent"
IdlePage == CHOOSE p \in MCPages : TRUE
OpaqueIdle ==
    page = IdlePage /\ peer = IdlePage /\ checkpoint = "clean" /\ environment = "clean"
CrossIdle == lacks = {} /\ site = (CHOOSE s \in MCSites : TRUE) /\ sourceTrace = <<Save>>
ContextIdle == scenario = "detour" /\ bounds = CHOOSE b \in MCBounds : TRUE

ComponentsInit ==
    /\ about \in {"finding", "schedule", "setup", "opaque", "cross", "contexts"}
    /\ FindingInit /\ (IF about = "finding" THEN TRUE ELSE FindingIdle)
    /\ ScheduleInit /\ (IF about = "schedule" THEN TRUE ELSE ScheduleIdle)
    /\ SetupInit /\ (IF about = "setup" THEN TRUE ELSE SetupIdle)
    /\ (IF about = "opaque" THEN TRUE ELSE OpaqueIdle) /\ OpaqueInit
    /\ (IF about = "opaque" THEN TRUE ELSE request.trace = <<"a">> /\ request.budget = 6)
    /\ (IF about = "cross" THEN TRUE ELSE CrossIdle) /\ CrossInit
    /\ (IF about = "contexts" THEN TRUE ELSE ContextIdle) /\ ContextInit

findingVars == vars
replayVars == <<opaqueVars, crossVars, contextVars>>

ComponentsNext ==
    /\ UNCHANGED about
    /\ \/ about = "finding" /\ FindingNext /\ UNCHANGED <<scheduleVars, setupVars, replayVars>>
       \/ about = "schedule" /\ ScheduleNext /\ UNCHANGED <<findingVars, setupVars, replayVars>>
       \/ about = "setup" /\ SetupNext /\ UNCHANGED <<findingVars, scheduleVars, replayVars>>
       \/ /\ about = "opaque" /\ OpaqueNext
          /\ UNCHANGED <<findingVars, scheduleVars, setupVars, crossVars, contextVars>>
       \/ /\ about = "cross" /\ CrossNext
          /\ UNCHANGED <<findingVars, scheduleVars, setupVars, opaqueVars, contextVars>>
       \/ /\ about = "contexts" /\ ContextNext
          /\ UNCHANGED <<findingVars, scheduleVars, setupVars, opaqueVars, crossVars>>

ComponentsSpec ==
    ComponentsInit /\ [][ComponentsNext]_<<findingVars, scheduleVars, setupVars, replayVars, about>>

\* What is done with a failure is what its replays justify: it is promoted, shrunk,
\* exported to be replayed elsewhere, reported of another mode.
ReplaysJustify == PromotionIsJust /\ ShrinksTheStable /\ OpaqueFaithful /\ CrossModeStands

\* What is called one-minimal is: a finding's trace, and an opaque replay.
OneMinimal == FindingIsMinimal /\ OpaqueMinimal

\* An exploration of schedules, or of the interleavings of contexts, reports what there
\* is: all of it within its bounds, at its shortest, and which bound cut it off.
ReportsAreExact == SchedulesExact /\ InterleavingsExact
===============================================================================
