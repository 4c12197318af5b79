-------------------------- MODULE SequentialRunner ---------------------------
(***************************************************************************)
(* runWebProject (protocol/web-project-runner.mjs): the stages of a        *)
(* manifest one after the other, by spawnSync, in one of three sandbox     *)
(* modes.  A strict run works on a private overlay of the workspace, where *)
(* the host can make one, and in a constrained run each command has a      *)
(* private directory; finally clauses give both back.  The call that makes *)
(* a directory may throw after it made it, and a removal may fail.  The    *)
(* build stage of a strict run is retried once with the network open when  *)
(* its output says it needed the network.                                  *)
(***************************************************************************)
EXTENDS Naturals, Sequences

CONSTANTS N,            \* the number of stages; 1..N is their manifest order
          BuildStage    \* the stage whose id is "project-build", 0 for none

ASSUME SequentialAssumption == N \in Nat \ {0} /\ BuildStage \in 0..N

Stages == 1..N
Executed == {"pass", "quality_gate_failed", "usage_error", "execution_failed", "timeout"}

VARIABLES
    dependsOn,    \* of the validated manifest, never written
    options,      \* the sandbox mode, and allowBuildNetworkBootstrap
    overlay,      \* what became of the directory of the workspace overlay
    profile,      \* per stage, what became of the private directory of its command
    invocation,   \* the sandboxed command being run: its network mode, or "none"
    network,      \* per stage, the network modes of its attempts, in order
    cursor,       \* the stage the loop is at, N + 1 after the last
    status,       \* per stage, its status, "none" before it has one
    blockedBy,    \* per stage, the dependencies reported to block it
    pc            \* "start", "stage", "attempt", "retry", "done", "thrown"

sequentialVars == <<dependsOn, options, overlay, profile, invocation, network, cursor, status, blockedBy, pc>>

\* "deny" stands for the network as the mode leaves it without the retry.
Modes == {"strict", "constrained", "caller-enforced"}
Attempts == {<<>>, <<"deny">>, <<"deny", "bootstrap-allow">>}

\* A directory was never made; is the runner's; was made by a call that then threw,
\* so that the runner does not know of it; was removed; or its removal failed.
Directory == {"none", "held", "lost", "removed", "left"}
Staying == {"lost", "left"}

TypeOK ==
    /\ dependsOn \in [Stages -> SUBSET Stages]
    /\ options \in [mode : Modes, bootstrap : BOOLEAN]
    /\ overlay \in Directory
    /\ profile \in [Stages -> Directory]
    /\ invocation \in {"none", "deny", "bootstrap-allow"}
    /\ network \in [Stages -> Attempts]
    /\ cursor \in 1..(N + 1)
    /\ status \in [Stages -> Executed \cup {"blocked", "none"}]
    /\ blockedBy \in [Stages -> SUBSET Stages]
    /\ pc \in {"start", "stage", "attempt", "retry", "done", "thrown"}

Init ==
    /\ dependsOn \in {d \in [Stages -> SUBSET Stages] :
                         \A s \in Stages : d[s] \subseteq 1..(s - 1)}
    /\ options \in [mode : Modes, bootstrap : BOOLEAN]
    /\ overlay = "none"
    /\ profile = [s \in Stages |-> "none"]
    /\ invocation = "none"
    /\ network = [s \in Stages |-> <<>>]
    /\ cursor = 1
    /\ status = [s \in Stages |-> "none"]
    /\ blockedBy = [s \in Stages |-> {}]
    /\ pc = "start"

Sandboxed == options.mode # "caller-enforced"

\* A plausible slip: only the last dependency is asked.
FailingLast(s) == {d \in dependsOn[s] : status[d] # "pass" /\ d = s - 1}
Failing(s) == {d \in dependsOn[s] : status[d] # "pass"}

\* A plausible slip: an exception in the loop passes by the removal of the overlay.
ThrowKeepsOverlay(next) ==
    IF next = "done" /\ overlay = "held" THEN overlay' \in {"removed", "left"} ELSE UNCHANGED overlay

\* The outer finally clause, when the try block is left for pc = next: the overlay is
\* unmounted, whatever that returns, and an error of the removal is not thrown.
LeaveTry(next) ==
    IF next \in {"done", "thrown"} /\ overlay = "held"
    THEN overlay' \in {"removed", "left"} ELSE UNCHANGED overlay

\* The inner finally clause: the command is over and its directory removed or not.
LeaveCommand(s, fate) ==
    /\ invocation' = "none"
    /\ profile' = IF profile[s] = "held" THEN [profile EXCEPT ![s] = fate] ELSE profile

-----------------------------------------------------------------------------

\* The capabilities are checked and the overlay made before the try block.  A host
\* that cannot mount has none; making it may throw with the directory made.
Start ==
    /\ pc = "start"
    /\ \/ pc' = "thrown" /\ Sandboxed /\ UNCHANGED overlay
       \/ pc' = "thrown" /\ options.mode = "strict" /\ overlay' = "lost"
       \/ pc' = "stage" /\ options.mode = "strict" /\ overlay' = "held"
       \/ pc' = "stage" /\ UNCHANGED overlay
    /\ UNCHANGED <<dependsOn, options, profile, invocation, network, cursor, status, blockedBy>>

Finish ==
    /\ pc = "stage" /\ cursor = N + 1
    /\ pc' = "done"
    /\ LeaveTry("done")
    /\ UNCHANGED <<dependsOn, options, profile, invocation, network, cursor, status, blockedBy>>

Blocked(s) ==
    /\ pc = "stage" /\ cursor = s
    /\ Failing(s) # {}
    /\ status' = [status EXCEPT ![s] = "blocked"]
    /\ blockedBy' = [blockedBy EXCEPT ![s] = Failing(s)]
    /\ cursor' = s + 1
    /\ UNCHANGED <<dependsOn, options, overlay, profile, invocation, network, pc>>

\* The working directory is resolved and the sandboxed command prepared; both may
\* throw, a constrained command also with its directory made.
Prepare(s) ==
    /\ pc = "stage" /\ cursor = s
    /\ Failing(s) = {}
    /\ \/ pc' = "thrown" /\ LeaveTry("thrown") /\ UNCHANGED <<invocation, profile>>
       \/ /\ pc' = "thrown" /\ LeaveTry("thrown") /\ UNCHANGED invocation
          /\ options.mode = "constrained" /\ profile' = [profile EXCEPT ![s] = "lost"]
       \/ /\ pc' = "attempt" /\ invocation' = (IF Sandboxed THEN "deny" ELSE "none")
          /\ UNCHANGED overlay
          /\ profile' = IF options.mode = "constrained" THEN [profile EXCEPT ![s] = "held"] ELSE profile
    /\ UNCHANGED <<dependsOn, options, network, cursor, status, blockedBy>>

\* The conditions of the bootstrap retry but the last, that the output names
\* the network.
MayRetry(s, verdict) ==
    options.mode = "strict" /\ s = BuildStage /\ options.bootstrap /\ verdict # "pass"

\* The result of a stage is kept and the loop goes on.
Record(s, verdict) ==
    /\ status' = [status EXCEPT ![s] = verdict]
    /\ cursor' = s + 1
    /\ pc' = "stage"
    /\ UNCHANGED overlay

\* spawnSync, the inner finally clause, which then leaves the directory, or the
\* preparation of a retry throws; or the retry begins; or the result is kept.
Attempt(s) ==
    /\ pc = "attempt" /\ cursor = s
    /\ network' = [network EXCEPT ![s] = <<"deny">>]
    /\ \/ /\ pc' = "thrown" /\ LeaveTry("thrown") /\ UNCHANGED <<cursor, status>>
          /\ LeaveCommand(s, "removed") \/ LeaveCommand(s, "left")
       \/ \E verdict \in Executed : Record(s, verdict) /\ LeaveCommand(s, "removed")
       \/ /\ \E verdict \in Executed : MayRetry(s, verdict)
          /\ pc' = "retry" /\ invocation' = "bootstrap-allow"
          /\ UNCHANGED <<overlay, profile, cursor, status>>
    /\ UNCHANGED <<dependsOn, options, blockedBy>>

\* A strict command has no directory of its own.
Retry(s) ==
    /\ pc = "retry" /\ cursor = s
    /\ network' = [network EXCEPT ![s] = Append(@, "bootstrap-allow")]
    /\ invocation' = "none"
    /\ \/ pc' = "thrown" /\ LeaveTry("thrown") /\ UNCHANGED <<cursor, status>>
       \/ \E verdict \in Executed : Record(s, verdict)
    /\ UNCHANGED <<dependsOn, options, profile, blockedBy>>

Next ==
    \/ Start
    \/ Finish
    \/ \E s \in Stages : Blocked(s) \/ Prepare(s) \/ Attempt(s) \/ Retry(s)

Spec == Init /\ [][Next]_sequentialVars /\ WF_sequentialVars(Next)

-----------------------------------------------------------------------------

\* The sequential runner gives the verdicts the stage graph promises, as the
\* concurrent one does.
Graph == INSTANCE StageGraph
ImplementsStageGraph == Graph!GraphSpec

\* However the run ends, by a report or by an exception at any point, nothing is held:
\* every directory was removed, or its removal was tried and failed, or the call that
\* made it threw, which ends the run.  One directory stays at most; a run that reports
\* leaves no directory of a command, and of its overlay only one it could not remove.
LeftOnlyByFailure ==
    /\ TypeOK
    /\ pc \in {"done", "thrown"} =>
         invocation = "none" /\ overlay # "held" /\ \A s \in Stages : profile[s] # "held"
    /\ overlay = "lost" => pc = "thrown"
    /\ \A s \in Stages : profile[s] \in Staying =>
         pc = "thrown" /\ cursor = s /\ overlay \notin Staying
           /\ \A t \in Stages \ {s} : profile[t] \notin Staying

\* What a command works in is there until the command is over.
InPlace ==
    /\ pc \in {"stage", "attempt", "retry"} => overlay \in {"none", "held"}
    /\ pc = "attempt" /\ options.mode = "constrained" => profile[cursor] = "held"

\* The network is opened only for the build stage, once, in a strict run that
\* allows it, and only after an attempt without it was made.
NetworkOpensOnce ==
    \A s \in Stages :
        (invocation = "bootstrap-allow" /\ cursor = s) \/ network[s] = <<"deny", "bootstrap-allow">> =>
            /\ s = BuildStage /\ options = [mode |-> "strict", bootstrap |-> TRUE]
            /\ network[s] # <<>>

\* What a run opens, for itself or for its commands, stays while it is used, is confined
\* and is closed again, but for what a failing call leaves.
ClosesWhatItOpens == LeftOnlyByFailure /\ InPlace /\ NetworkOpensOnce
=============================================================================
