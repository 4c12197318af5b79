--------------------------- MODULE ScheduleExplorer ---------------------------
(***************************************************************************)
(* exploreSchedules and shrinkSchedule                                     *)
(* (protocol/network-timer-schedule.mjs): every schedule of a virtual      *)
(* application, breadth first, a trace to each state seen for the first    *)
(* time; the first trace that shows a violation of each code is then       *)
(* shrunk and reported.                                                    *)
(***************************************************************************)
EXTENDS VirtualSchedule

CONSTANT Configs  \* the applications and the bounds of their explorations

ASSUME ScheduleAssumption ==
    \A c \in Configs : /\ c.maxDepth \in Nat /\ c.maxTransitions \in Nat
                       /\ c.maxGenerations \in Nat /\ c.retryBudget \in Nat
                       /\ DOMAIN c.corpus \subseteq Nat

VARIABLES
    config,
    states,        \* the states seen; a fingerprint stands for the whole runtime
    queue,         \* the traces to extend
    firstFailures, \* per code, the first trace that showed it
    transitions, depthBoundReached, transitionLimitReached,
    at,            \* "loop", "expand", "shrink", "reported"
    base, rest,    \* the trace being extended and the actions still to try
    code, current, place,  \* the code, trace and place of shrinkSchedule
    reports        \* per code, the trace reported

exploration == <<states, queue, firstFailures, transitions, depthBoundReached, transitionLimitReached>>
expansion == <<base, rest>>
shrinking == <<code, current, place, reports>>
scheduleVars == <<config, exploration, at, expansion, shrinking>>

Nothing == [k \in {} |-> <<>>]
Known == DOMAIN firstFailures

ScheduleInit ==
    /\ config \in Configs
    /\ states = {Fresh} /\ queue = << <<>> >> /\ firstFailures = Nothing
    /\ transitions = 0 /\ depthBoundReached = FALSE /\ transitionLimitReached = FALSE
    /\ at = "loop" /\ base = <<>> /\ rest = {}
    /\ code = "none" /\ current = <<>> /\ place = 1 /\ reports = Nothing

\* The next trace of the queue; one as long as maxDepth is not extended.
TakeTrace ==
    /\ at = "loop" /\ queue # <<>> /\ transitions < config.maxTransitions
    /\ queue' = Tail(queue) /\ base' = Head(queue)
    /\ IF Len(base') >= config.maxDepth THEN UNCHANGED <<at, rest>>
       ELSE at' = "expand" /\ rest' = Offered(config, Replay(config, base').runtime)
    /\ UNCHANGED <<config, states, firstFailures, transitions, depthBoundReached,
                   transitionLimitReached, shrinking>>

Enqueue(trace) == Append(queue, trace)

\* One action: counted, its violations noted, its state queued if it is new.
TryAction ==
    /\ at = "expand" /\ rest # {} /\ transitions < config.maxTransitions
    /\ LET trace == Append(base, Least(rest))
           replay == Replay(config, trace)
           isNewState == replay.runtime \notin states
       IN /\ states' = states \cup {replay.runtime}
          /\ firstFailures' = [k \in Known \cup replay.codes |->
                                 IF k \in Known THEN firstFailures[k] ELSE trace]
          /\ queue' = IF isNewState /\ Len(trace) < config.maxDepth THEN Enqueue(trace) ELSE queue
          /\ depthBoundReached' = (depthBoundReached \/ (isNewState /\ Len(trace) >= config.maxDepth))
    /\ transitions' = transitions + 1 /\ rest' = rest \ {Least(rest)}
    /\ UNCHANGED <<config, at, base, transitionLimitReached, shrinking>>

\* The end of the actions, or of the transitions allowed.
LeaveExpansion ==
    /\ at = "expand" /\ (rest = {} \/ transitions >= config.maxTransitions)
    /\ at' = "loop" /\ rest' = {}
    /\ transitionLimitReached' = (transitionLimitReached \/ rest # {})
    /\ UNCHANGED <<config, base, states, queue, firstFailures, transitions, depthBoundReached, shrinking>>

LeaveLoop ==
    /\ at = "loop" /\ (queue = <<>> \/ transitions >= config.maxTransitions)
    /\ at' = "shrink"
    /\ transitionLimitReached' = (transitionLimitReached \/ queue # <<>>)
    /\ UNCHANGED <<config, base, rest, states, queue, firstFailures, transitions, depthBoundReached, shrinking>>

-----------------------------------------------------------------------------
\* The failures are shrunk and reported one after the other.
NextFailure ==
    /\ at = "shrink" /\ code = "none"
    /\ IF Known \subseteq DOMAIN reports THEN at' = "reported" /\ UNCHANGED <<code, current, place>>
       ELSE /\ code' \in Known \ DOMAIN reports
            /\ current' = firstFailures[code'] /\ place' = 1 /\ UNCHANGED at
    /\ UNCHANGED <<config, exploration, expansion, reports>>

\* One deletion is tried; one that still shows the code restarts the loop.
TryDeletion ==
    /\ at = "shrink" /\ code # "none" /\ place <= Len(current)
    /\ LET shorter == RemoveAt(current, place)
           replay == Replay(config, shorter)
       IN IF replay.ok /\ code \in replay.codes
          THEN current' = shorter /\ place' = 1
          ELSE place' = place + 1 /\ UNCHANGED current
    /\ UNCHANGED <<config, exploration, at, expansion, code, reports>>

ReportFailure ==
    /\ at = "shrink" /\ code # "none" /\ place > Len(current)
    /\ reports' = [k \in DOMAIN reports \cup {code} |-> IF k = code THEN current ELSE reports[k]]
    /\ code' = "none"
    /\ UNCHANGED <<config, exploration, at, expansion, current, place>>

ScheduleNext ==
    \/ TakeTrace \/ TryAction \/ LeaveExpansion \/ LeaveLoop
    \/ NextFailure \/ TryDeletion \/ ReportFailure

ScheduleSpec == ScheduleInit /\ [][ScheduleNext]_scheduleVars

-----------------------------------------------------------------------------
\* The references: what can be reached in n steps, whatever the order, and what
\* the steps from there show.
Steps(c, rt) == {Execute(c, rt, a) : a \in Offered(c, rt)}
Within(c, n) ==
    LET reach[k \in 0 .. n] == IF k = 0 THEN {Fresh}
                               ELSE reach[k - 1] \cup UNION {Steps(c, rt) : rt \in reach[k - 1]}
    IN reach[n]
ShownBy(c, rt) == UNION {Violations(c, rt, a, Execute(c, rt, a)) : a \in Offered(c, rt)}
Shows(c, rts) == UNION {ShownBy(c, rt) : rt \in rts}

\* An application without faults is never accused, and none of its schedules
\* commits out of order, twice, or after too many retries.
FaultlessIsClean ==
    config.faults = {} =>
        firstFailures = Nothing /\ \A rt \in states : OrderlyCommits(config, rt)

\* Unless the transitions ran out, every state within maxDepth steps is seen, though
\* a state seen before is not extended again; every code some schedule of that
\* length shows is reported; and the depth bound is reported exactly when a state
\* first reached there was not extended.
ExplorationIsComplete ==
    at = "reported" /\ ~transitionLimitReached =>
        /\ states = Within(config, config.maxDepth)
        /\ DOMAIN reports = IF config.maxDepth = 0 THEN {} ELSE Shows(config, Within(config, config.maxDepth - 1))
        /\ depthBoundReached <=>
             config.maxDepth > 0 /\ Within(config, config.maxDepth) # Within(config, config.maxDepth - 1)

\* A reported trace shows its code and no schedule shows it in fewer steps; so
\* there was nothing to shrink in the first trace found.
ReportsAreShortest ==
    \A k \in DOMAIN reports :
        /\ Replay(config, reports[k]).ok /\ k \in Replay(config, reports[k]).codes
        /\ reports[k] = firstFailures[k]
        /\ at = "reported" /\ Len(reports[k]) > 1 => k \notin Shows(config, Within(config, Len(reports[k]) - 2))

\* The exploration reports what there is, all of it within its bounds, at its shortest.
SchedulesExact == FaultlessIsClean /\ ExplorationIsComplete /\ ReportsAreShortest
=============================================================================
