--------------------------- MODULE VirtualSchedule ----------------------------
(***************************************************************************)
(* VirtualNetworkTimerRuntime (protocol/network-timer-schedule.mjs): an    *)
(* application that searches as its user types.  Requests are answered,    *)
(* aborted or failed in any order, a failed one is retried by a virtual    *)
(* timer, and only an answer of the current generation may be shown.  The  *)
(* runtime is a value: its methods are operators, used by the explorer.    *)
(*                                                                         *)
(* A configuration has the fields                                          *)
(*   corpus          inputCorpus, the queries in the order of their names; *)
(*                   an action names one by its place                      *)
(*   maxGenerations, retryBudget   of the policy; the retry delay is the   *)
(*                   unit of time                                          *)
(*   faults          the faults injected, of AllFaults                     *)
(*   maxDepth, maxTransitions      of the exploration                      *)
(***************************************************************************)
EXTENDS Integers, Sequences, SequencesExt

AllFaults == {"commitStaleResponses", "commitAbortedResponses",
              "duplicateRetryTimers", "duplicateCallbacks"}

Codes == {"stale_response", "aborted_response_commit",
          "retry_budget_exceeded", "callback_count_exceeded"}

\* reset
Fresh == [now |-> 0, generation |-> 0, result |-> <<>>, requests |-> <<>>,
          timers |-> <<>>, retries |-> <<>>, callbacks |-> <<>>, commits |-> <<>>]

\* The kinds of actions in the order of their ids, and the actions of a kind.
Kinds == <<"abort", "advance", "deliver", "fail", "fire", "issue">>
Each(kind, args) == {[kind |-> kind, arg |-> n] : n \in args}

\* actions()
Offered(c, rt) ==
    LET WithStatus(set) == {i \in DOMAIN rt.requests : rt.requests[i].status \in set}
        waiting == {i \in DOMAIN rt.timers : rt.timers[i].status = "pending"}
    IN Each("abort", WithStatus({"pending"})) \cup Each("fail", WithStatus({"pending"}))
       \cup Each("deliver", WithStatus({"pending", "aborted"}))
       \cup Each("advance", {rt.timers[i].due : i \in {j \in waiting : rt.timers[j].due > rt.now}})
       \cup Each("fire", {i \in waiting : rt.timers[i].due <= rt.now})
       \cup Each("issue", IF rt.generation < c.maxGenerations THEN DOMAIN c.corpus ELSE {})

\* The first of them in the order of their ids, whose numbers are of one digit here;
\* whichever it is, no proof depends on it.
Before(a, b) == \/ \E i, j \in DOMAIN Kinds : i < j /\ a.kind = Kinds[i] /\ b.kind = Kinds[j]
                \/ a.kind = b.kind /\ a.arg <= b.arg
Least(actions) == CHOOSE a \in actions : \A b \in actions : Before(a, b)

-----------------------------------------------------------------------------
\* issueRequest: generation 0 asks for the next one.
Issue(rt, query, generation, attempt) ==
    LET g == IF generation = 0 THEN rt.generation + 1 ELSE generation
    IN [rt EXCEPT
          !.generation = IF generation = 0 THEN g ELSE @,
          !.requests = Append(@, [query |-> query, generation |-> g, attempt |-> attempt,
                                  status |-> "pending"]),
          !.retries = IF generation = 0 THEN Append(@, 0) ELSE @,
          !.callbacks = Append(@, 0)]

\* scheduleRetry
ScheduleRetry(c, rt, i) ==
    LET timer == [owner |-> i, due |-> rt.now + 1, status |-> "pending"]
    IN [rt EXCEPT !.timers = @ \o IF "duplicateRetryTimers" \in c.faults
                                  THEN <<timer, timer>> ELSE <<timer>>]

Fail(c, rt, i) ==
    LET failed == [rt EXCEPT !.requests[i].status = "failed"]
    IN IF rt.requests[i].attempt <= c.retryBudget
       THEN ScheduleRetry(c, failed, i) ELSE failed

\* The retry is of the owner's generation.
Fire(rt, i) ==
    LET owner == rt.requests[rt.timers[i].owner]
    IN Issue([rt EXCEPT !.timers[i].status = "fired", !.retries[owner.generation] = @ + 1],
             owner.query, owner.generation, owner.attempt + 1)

ShouldCommit(c, rt, request) ==
    LET stale == request.generation < rt.generation
        aborted == request.status = "aborted"
    IN \/ ~stale /\ ~aborted
       \/ stale /\ "commitStaleResponses" \in c.faults
       \/ aborted /\ "commitAbortedResponses" \in c.faults

\* One invocation of the completion callback.
Callback(c, rt, i) ==
    LET request == rt.requests[i]
        called == [rt EXCEPT !.callbacks[i] = @ + 1]
    IN IF ~ShouldCommit(c, rt, request) THEN called
       ELSE [called EXCEPT
               !.result = <<request.query, request.attempt>>,
               !.commits = Append(@, [request |-> i, generation |-> request.generation,
                                      attempt |-> request.attempt, callback |-> called.callbacks[i]])]

Deliver(c, rt, i) ==
    LET once == Callback(c, rt, i)
        called == IF "duplicateCallbacks" \in c.faults THEN Callback(c, once, i) ELSE once
    IN [called EXCEPT !.requests[i].status = "completed"]

\* execute, of an action that is offered.
Execute(c, rt, a) ==
    CASE a.kind = "issue"   -> Issue(rt, c.corpus[a.arg], 0, 1)
      [] a.kind = "abort"   -> [rt EXCEPT !.requests[a.arg].status = "aborted"]
      [] a.kind = "fail"    -> Fail(c, rt, a.arg)
      [] a.kind = "advance" -> [rt EXCEPT !.now = a.arg]
      [] a.kind = "fire"    -> Fire(rt, a.arg)
      [] a.kind = "deliver" -> Deliver(c, rt, a.arg)

-----------------------------------------------------------------------------
\* evaluateNetworkTimerProperties: the codes of the violations of one step.
Violations(c, before, a, after) ==
    {code \in Codes :
       CASE code = "stale_response" ->
              /\ a.kind = "deliver" /\ before.result # after.result
              /\ before.requests[a.arg].generation < before.generation
         [] code = "aborted_response_commit" ->
              /\ a.kind = "deliver" /\ before.result # after.result
              /\ before.requests[a.arg].status = "aborted"
         [] code = "callback_count_exceeded" -> \E i \in DOMAIN after.callbacks : after.callbacks[i] > 1
         [] code = "retry_budget_exceeded" -> \E g \in DOMAIN after.retries : after.retries[g] > c.retryBudget}

\* replaySchedule, with the violations of the last step.
Start == [ok |-> TRUE, runtime |-> Fresh, codes |-> {}]
ReplayStep(c, r, a) ==
    IF r.ok /\ a \in Offered(c, r.runtime)
    THEN LET after == Execute(c, r.runtime, a)
         IN [ok |-> TRUE, runtime |-> after, codes |-> Violations(c, r.runtime, a, after)]
    ELSE [r EXCEPT !.ok = FALSE, !.codes = {}]
ReplaysOf(c, trace) ==
    LET replays[k \in 0 .. Len(trace)] ==
          IF k = 0 THEN Start ELSE ReplayStep(c, replays[k - 1], trace[k])
    IN replays
Replay(c, trace) == ReplaysOf(c, trace)[Len(trace)]

-----------------------------------------------------------------------------
\* An application without faults shows only answers of the generation its user
\* asked for last: each generation commits once at most, in order, and what is
\* shown is what was committed last, by the one call of the one attempt that was
\* answered; no generation is retried over its budget.
OrderlyCommits(c, rt) ==
    /\ \A j \in DOMAIN rt.commits :
         /\ rt.commits[j].callback = 1
         /\ j > 1 => rt.commits[j - 1].generation < rt.commits[j].generation
    /\ rt.commits # <<>> =>
         rt.result = <<rt.requests[Last(rt.commits).request].query, Last(rt.commits).attempt>>
    /\ \A g \in DOMAIN rt.retries : rt.retries[g] <= c.retryBudget
=============================================================================
