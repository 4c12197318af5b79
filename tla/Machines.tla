------------------------------ MODULE Machines -------------------------------
(***************************************************************************)
(* The executable UI machine of the MoonBit core (src/core.mbt), and the   *)
(* replay of a trace of messages against one property.  The client's       *)
(* functions are tables: a machine m is a record with                      *)
(*   initial              the initial model                                *)
(*   update[<<x, a>>]     the model update returns for model x, message a  *)
(*   actions[x]           the sequence of messages available in model x    *)
(*   shrink[a]            the sequence of smaller messages of a            *)
(*   id[a], label[a]      action_id and describe_msg of a                  *)
(*   fingerprint[x]       the state id of x                                *)
(*   view[x]              what render and dependencies return for x        *)
(*   badStates[p]         the models whose state check fails property p    *)
(*   badSteps[p]          the <<model, message>> steps that fail p         *)
(***************************************************************************)
EXTENDS Integers, Sequences, SequencesExt

\* The client's functions are total: on its models, and on its messages.
IsMachine(m) ==
    LET model == DOMAIN m.fingerprint
        message == DOMAIN m.id
    IN /\ m.initial \in model /\ m.update \in [model \X message -> model]
       /\ m.actions \in [model -> Seq(message)] /\ m.shrink \in [message -> Seq(message)]

\* available_action: the first message the model offers under the same id.
AvailableAction(m, x, a) ==
    LET i == SelectInSeq(m.actions[x], LAMBDA b : m.id[b] = m.id[a])
    IN IF i = 0 THEN <<>> ELSE <<m.actions[x][i]>>

StateFails(m, p, x) == x \in m.badStates[p]
StepFails(m, p, x, a) == <<x, a>> \in m.badSteps[p]

\* A TransitionSnapshot: its ends by state id, the action by id and label.
Transition(m, x, a) ==
    [from |-> m.fingerprint[x], actionId |-> m.id[a], action |-> m.label[a],
     to |-> m.fingerprint[m.update[<<x, a>>]]]

\* The replay stands before the first message of the trace.
ReplayStart(m, p) ==
    [models |-> <<m.initial>>, steps |-> <<>>,
     verdict |-> IF StateFails(m, p, m.initial) THEN "fail" ELSE "open"]

\* One message: nothing more once the property failed or a message was not
\* available; else the step, its transition check and the state check after it.
ReplayStep(m, p, r, a) ==
    LET x == Last(r.models)
        offered == AvailableAction(m, x, a)
    IN IF r.verdict # "open" THEN r
       ELSE IF offered = <<>> THEN [r EXCEPT !.verdict = "unavailable"]
       ELSE LET b == offered[1]
                y == m.update[<<x, b>>]
            IN [models  |-> Append(r.models, y),
                steps   |-> Append(r.steps, Transition(m, x, b)),
                verdict |-> IF StepFails(m, p, x, b) \/ StateFails(m, p, y)
                            THEN "fail" ELSE "open"]

\* replay_failure: the run of the trace up to the first failure of p, message by
\* message.
ReplaysOf(m, p, trace) ==
    LET after[k \in 0 .. Len(trace)] ==
            IF k = 0 THEN ReplayStart(m, p) ELSE ReplayStep(m, p, after[k - 1], trace[k])
    IN after

Replay(m, p, trace) == ReplaysOf(m, p, trace)[Len(trace)]

Reproduces(m, p, trace) == Replay(m, p, trace).verdict = "fail"

\* trace_key: traces are the same when their action ids are.
TraceKey(m, trace) == [i \in DOMAIN trace |-> m.id[trace[i]]]
=============================================================================
