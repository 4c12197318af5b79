------------------------------ MODULE Shrinker -------------------------------
(***************************************************************************)
(* shrink_trace (src/core.mbt): a failing trace is made smaller, first by  *)
(* deleting one message at a time, then by replacing one message by a      *)
(* smaller one, keeping a candidate when its replay still fails the        *)
(* property.  Candidates are evaluated once, and no more than the budget.  *)
(***************************************************************************)
EXTENDS Machines, FiniteSets

CONSTANTS Machine,       \* the machines a run may be given
          Properties,    \* the names of the properties, in the order they are given
          MaxDepth,      \* config.max_depth, which bounds the trace handed over
          ShrinkBudget   \* config.shrink_budget, positive

\* RunConfig::validate.
ASSUME ShrinkAssumption == MaxDepth \in Nat /\ ShrinkBudget \in Nat \ {0}

ASSUME MachineAssumption == \A m \in Machine : IsMachine(m)

VARIABLES machine,       \* the machine under test, never written
          job            \* the locals of shrink_trace

\* Where shrink_trace is: in the deletion loop, in the message loop at the
\* candidate-th smaller message, or returned; "idle" when it is not running.
JobPhases == {"idle", "delete", "message", "done"}

IdleJob ==
    [phase |-> "idle", property |-> "", original |-> <<>>, current |-> <<>>,
     visited |-> {}, evaluations |-> 0, exhausted |-> FALSE, index |-> 1, candidate |-> 1]

StartJob(p, trace) ==
    [IdleJob EXCEPT !.phase = "delete", !.property = p, !.original = trace,
                    !.current = trace, !.visited = {TraceKey(machine, trace)}]

Seen(trace) == TraceKey(machine, trace) \in job.visited
Fails(trace) == Reproduces(machine, job.property, trace)

\* Both loops stop, and the caller is told that the budget is spent.
Exhaust == job' = [job EXCEPT !.phase = "done", !.exhausted = TRUE]

\* A slip: nothing is remembered of a replay.
SpendNothing(trace) == job

Spend(trace) ==
    [job EXCEPT !.visited = @ \cup {TraceKey(machine, trace)}, !.evaluations = @ + 1]

\* A slip: an adopted candidate does not restart the loop.
EvaluateOnward(trace, otherwise) ==
    IF job.evaluations >= ShrinkBudget THEN Exhaust
    ELSE job' = [Spend(trace) EXCEPT !.current = IF Fails(trace) THEN trace ELSE @,
                                     !.index = otherwise.index, !.candidate = otherwise.candidate]

\* An unseen candidate: the budget ends the search, or the candidate is
\* evaluated, and adopted when it fails, which restarts the loop.
Evaluate(trace, otherwise) ==
    IF job.evaluations >= ShrinkBudget THEN Exhaust
    ELSE IF Fails(trace)
    THEN job' = [Spend(trace) EXCEPT !.current = trace, !.index = 1, !.candidate = 1]
    ELSE job' = [Spend(trace) EXCEPT !.index = otherwise.index, !.candidate = otherwise.candidate]

NextIndex == [index |-> job.index + 1, candidate |-> 1]
NextCandidate == [index |-> job.index, candidate |-> job.candidate + 1]

\* One round of the deletion loop.
DeleteStep ==
    /\ job.phase = "delete"
    /\ IF job.index > Len(job.current)
       THEN job' = [job EXCEPT !.phase = "message", !.index = 1]
       ELSE LET shorter == RemoveAt(job.current, job.index)
            IN IF Seen(shorter) THEN job' = [job EXCEPT !.index = @ + 1]
               ELSE Evaluate(shorter, NextIndex)

\* One round of the message loop: the end of the trace, the end of the smaller
\* messages, a message of the same id or a trace seen before, or an evaluation.
MessageStep ==
    /\ job.phase = "message"
    /\ IF job.index > Len(job.current) THEN job' = [job EXCEPT !.phase = "done"]
       ELSE LET original == job.current[job.index]
                smaller == machine.shrink[original]
            IN IF job.candidate > Len(smaller)
               THEN job' = [job EXCEPT !.index = @ + 1, !.candidate = 1]
               ELSE LET b == smaller[job.candidate]
                        other == ReplaceAt(job.current, job.index, b)
                    IN IF machine.id[b] = machine.id[original] \/ Seen(other)
                       THEN job' = [job EXCEPT !.candidate = @ + 1]
                       ELSE Evaluate(other, NextCandidate)

ShrinkStep == DeleteStep \/ MessageStep

-----------------------------------------------------------------------------
(***************************************************************************)
(* The shrinker on its own, given a trace as the runner hands it over: one *)
(* whose replay fails the property.                                        *)
(***************************************************************************)

Message == DOMAIN machine.id
TracesUpTo(n) == UNION {[1 .. k -> Message] : k \in 0 .. n}

ShrinkInit ==
    /\ machine \in Machine
    /\ \E p \in ToSet(Properties), t \in TracesUpTo(MaxDepth) :
          Reproduces(machine, p, t) /\ job = StartJob(p, t)

ShrinkNext == ShrinkStep /\ UNCHANGED machine

ShrinkSpec == ShrinkInit /\ [][ShrinkNext]_<<machine, job>>

\* The shape of the search: every trace at hand, or replayed, is one of the
\* machine's messages and no longer than the one handed over; the budget bounds the
\* replays and a search says it was cut short only when the budget is spent.
ShrinkTypeOK ==
    /\ job.phase \in JobPhases /\ job.property \in ToSet(Properties)
    /\ job.current \in TracesUpTo(Len(job.original))
    /\ \A key \in job.visited : Len(key) <= Len(job.original)
    /\ job.evaluations \in 0 .. ShrinkBudget
    /\ job.exhausted \in BOOLEAN /\ (job.exhausted => job.evaluations = ShrinkBudget)
    /\ job.index \in 1 .. Len(job.original) + 1 /\ job.candidate \in Nat \ {0}

\* The replay of the trace at hand fails the property.
CurrentFails == Fails(job.current)

\* A user can reach it: each step of its replay is a message the machine offers
\* there.
CurrentReachable ==
    LET r == Replay(machine, job.property, job.current)
    IN \A k \in DOMAIN r.steps :
          \E a \in ToSet(machine.actions[r.models[k]]) :
             /\ r.steps[k] = Transition(machine, r.models[k], a)
             /\ r.models[k + 1] = machine.update[<<r.models[k], a>>]

\* Whenever the search is stopped, the trace at hand is a counterexample a user
\* can reach, if the one handed over was; a walk whose messages share an id may hand
\* over a trace whose replay takes other messages ("shrinking keeps counterexamples reachable").
CurrentIsCounterexample ==
    job.phase # "idle" =>
        ShrinkTypeOK /\ (Fails(job.original) => CurrentFails /\ CurrentReachable)

\* The message loop is entered only with a trace no single deletion of which
\* still fails, although candidates seen before are skipped unreplayed.
DeletionMinimal ==
    [][job.phase = "delete" /\ job'.phase = "message" =>
         \A i \in DOMAIN job.current : ~Fails(RemoveAt(job.current, i))]_<<machine, job>>

\* The ids are finitely many and have a measure that every shrink function lowers,
\* where it changes the id.
Lowers(measure) ==
    \A a \in Message : \A b \in ToSet(machine.shrink[a]) :
        machine.id[b] # machine.id[a] => measure[machine.id[b]] < measure[machine.id[a]]
ShrinksDescend ==
    LET ids == Range(machine.id)
    IN IsFiniteSet(ids) /\ \E measure \in [ids -> 1 .. Cardinality(ids)] : Lowers(measure)

\* A search that was not cut short ends where no smaller message at a single
\* place, told apart by its id, still fails; shrink functions that run in circles
\* leave the traces the search came through, which it does not return to.
MessageMinimal ==
    job.phase = "done" /\ ~job.exhausted =>
        \A i \in DOMAIN job.current :
            \A b \in ToSet(machine.shrink[job.current[i]]) :
                LET other == ReplaceAt(job.current, i, b)
                IN machine.id[b] # machine.id[job.current[i]] /\ Fails(other)
                       => Seen(other) /\ ~ShrinksDescend

\* The search keeps a counterexample, and each of its two loops ends at a local
\* minimum: of deletions, then of smaller messages.
LocalMinima == []CurrentIsCounterexample /\ DeletionMinimal /\ []MessageMinimal

\* Shrink functions may run in circles and repeat themselves; still every step
\* takes the search nearer to its end ("cycle and duplicate shrink candidates
\* terminate"): it spends an evaluation, of which there are ShrinkBudget, or goes
\* on with the trace at hand, to a later loop, place or candidate.
Later(phase) == CASE phase = "delete" -> 0 [] phase = "message" -> 1 [] OTHER -> 2

SearchEnds ==
    [][\/ job.phase \in {"idle", "done"}
       \/ job'.evaluations > job.evaluations
       \/ /\ job'.evaluations = job.evaluations /\ job'.current = job.current
          /\ \/ Later(job'.phase) > Later(job.phase)
             \/ /\ job'.phase = job.phase
                /\ \/ job'.index > job.index
                   \/ job'.index = job.index /\ job'.candidate > job.candidate]_<<machine, job>>
=============================================================================
