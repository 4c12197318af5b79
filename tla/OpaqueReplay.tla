----------------------------- MODULE OpaqueReplay ------------------------------
(***************************************************************************)
(* The content-blind replay (protocol/opaque-web-replay-v1.mjs): a trace   *)
(* that reached a state is shortened by replaying it, confirmed by fresh   *)
(* replays and exported; later the export is replayed, or observed on      *)
(* another engine.  A replay resets the page; what the application keeps   *)
(* outside of it (an environment) is only reset by restoring a checkpoint, *)
(* where the driver has them.                                              *)
(*   A page is a record: first, its screen after a reset; offers[x], the   *)
(* actions of screen x; step[<<x, e, a>>], the screen and environment      *)
(* after action a; and bare, the screens with nothing left to activate.    *)
(***************************************************************************)
EXTENDS Integers, Sequences, SequencesExt

CONSTANTS
    OpaquePages, Environments,
    OpaqueTraces,   \* the traces an exploration may hand over
    OpaqueBudgets,  \* the replays a build may be allowed
    FreshAttempts,  \* freshReplayAttempts
    MaxReplaySteps  \* OPAQUE_WEB_MAX_REPLAY_STEPS

OpaqueActions == UNION {UNION {pg.offers[x] : x \in DOMAIN pg.offers} : pg \in OpaquePages}

\* An action offered leads to a screen of the page, wherever it is taken.
ASSUME OpaqueAssumption ==
    /\ OpaqueBudgets \subseteq Nat \ {0} /\ FreshAttempts \in Nat \ {0, 1} /\ MaxReplaySteps \in Nat
    /\ OpaqueTraces \subseteq Seq(OpaqueActions)
    /\ \A pg \in OpaquePages :
         /\ pg.first \in DOMAIN pg.offers
         /\ \A x \in DOMAIN pg.offers, e \in Environments : \A a \in pg.offers[x] :
              /\ <<x, e, a>> \in DOMAIN pg.step
              /\ pg.step[<<x, e, a>>] \in (DOMAIN pg.offers) \X Environments

VARIABLES
    page, peer,     \* the application under the source's engine and under another
    checkpoint,     \* the environment restored before each replay, or "none"
    request,        \* the trace, the screen and environment it must reach, the budget
    environment,    \* the application's, now
    opaqueAt,
    minimized, deletion, checks, exhausted, oneMinimal,
    freshRuns,
    export,         \* the replay exported, <<>> before
    later           \* what became of it: "none", "replayed", "diverged", "observed", "disagreed"

search == <<minimized, deletion, checks, exhausted, oneMinimal>>
given == <<page, peer, checkpoint, request>>
opaqueVars == <<given, environment, opaqueAt, search, freshRuns, export, later>>

\* One action of a trace: one that is not offered ends the replay.
OpaqueStep(pg, run, a) ==
    IF ~run.ok THEN run
    ELSE IF a \notin pg.offers[run.screen]
         THEN [run EXCEPT !.ok = FALSE, !.steps = Append(@, <<a, "not_observed">>)]
    ELSE LET then == pg.step[<<run.screen, run.environment, a>>]
             shown == IF then[1] \in pg.bare THEN "terminal"
                      ELSE IF then[1] = run.screen THEN "unchanged" ELSE "changed"
         IN [ok |-> TRUE, screen |-> then[1], environment |-> then[2],
             steps |-> Append(run.steps, <<a, shown>>)]

\* replayOpaqueTrace, begun in environment e: the run after each action, and at the end.
RunsOf(pg, e, trace) ==
    LET run[k \in 0 .. Len(trace)] ==
          IF k = 0 THEN [ok |-> TRUE, screen |-> pg.first, environment |-> e, steps |-> <<>>]
          ELSE OpaqueStep(pg, run[k - 1], trace[k])
    IN run
ReplayOpaque(pg, e, trace) == RunsOf(pg, e, trace)[Len(trace)]

\* Where a replay of the build begins: restored, or where the last one ended.
StartsIn == IF checkpoint = "none" THEN environment ELSE checkpoint

Attempt(trace) == ReplayOpaque(page, StartsIn, trace)

\* targetMatches; the environment counts only where it can be captured.
TargetMatches(run) ==
    /\ run.ok /\ run.screen = request.screen
    /\ checkpoint = "none" \/ run.environment = request.environment

OpaqueInit ==
    /\ page \in OpaquePages /\ peer \in OpaquePages
    /\ checkpoint \in Environments \cup {"none"}
    /\ \E trace \in OpaqueTraces, budget \in OpaqueBudgets,
          e \in IF checkpoint = "none" THEN Environments ELSE {checkpoint} :
         LET seen == ReplayOpaque(page, e, trace)
         IN /\ seen.ok
            /\ request = [trace |-> trace, screen |-> seen.screen, environment |-> seen.environment,
                          budget |-> budget]
    /\ environment \in Environments
    /\ opaqueAt = "target" /\ minimized = <<>> /\ deletion = 1 /\ checks = 0
    /\ exhausted = FALSE /\ oneMinimal = FALSE /\ freshRuns = <<>>
    /\ export = <<>> /\ later = "none"

Replayed(run) == environment' = run.environment /\ checks' = checks + 1

-----------------------------------------------------------------------------
\* The trace is replayed as it is; a state it does not reach again is an error.
CheckTarget ==
    /\ opaqueAt = "target"
    /\ LET run == Attempt(request.trace)
       IN /\ Replayed(run) /\ minimized' = request.trace
          /\ opaqueAt' = IF TargetMatches(run) THEN "delete" ELSE "error"
    /\ UNCHANGED <<given, deletion, exhausted, oneMinimal, freshRuns, export, later>>

Shorter == RemoveAt(minimized, deletion)

\* The deletion loop begins again after every deletion kept.
DeleteAction ==
    /\ opaqueAt = "delete" /\ deletion <= Len(minimized) /\ checks < request.budget
    /\ LET run == Attempt(Shorter)
       IN /\ Replayed(run)
          /\ minimized' = IF TargetMatches(run) THEN Shorter ELSE minimized
          /\ deletion' = IF TargetMatches(run) THEN 1 ELSE deletion + 1
    /\ UNCHANGED <<given, opaqueAt, exhausted, oneMinimal, freshRuns, export, later>>

DeletionsEnd ==
    /\ opaqueAt = "delete" /\ deletion > Len(minimized)
    /\ opaqueAt' = "verify" /\ deletion' = 1
    /\ UNCHANGED <<given, environment, minimized, checks, exhausted, oneMinimal, freshRuns, export, later>>

\* Every deletion once more: one that reproduces now is believed, not taken.
VerifyDeletion ==
    /\ opaqueAt = "verify" /\ deletion <= Len(minimized) /\ checks < request.budget
    /\ LET run == Attempt(Shorter)
       IN /\ Replayed(run)
          /\ opaqueAt' = IF TargetMatches(run) THEN "fresh" ELSE "verify"
    /\ deletion' = deletion + 1
    /\ UNCHANGED <<given, minimized, exhausted, oneMinimal, freshRuns, export, later>>

VerificationEnds ==
    /\ opaqueAt = "verify" /\ deletion > Len(minimized)
    /\ opaqueAt' = "fresh" /\ oneMinimal' = TRUE
    /\ UNCHANGED <<given, environment, minimized, deletion, checks, exhausted, freshRuns, export, later>>

\* A replay wanted when none is left ends both passes.
BudgetEnds ==
    /\ opaqueAt \in {"delete", "verify"} /\ deletion <= Len(minimized) /\ checks >= request.budget
    /\ exhausted' = TRUE /\ opaqueAt' = "fresh"
    /\ UNCHANGED <<given, environment, minimized, deletion, checks, oneMinimal, freshRuns, export, later>>

FreshReplay ==
    /\ opaqueAt = "fresh" /\ Len(freshRuns) < FreshAttempts
    /\ LET run == Attempt(minimized)
       IN environment' = run.environment /\ freshRuns' = Append(freshRuns, run)
    /\ UNCHANGED <<given, opaqueAt, search, export, later>>

\* The projection hashed of a fresh run; the environment only where it is captured.
Projection(run) ==
    <<run.ok, run.steps, run.screen, IF checkpoint = "none" THEN "none" ELSE run.environment>>
Agreeing ==
    /\ \A k \in DOMAIN freshRuns : TargetMatches(freshRuns[k])
    /\ \A k \in DOMAIN freshRuns : Projection(freshRuns[k]) = Projection(freshRuns[1])

Status == IF oneMinimal THEN "one-minimal" ELSE IF exhausted THEN "budget-exhausted" ELSE "not-one-minimal"

\* validateOpaqueWebReplayV1, of what a build can get wrong: the number of steps.
ValidReplay(steps) == Len(steps) <= MaxReplaySteps

\* The export, refused when the fresh runs differ or when it has too many steps.
Export ==
    /\ opaqueAt = "fresh" /\ Len(freshRuns) = FreshAttempts
    /\ IF Agreeing /\ ValidReplay(freshRuns[1].steps)
       THEN opaqueAt' = "exported" /\ export' = [steps |-> freshRuns[1].steps, status |-> Status]
       ELSE opaqueAt' = "error" /\ UNCHANGED export
    /\ UNCHANGED <<given, environment, search, freshRuns, later>>

-----------------------------------------------------------------------------
ExportedTrace == [k \in DOMAIN export.steps |-> export.steps[k][1]]

\* The runs of a trace one after the other, nothing restored between them.
LaterRuns(pg, e, trace) ==
    LET run[k \in 1 .. FreshAttempts] ==
          ReplayOpaque(pg, IF k = 1 THEN e ELSE run[k - 1].environment, trace)
    IN run

\* replayOpaqueWebReplayV1: no checkpoint is restored; every transition must be as
\* exported.
ReplayExport ==
    /\ opaqueAt = "exported" /\ later = "none"
    /\ \E e \in Environments :
         LET runs == LaterRuns(page, e, ExportedTrace)
         IN /\ environment' = runs[FreshAttempts].environment
            /\ later' = IF \A k \in DOMAIN runs : runs[k].ok /\ runs[k].steps = export.steps
                        THEN "replayed" ELSE "diverged"
    /\ UNCHANGED <<given, opaqueAt, search, freshRuns, export>>

\* observeOpaqueWebReplayV1, on the peer engine: what its runs agree on becomes a
\* replay of its own, which claims nothing of minimality.
ObserveExport ==
    /\ opaqueAt = "exported" /\ later = "none"
    /\ \E e \in Environments :
         LET runs == LaterRuns(peer, e, ExportedTrace)
         IN /\ environment' = runs[FreshAttempts].environment
            /\ IF \A k \in DOMAIN runs : runs[k].ok /\ runs[k].steps = runs[1].steps
               THEN /\ later' = "observed"
                    /\ export' = [steps |-> runs[1].steps, status |-> "not-one-minimal"]
               ELSE later' = "disagreed" /\ UNCHANGED export
    /\ UNCHANGED <<given, opaqueAt, search, freshRuns>>

OpaqueNext ==
    \/ CheckTarget \/ DeleteAction \/ DeletionsEnd \/ VerifyDeletion \/ VerificationEnds
    \/ BudgetEnds \/ FreshReplay \/ Export \/ ReplayExport \/ ObserveExport

OpaqueSpec == OpaqueInit /\ [][OpaqueNext]_opaqueVars

-----------------------------------------------------------------------------
\* A page that does not touch its environment is the same in all of them.
Pure(pg) == \A k \in DOMAIN pg.step : pg.step[k][2] = k[2]
            /\ \A e \in Environments : pg.step[<<k[1], e, k[3]>>][1] = pg.step[k][1]

\* Every replay of the build begins in the same application.
Isolated == checkpoint # "none" \/ Pure(page)
Reaches(trace) == TargetMatches(Attempt(trace))

\* Where every replay begins in the same application, what is called one-minimal
\* reaches the state and does not with any action deleted; the claim is never made
\* of a search the budget cut short, nor of another engine's observation.
OpaqueMinimal ==
    opaqueAt = "exported" /\ export.status = "one-minimal" =>
        /\ ~exhausted /\ later # "observed"
        /\ Isolated => Reaches(minimized) /\ \A i \in DOMAIN minimized : ~Reaches(RemoveAt(minimized, i))

\* Where every replay begins in the same application, a build fails only for the
\* steps allowed; on a page that does not touch its environment the export shows
\* the same transitions ever after, on its own engine; and an export is at all
\* times the steps of some run that was complete.
OpaqueFaithful ==
    /\ Isolated /\ opaqueAt = "error" => Len(minimized) > MaxReplaySteps
    /\ Pure(page) => later # "diverged" /\ (peer = page => later # "disagreed")
    /\ opaqueAt = "exported" /\ later # "observed" =>
         \E e \in Environments :
            LET run == ReplayOpaque(page, e, ExportedTrace)
            IN run.ok /\ run.steps = export.steps /\ run.screen = request.screen
===============================================================================
