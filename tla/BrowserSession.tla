--------------------------- MODULE BrowserSession ----------------------------
(***************************************************************************)
(* The calls of GenericPlaywrightBrowserDriver                             *)
(* (web/playwright-browser/generic-browser-driver.mjs) on a page that goes *)
(* on by itself: requests, answers, exceptions and navigations after a     *)
(* load or an action.  A call ends with a settle                           *)
(* (protocol/semantic-quiescence.mjs) and a snapshot; what it answers is   *)
(* only worth something if the page had come to rest.  No readyCheck is    *)
(* configured, as in the browser stage.                                    *)
(***************************************************************************)
EXTENDS Naturals, Sequences, SequencesExt

CONSTANTS
    Scripts,         \* what a page may do by itself after a load or an action
    StableSamples,   \* 3 in the stage
    Slack,           \* fingerprints a page lets pass before a step that is no answer
    MaxSamples,      \* samples within the timeout
    Attempts,        \* 4 in the driver
    MaxCalls

\* A page shows something new, throws, asks the server and is answered, leaves for another
\* document and arrives there.
Steps == {"show", "throw", "ask", "answer", "leave", "arrive"}

\* The requests pending after a step of the page.
Pended(step, pending) ==
    CASE step \in {"ask", "leave"} -> pending + 1
      [] step = "answer" -> pending - 1
      [] step = "arrive" -> 0
      [] OTHER -> pending

\* An ask comes before its answer, a leave before its arrive: what is pending after each
\* step of a script is no negative number.
Counts(pending, script, after) ==
    /\ after[0] = pending
    /\ \A i \in DOMAIN script : /\ after[i] = Pended(script[i], after[i - 1])
                                /\ script[i] \in {"answer", "arrive"} => after[i - 1] > 0

ASSUME SessionAssumption ==
    /\ Scripts \subseteq Seq(Steps)
    /\ \A s \in Scripts : \E after \in [0 .. Len(s) -> 0 .. Len(s)] : Counts(0, s, after)
    /\ {StableSamples, MaxSamples, Attempts} \subseteq Nat \ {0} /\ {Slack, MaxCalls} \subseteq Nat

VARIABLES
    page,      \* its context and document, what it shows and will do, pendingRequests, and
               \* the fingerprints taken since it last did something
    console,   \* the uncaught errors recorded, with the context of each
    traced,    \* exceptionDiagnostics: the call of each error in which
               \* safeExceptionProvenance found a frame of the project
    lastSettle,
    opaque,    \* the content-blind profile
    call, calls, answer

sessionVars == <<page, console, traced, lastSettle, opaque, call, calls, answer>>

NoCall == [kind |-> "none", at |-> "none", tries |-> 0, samples |-> 0, stable |-> 0, last |-> 0,
           pending |-> 0, doc |-> 0, traced |-> 0]
NoAnswer == [kind |-> "none", settle |-> "none", shows |-> 0, errors |-> <<>>, provenance |-> 0]

SessionInit ==
    /\ page = [context |-> 0, doc |-> 0, shows |-> 0, script |-> <<>>, pending |-> 0, idle |-> 0]
    /\ console = <<>> /\ traced = <<>> /\ lastSettle = "none" /\ opaque \in BOOLEAN
    /\ call = NoCall /\ calls = 0 /\ answer = NoAnswer

-----------------------------------------------------------------------------
Visible(step) == step \in {"show", "throw", "answer", "arrive"}

\* safeExceptionProvenance tells of an error if its stack has a frame of the project.
Diagnostics == {traced, Append(traced, calls)}

\* The page, and the listeners createContext put on it: request, requestfinished, pageerror.
PageStep ==
    /\ page.script # <<>>
    /\ LET step == Head(page.script)
       IN /\ page' = [page EXCEPT !.script = Tail(@), !.idle = 0,
                                  !.doc = @ + IF step = "arrive" THEN 1 ELSE 0,
                                  !.shows = @ + IF Visible(step) THEN 1 ELSE 0,
                                  !.pending = Pended(step, @)]
          /\ IF step = "throw" /\ ~opaque
             THEN /\ console' = Append(console, page.context)
                  /\ traced' \in Diagnostics
             ELSE UNCHANGED <<console, traced>>
    /\ UNCHANGED <<lastSettle, opaque, call, calls, answer>>

LoadedPage(script, context) ==
    [page EXCEPT !.context = context, !.doc = @ + 1, !.shows = @ + 1, !.script = script, !.pending = 0, !.idle = 0]

-----------------------------------------------------------------------------
CallAt(kind, at) == call.kind = kind /\ call.at = at
Settling(c) == [c EXCEPT !.at = "settle", !.samples = 0, !.stable = 0, !.last = 0]
Answering(c) == [c EXCEPT !.at = "snapshot", !.doc = page'.doc]

ThrowCall == call' = NoCall /\ answer' = NoAnswer

BeginCall(kind) ==
    /\ call = NoCall /\ calls < MaxCalls /\ (page.context = 0 => kind = "reset")
    /\ calls' = calls + 1 /\ answer' = NoAnswer
    /\ call' = [NoCall EXCEPT !.kind = kind, !.doc = page.doc,
                              !.at = CASE kind \in {"reset", "restart"} -> "hook"
                                       [] kind = "execute" -> "before"
                                       [] OTHER -> "load"]
    /\ UNCHANGED <<page, console, traced, lastSettle, opaque>>

\* The hook of the server: beforeReset, restartServer.  The page is still there meanwhile.
Hook ==
    /\ call.at = "hook"
    /\ (call' = [call EXCEPT !.at = "load"] /\ UNCHANGED answer) \/ ThrowCall
    /\ UNCHANGED <<page, console, traced, lastSettle, opaque, calls>>

\* A slip: what the earlier page threw is left in place.
CreateContextOver(script) ==
    /\ page' = LoadedPage(script, page.context + 1) /\ lastSettle' = "none"
    /\ UNCHANGED <<console, traced>>

\* The rest of reset up to its settle: the context is closed, createContext clears, goto.
CreateContext(script) ==
    /\ page' = LoadedPage(script, page.context + 1) /\ lastSettle' = "none"
    /\ console' = <<>> /\ traced' = <<>>

ResetPage ==
    /\ CallAt("reset", "load") /\ \E script \in Scripts : CreateContext(script)
    /\ call' = Settling(call) /\ UNCHANGED <<opaque, calls, answer>>

\* reload, goBack and the reload of restartManagedServer.
Load ==
    /\ call.at = "load" /\ call.kind # "reset"
    /\ \/ /\ \E script \in Scripts : page' = LoadedPage(script, page.context)
          /\ call' = Settling(call) /\ UNCHANGED answer
       \/ ThrowCall /\ UNCHANGED page
    /\ UNCHANGED <<console, traced, lastSettle, opaque, calls>>

\* The snapshot before an action, and diagnosticCountBefore.
Before ==
    /\ CallAt("execute", "before")
    /\ IF page.doc = call.doc
       THEN call' = [call EXCEPT !.at = "act", !.traced = Len(traced)] /\ UNCHANGED answer
       ELSE ThrowCall
    /\ UNCHANGED <<page, console, traced, lastSettle, opaque, calls>>

\* The locator no longer counts one element, or the action is done and has its effects.
Act ==
    /\ CallAt("execute", "act")
    /\ \/ /\ \E script \in Scripts : page' = [page EXCEPT !.script = @ \o script, !.idle = 0]
          /\ call' = Settling(call) /\ UNCHANGED answer
       \/ ThrowCall /\ UNCHANGED page
    /\ UNCHANGED <<console, traced, lastSettle, opaque, calls>>

\* A sample reads the pending requests while its fingerprint is on the way.
BeginSample ==
    /\ call.at = "settle"
    /\ call' = [call EXCEPT !.at = "sample", !.pending = page.pending, !.doc = page.doc]
    /\ UNCHANGED <<page, console, traced, lastSettle, opaque, calls, answer>>

\* A slip: pending requests are not asked for.
StableWhilePending(c, shows) == IF shows = c.last THEN c.stable + 1 ELSE 1

\* consecutiveStable after a sample.
Stable(c, shows) == IF c.pending > 0 THEN 0 ELSE IF shows = c.last THEN c.stable + 1 ELSE 1

\* A slip: there is no limit to the samples.
MayTimeOutNever(samples) == FALSE

\* The timeout is asked after a sample; by the last of MaxSamples it has passed.
MayTimeOut(samples) == samples <= MaxSamples

\* isNavigationRace, where settleAfterPossibleNavigation or snapshotAfterPossibleNavigation
\* tries again.  What is read of an opaque page fails with an error of its own.
RaceRetried(frame) == call.kind = "execute" /\ (opaque => frame) /\ call.tries + 1 < Attempts

\* quiescenceFingerprint: of all that is shown, or of its structure on an opaque page.
Fingerprint == page.shows

\* What is left of the script can wait for another fingerprint.
Patient ==
    IF page.script = <<>> THEN TRUE
    ELSE page.idle < Slack \/ Head(page.script) \in {"answer", "arrive"}

EndSample ==
    /\ call.at = "sample"
    /\ Patient
    /\ page.doc = call.doc
    /\ page' = [page EXCEPT !.idle = IF @ < Slack THEN @ + 1 ELSE @]
    /\ LET after == [call EXCEPT !.at = "settle", !.samples = @ + 1, !.last = Fingerprint,
                                 !.stable = Stable(call, Fingerprint)]
       IN \/ /\ after.stable < StableSamples /\ after.samples # MaxSamples
             /\ call' = [after EXCEPT !.pending = 0, !.doc = 0] /\ UNCHANGED lastSettle
          \/ /\ after.stable >= StableSamples \/ MayTimeOut(after.samples)
             /\ lastSettle' = IF call.kind = "restart" THEN lastSettle
                              ELSE IF after.stable >= StableSamples THEN "settled" ELSE "timeout"
             /\ call' = Answering([after EXCEPT !.tries = 0])
    /\ UNCHANGED <<console, traced, opaque, calls, answer>>

SampleRace ==
    /\ call.at = "sample" /\ page.doc # call.doc
    /\ \E frame \in BOOLEAN : IF RaceRetried(frame)
                              THEN call' = Settling([call EXCEPT !.tries = @ + 1]) /\ UNCHANGED answer
                              ELSE ThrowCall
    /\ UNCHANGED <<page, console, traced, lastSettle, opaque, calls>>

\* newestDiagnostic of execute, told by the call it was recorded in; 0 is none.
Provenance == IF call.kind = "execute" /\ Len(traced) > call.traced THEN Last(traced) ELSE 0

\* The snapshot a call answers with, and the violations of an execute.
Snapshot ==
    /\ call.at = "snapshot" /\ page.doc = call.doc
    /\ answer' = [kind |-> call.kind, settle |-> lastSettle, shows |-> page.shows,
                  errors |-> console, provenance |-> Provenance]
    /\ call' = NoCall
    /\ UNCHANGED <<page, console, traced, lastSettle, opaque, calls>>

SnapshotRace ==
    /\ call.at = "snapshot" /\ page.doc # call.doc
    /\ IF RaceRetried(FALSE)
       THEN call' = [call EXCEPT !.tries = @ + 1, !.doc = page.doc] /\ UNCHANGED answer
       ELSE ThrowCall
    /\ UNCHANGED <<page, console, traced, lastSettle, opaque, calls>>

DriverStep ==
    \/ Hook \/ ResetPage \/ Load \/ Before \/ Act \/ BeginSample \/ EndSample
    \/ SampleRace \/ Snapshot \/ SnapshotRace

SessionNext ==
    \/ PageStep \/ DriverStep
    \/ \E kind \in {"reset", "execute", "reload", "goBack", "restart"} : BeginCall(kind)

\* The driver awaits its own calls to an end; a page step other than an answer comes in time.
SessionFairness == WF_sessionVars(DriverStep) /\ WF_sessionVars(PageStep)

SessionSpec == SessionInit /\ [][SessionNext]_sessionVars /\ SessionFairness

-----------------------------------------------------------------------------
\* A call whose snapshot says it settled shows the page as it will stay: nothing it does by
\* itself is left, no request is pending, and nothing has been shown since.  This needs a page
\* whose steps follow within Slack fingerprints, two fewer than StableSamples: one sample is
\* lost to the step before, one to the pending count that is read ahead of its fingerprint.
\* A restart is left out: its settle is not stored, its snapshot carries an earlier one.
SettledIsFinal ==
    (Slack + 2 <= StableSamples /\ answer.settle = "settled" /\ answer.kind # "restart" /\ call = NoCall)
        => page.script = <<>> /\ page.pending = 0 /\ page.shows = answer.shows

\* The errors a snapshot carries are of its own context, whatever the page closed by reset
\* threw until then; the error that is told for a violation was thrown during that execute.
ErrorsAreOwn ==
    /\ \A i \in DOMAIN answer.errors : answer.errors[i] = page.context
    /\ answer.provenance # 0 => answer.kind = "execute" /\ answer.provenance = calls

\* Every call comes to an answer or an error, on a page that never rests or never answers too.
CallsEnd == call # NoCall ~> call = NoCall
===============================================================================
