----------------------------- MODULE DriverHost ------------------------------
(***************************************************************************)
(* The driver protocol server (protocol/jsonl-server.mjs and               *)
(* ui-driver-v1.mjs, serveJsonl) over a driver that holds a browser and a  *)
(* context (web/playwright-browser/playwright-browser-driver.mjs).  Lines  *)
(* are handled one after another, but a request that exceeds its time is   *)
(* answered while its dispatch goes on: from then on calls of the driver   *)
(* overlap at their awaits.                                                *)
(***************************************************************************)
EXTENDS Naturals, FiniteSets

CONSTANT MaxRequests

ASSUME HostAssumption == MaxRequests \in Nat

VARIABLES
    server,     \* negotiated and disposed of the server; stopped: the loop was left
    serving,    \* the request that is awaited, 0 for none
    tasks,      \* the dispatches that have not ended, by request
    overran,    \* a request has been answered ahead of its dispatch
    driver,     \* what the driver holds: browser, context, page, 0 for null
    browsers, contexts,    \* what lives
    sent, response

hostVars == <<server, serving, tasks, overran, driver, browsers, contexts, sent, response>>

NoTask == [method |-> "none", at |-> "none", on |-> 0]
NoSession == [browser |-> 0, context |-> 0, page |-> 0]

HostInit ==
    /\ server = [negotiated |-> FALSE, disposed |-> FALSE, stopped |-> FALSE]
    /\ serving = 0 /\ tasks = [n \in 1..MaxRequests |-> NoTask] /\ overran = FALSE
    /\ driver = NoSession /\ browsers = {} /\ contexts = {}
    /\ sent = 0 /\ response = [method |-> "none", ok |-> FALSE]

Answered(n, ok) ==
    /\ response' = IF serving = n THEN [method |-> tasks[n].method, ok |-> ok] ELSE response
    /\ serving' = IF serving = n THEN 0 ELSE serving

TaskAt(n, method, at) == tasks[n].method = method /\ tasks[n].at = at
Goes(n, at, on) == tasks' = [tasks EXCEPT ![n] = [method |-> @.method, at |-> at, on |-> on]]

-----------------------------------------------------------------------------
\* Where a call of the driver first waits, and on what: reset and dispose close the context
\* there is, launch starts a browser only if there is none, the rest works on the page.
AfterClose(method) ==
    CASE method = "reset" -> IF driver.browser = 0 THEN "launch" ELSE "context"
      [] OTHER -> IF driver.browser = 0 THEN "leave" ELSE "quit"

FirstAwait(method) ==
    CASE method = "execute" -> "work"
      [] method # "execute" /\ driver.context # 0 -> "close"
      [] OTHER -> AfterClose(method)

WaitsOn(at) == CASE at \in {"close", "work"} -> driver.context
                 [] at \in {"context", "quit"} -> driver.browser
                 [] OTHER -> 0

\* handle up to its dispatch: what is not a request or has an id that was used is refused,
\* then what comes before hello, then what comes to a session that is disposed.
Refused(method, fresh) ==
    \/ ~fresh
    \/ ~server.negotiated /\ method # "hello"
    \/ server.disposed /\ method \notin {"hello", "shutdown"}
    \/ method = "execute" /\ driver.page = 0

Request(method, fresh) ==
    /\ serving = 0 /\ ~server.stopped /\ sent < MaxRequests /\ sent' = sent + 1
    /\ IF Refused(method, fresh)
       THEN /\ response' = [method |-> method, ok |-> FALSE] /\ UNCHANGED <<server, serving, tasks>>
       ELSE IF method = "hello" \/ (method = "shutdown" /\ server.disposed)
       THEN /\ response' = [method |-> method, ok |-> TRUE] /\ UNCHANGED <<serving, tasks>>
            /\ server' = IF method = "hello" THEN [server EXCEPT !.negotiated = TRUE]
                         ELSE [server EXCEPT !.stopped = TRUE]
       ELSE LET at == FirstAwait(method)
            IN /\ tasks' = [tasks EXCEPT ![sent'] = [method |-> method, at |-> at, on |-> WaitsOn(at)]]
               /\ serving' = sent' /\ UNCHANGED response
               /\ server' = IF method = "reset" THEN [server EXCEPT !.disposed = FALSE] ELSE server
    /\ UNCHANGED <<overran, driver, browsers, contexts>>

\* withTimeout: the answer is an error, the dispatch goes on.
TimesOut ==
    /\ serving # 0
    /\ Answered(serving, FALSE) /\ overran' = TRUE
    /\ UNCHANGED <<server, tasks, driver, browsers, contexts, sent>>

-----------------------------------------------------------------------------
\* The context that was waited on is closed; the driver still holds it until it has another.
Closed(n) ==
    /\ tasks[n].at = "close"
    /\ contexts' = {c \in contexts : c.id # tasks[n].on}
    /\ LET at == AfterClose(tasks[n].method) IN Goes(n, at, WaitsOn(at))
    /\ UNCHANGED <<server, serving, overran, driver, browsers, sent, response>>

Launched(n) ==
    /\ TaskAt(n, "reset", "launch")
    /\ browsers' = browsers \cup {n} /\ driver' = [driver EXCEPT !.browser = n]
    /\ Goes(n, "context", n)
    /\ UNCHANGED <<server, serving, overran, contexts, sent, response>>

\* newContext, told by the request that made it; then its page is made and goes to the url.
ContextMade(n) ==
    /\ TaskAt(n, "reset", "context") /\ tasks[n].on \in browsers
    /\ contexts' = contexts \cup {[id |-> n, in |-> tasks[n].on]}
    /\ driver' = [driver EXCEPT !.context = n] /\ Goes(n, "page", n)
    /\ UNCHANGED <<server, serving, overran, browsers, sent, response>>

Lives(context) == \E c \in contexts : c.id = context

Ends(n, ok) == tasks' = [tasks EXCEPT ![n] = NoTask] /\ Answered(n, ok)

\* The page is there and has settled, or an action is done.
PageReady(n) ==
    /\ tasks[n].at \in {"page", "work"} /\ Lives(tasks[n].on)
    /\ driver' = IF tasks[n].at = "page" THEN [driver EXCEPT !.page = n] ELSE driver
    /\ Ends(n, TRUE)
    /\ UNCHANGED <<server, overran, browsers, contexts, sent>>

\* A slip: only the contexts are closed.
QuittingNone(browser) == {}

\* What browser.close ends.
Quitting(browser) == {browser}

\* The end of dispose, and of a shutdown that disposes.
Disposed(n) ==
    /\ tasks[n].at \in {"quit", "leave"}
    /\ browsers' = browsers \ Quitting(tasks[n].on)
    /\ contexts' = {c \in contexts : c.in # tasks[n].on}
    /\ driver' = NoSession
    /\ server' = [server EXCEPT !.disposed = TRUE,
                                !.stopped = @ \/ (tasks[n].method = "shutdown" /\ serving = n)]
    /\ Ends(n, TRUE)
    /\ UNCHANGED <<overran, sent>>

\* Any await of the driver may reject, and does on what is closed; a page that was made but
\* could not be brought to its url is kept.
Rejected(n) ==
    /\ tasks[n] # NoTask /\ Ends(n, FALSE)
    /\ \/ UNCHANGED driver
       \/ tasks[n].at = "page" /\ driver' = [driver EXCEPT !.page = n]
    /\ UNCHANGED <<server, overran, browsers, contexts, sent>>

HostNext ==
    \/ \E method \in {"hello", "reset", "execute", "dispose", "shutdown"}, fresh \in BOOLEAN :
         Request(method, fresh)
    \/ TimesOut
    \/ \E n \in 1..MaxRequests :
         Closed(n) \/ Launched(n) \/ ContextMade(n) \/ PageReady(n) \/ Disposed(n) \/ Rejected(n)

\* Nothing is asked of the driver; only the timer of a request fires.
HostSpec == HostInit /\ [][HostNext]_hostVars /\ WF_hostVars(TimesOut)

-----------------------------------------------------------------------------
\* While every request ended before its answer, whatever rejected on the way, the driver has
\* one session: what lives is what it holds, so that the next reset or dispose can reach it,
\* and a session that is disposed leaves nothing.
OneSession ==
    ~overran =>
        /\ browsers \subseteq {driver.browser} /\ {c.id : c \in contexts} \subseteq {driver.context}
        /\ server.disposed => browsers = {} /\ contexts = {}

\* Every request is answered, however long its dispatch takes.
RequestsAnswered == serving # 0 ~> serving = 0

\* What docs/WEB_DRIVER_PROTOCOL.md:22 says of dispose: once no call is running, a disposed
\* session has released its browser and contexts.
DisposeReleases ==
    (server.disposed /\ \A n \in 1..MaxRequests : tasks[n] = NoTask) => browsers = {} /\ contexts = {}
===============================================================================
